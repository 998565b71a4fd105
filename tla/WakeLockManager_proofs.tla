----------------------- MODULE WakeLockManager_proofs -----------------------
(* Theorems about WakeLockManager, for any number of calls and any int.    *)
EXTENDS WakeLockManager, TLAPS

\* The counter never leaves the ids, whatever the width of int.
LEMMA NextIdInIds ==
  ASSUME NEW id \in Ids
  PROVE  NextId(id) \in Ids
BY MaxIntAssumption DEF NextId, Incremented, Ids

-----------------------------------------------------------------------------
(* The inductive invariant: the monitor is held exactly by the call between *)
(* its first and its last step, so that no intent can be completed before   *)
(* its lock is stored, and what is stored is what its number says.          *)

MonitorHeld == \A e \in Intents : monitor = e <=> stage[e] \in {"entered", "started"}

Numbered == \A e \in Intents : wakeId[e] = 0 <=> stage[e] = "new"

NotYetLocked == \A e \in Intents : stage[e] # "returned" => lock[e] = "none"

StoredUnderItsNumber ==
  \A id \in Ids : mActiveWakeLocks[id] # NoIntent =>
    /\ wakeId[mActiveWakeLocks[id]] = id
    /\ stage[mActiveWakeLocks[id]] = "returned"

CompletedReturned == \A e \in completed : stage[e] = "returned"

IInv ==
  /\ TypeOK
  /\ MonitorHeld /\ Numbered /\ NotYetLocked
  /\ StoredUnderItsNumber /\ CompletedReturned
  /\ LockStaysUntilCompleted /\ CompletedGivesBack

\* At the start there is no lock.
LEMMA IInvInit == Init => IInv
BY MaxIntAssumption, NoIntentAssumption
   DEF Init, IInv, TypeOK, Ids, MonitorHeld, Numbered, NotYetLocked,
       StoredUnderItsNumber, CompletedReturned, LockStaysUntilCompleted,
       CompletedGivesBack

\* Numbers are given once, so a number reused stays reused.
LEMMA ReusedStays ==
  ASSUME IInv, NEW e \in Intents, Reused(e),
         \A f \in Intents : wakeId[f] # 0 => wakeId'[f] = wakeId[f]
  PROVE  Reused(e)'
BY DEF Reused

\* Entering the monitor gives the next number out: who has it already is now
\* reused, and nobody else is disturbed.
LEMMA EnterStep ==
  ASSUME IInv, NEW e \in Intents, Enter(e)
  PROVE  IInv'
<1>1. TypeOK' /\ wakeId'[e] \in Ids /\ wakeId[e] = 0
  BY NextIdInIds DEF IInv, TypeOK, Enter, Numbered
<1>2. \A f \in Intents : wakeId[f] # 0 => wakeId'[f] = wakeId[f]
  BY <1>1 DEF IInv, TypeOK, Enter
<1>3. MonitorHeld' /\ Numbered' /\ NotYetLocked'
  BY <1>1, NoIntentAssumption
     DEF IInv, TypeOK, Ids, Enter, MonitorHeld, Numbered, NotYetLocked
<1>4. StoredUnderItsNumber' /\ CompletedReturned'
  BY <1>1, NoIntentAssumption
     DEF IInv, TypeOK, Enter, StoredUnderItsNumber, CompletedReturned
<1>5. LockStaysUntilCompleted' /\ CompletedGivesBack'
  <2>1. ASSUME NEW f \in Intents, stage[f] = "returned"
        PROVE  f # e /\ wakeId'[f] = wakeId[f] /\ lock'[f] = lock[f]
               /\ stage'[f] = "returned" /\ (Reused(f) => Reused(f)')
    BY <1>2, <2>1, ReusedStays DEF IInv, TypeOK, Enter
  <2>2. \A f \in Intents : stage'[f] = "returned" => stage[f] = "returned"
    BY DEF IInv, TypeOK, Enter
  <2> QED BY <2>1, <2>2 DEF IInv, TypeOK, Enter, LockStaysUntilCompleted,
                            CompletedGivesBack, CompletedReturned
<1> QED BY <1>1, <1>3, <1>4, <1>5 DEF IInv

\* The lock is acquired inside the monitor, under the number given out there.
LEMMA AcquireLockStep ==
  ASSUME IInv, NEW e \in Intents, AcquireLock(e)
  PROVE  IInv'
<1>1. wakeId[e] \in Ids /\ e \notin completed /\ monitor = e
  BY DEF IInv, TypeOK, AcquireLock, Numbered, CompletedReturned, MonitorHeld
<1>2. TypeOK'
  BY <1>1 DEF IInv, TypeOK, AcquireLock
<1>3. MonitorHeld' /\ Numbered' /\ NotYetLocked'
  BY <1>1, NoIntentAssumption
     DEF IInv, TypeOK, Ids, AcquireLock, MonitorHeld, Numbered, NotYetLocked
<1>4. StoredUnderItsNumber' /\ CompletedReturned'
  BY <1>1 DEF IInv, TypeOK, AcquireLock, StoredUnderItsNumber, CompletedReturned
<1>5. ASSUME NEW f \in Intents, ~Reused(f)'
      PROVE  ~Reused(f) /\ (f # e => wakeId[f] # wakeId[e])
  BY <1>1, <1>5 DEF Reused, AcquireLock, Ids
<1>6. LockStaysUntilCompleted' /\ CompletedGivesBack'
  BY <1>1, <1>5 DEF IInv, TypeOK, AcquireLock, LockStaysUntilCompleted,
     CompletedGivesBack, CompletedReturned
<1> QED BY <1>2, <1>3, <1>4, <1>6 DEF IInv

\* Completing gives back the lock of the very number.
LEMMA CompleteStep ==
  ASSUME IInv, NEW e \in Intents, completeWakefulIntent(e)
  PROVE  IInv'
<1>1. stage[e] = "returned" /\ wakeId[e] \in Ids /\ completed' = completed \cup {e}
      /\ UNCHANGED <<monitor, mNextId, wakeId, stage>>
  BY NoIntentAssumption
     DEF IInv, TypeOK, completeWakefulIntent, Delivered, MonitorHeld, Numbered
<1>2. \A f \in Intents : Reused(f)' <=> Reused(f)
  BY <1>1 DEF Reused
<1> DEFINE found == mActiveWakeLocks[wakeId[e]]
<1>3. wakeId[e] # 0
  BY <1>1 DEF Ids
<1>4. CASE found = NoIntent
  <2>1. UNCHANGED <<mActiveWakeLocks, lock>>
    BY <1>3, <1>4 DEF completeWakefulIntent, ReleaseStored
  <2>2. Reused(e)
    BY <1>1, <1>4, <2>1, NoIntentAssumption
       DEF IInv, LockStaysUntilCompleted, completeWakefulIntent
  <2> QED BY <1>1, <1>2, <2>1, <2>2
          DEF IInv, TypeOK, MonitorHeld, Numbered, NotYetLocked,
              StoredUnderItsNumber, CompletedReturned, LockStaysUntilCompleted,
              CompletedGivesBack
<1>5. CASE found # NoIntent
  <2>1. /\ lock' = [lock EXCEPT ![found] = "released"]
        /\ mActiveWakeLocks' = [mActiveWakeLocks EXCEPT ![wakeId[e]] = NoIntent]
        /\ found \in Intents /\ wakeId[found] = wakeId[e] /\ stage[found] = "returned"
    BY <1>1, <1>3, <1>5
       DEF IInv, TypeOK, completeWakefulIntent, ReleaseStored, StoredUnderItsNumber
  <2>2. \A f \in Intents : ~Reused(f) /\ f # e => f # found /\ wakeId[f] # wakeId[e]
    BY <1>3, <2>1 DEF Reused
  <2>3. TypeOK' /\ MonitorHeld' /\ Numbered' /\ NotYetLocked'
    BY <1>1, <2>1 DEF IInv, TypeOK, MonitorHeld, Numbered, NotYetLocked
  <2>4. StoredUnderItsNumber' /\ CompletedReturned'
    BY <1>1, <2>1 DEF IInv, TypeOK, StoredUnderItsNumber, CompletedReturned
  <2>5. LockStaysUntilCompleted'
    BY <1>1, <1>2, <2>1, <2>2, NoIntentAssumption
       DEF IInv, TypeOK, Numbered, LockStaysUntilCompleted, Ids
  <2>6. CompletedGivesBack'
    <3>1. ~Reused(e) => found = e
      BY <1>3, <2>1 DEF Reused
    <3> QED BY <1>1, <1>2, <2>1, <2>2, <3>1, NoIntentAssumption
            DEF IInv, TypeOK, Numbered, CompletedReturned, CompletedGivesBack, Ids
  <2> QED BY <2>3, <2>4, <2>5, <2>6 DEF IInv
<1> QED BY <1>4, <1>5

\* All steps together.
LEMMA IInvStep ==
  ASSUME IInv, [Next]_vars
  PROVE  IInv'
<1> USE DEF IInv, TypeOK, MonitorHeld, Numbered, NotYetLocked,
            StoredUnderItsNumber, CompletedReturned, LockStaysUntilCompleted,
            CompletedGivesBack, Reused
<1>1. CASE UNCHANGED vars
  BY <1>1 DEF vars
<1>2. ASSUME NEW e \in Intents, StartService(e)
      PROVE  IInv'
  BY <1>2 DEF StartService
<1>3. ASSUME NEW e \in Intents, StartRefused(e)
      PROVE  IInv'
  BY <1>3, NoIntentAssumption DEF StartRefused
<1>4. ASSUME NEW e \in Intents, LockTimeout(e)
      PROVE  IInv'
  BY <1>4 DEF LockTimeout
<1> HIDE DEF IInv
<1> QED BY <1>1, <1>2, <1>3, <1>4, EnterStep, AcquireLockStep, CompleteStep
        DEF Next, startWakefulService

\* The invariant of the locks, which the theorems below read off.
LEMMA IInvariant == Spec => []IInv
BY IInvInit, IInvStep, PTL DEF Spec

\* Every variable keeps its type, the counter that wraps included.
THEOREM TypeCorrect == Spec => []TypeOK
<1>1. IInv => TypeOK
  BY DEF IInv
<1> QED BY <1>1, IInvariant, PTL

\* No lock is given back before its own intent has been handled, unless its
\* number has been given twice.
THEOREM LockStaysHolds == Spec => []LockStaysUntilCompleted
<1>1. IInv => LockStaysUntilCompleted
  BY DEF IInv
<1> QED BY <1>1, IInvariant, PTL

\* A handled intent's lock is always given back and forgotten, however early
\* the worker was done, unless its number has been given twice.
THEOREM GivesBackHolds == Spec => []CompletedGivesBack
<1>1. IInv => CompletedGivesBack
  BY DEF IInv
<1> QED BY <1>1, IInvariant, PTL

\* No intent is ever numbered 0 or below.
THEOREM UsableNumberHolds == Spec => []UsableNumber
<1>1. IInv => UsableNumber
  BY DEF IInv, UsableNumber, Numbered, TypeOK
<1> QED BY <1>1, IInvariant, PTL

=============================================================================
