--------------------------- MODULE WakeLockManager ---------------------------
(***************************************************************************)
(* WakeLockManager.java: an event receiver starts the service with an      *)
(* intent that carries the number of a wake lock, and the worker that has  *)
(* handled the intent gives the lock back.  startWakefulService and        *)
(* completeWakefulIntent run on any threads; both synchronise on           *)
(* mActiveWakeLocks.  The service has the intent, and may be done with it, *)
(* before startWakefulService has stored the lock.                         *)
(***************************************************************************)
EXTENDS Integers, FiniteSets

CONSTANTS
  Intents,  \* one per call of startWakefulService
  MaxInt,   \* the largest int
  NoIntent  \* nobody, nothing

ASSUME MaxIntAssumption   == MaxInt \in Nat \ {0}
ASSUME NoIntentAssumption == NoIntent \notin Intents

VARIABLES
  monitor,          \* the call inside startWakefulService's critical section
  mNextId,
  mActiveWakeLocks, \* the intent whose lock is stored under an id
  wakeId,           \* an intent's EXTRA_WAKE_LOCK_ID, 0 when it has none
  stage,            \* how far startWakefulService has got
  lock,             \* the wake lock itself
  completed         \* intents given to completeWakefulIntent

vars == <<monitor, mNextId, mActiveWakeLocks, wakeId, stage, lock, completed>>

Ids == 1..MaxInt

TypeOK ==
  /\ monitor \in Intents \cup {NoIntent}
  /\ mNextId \in Ids
  /\ mActiveWakeLocks \in [Ids -> Intents \cup {NoIntent}]
  /\ wakeId \in [Intents -> Ids \cup {0}]
  /\ stage \in [Intents -> {"new", "entered", "started", "refused", "returned"}]
  /\ lock \in [Intents -> {"none", "held", "expired", "released"}]
  /\ completed \subseteq Intents

Init ==
  /\ monitor = NoIntent
  /\ mNextId = 1
  /\ mActiveWakeLocks = [id \in Ids |-> NoIntent]
  /\ wakeId = [e \in Intents |-> 0]
  /\ stage = [e \in Intents |-> "new"]
  /\ lock = [e \in Intents |-> "none"]
  /\ completed = {}

-----------------------------------------------------------------------------
\* mNextId++ in an int of the machine, then back to 1 from below it.
Incremented(id) == IF id = MaxInt THEN -MaxInt - 1 ELSE id + 1

NextId_NoReset(id) == Incremented(id)

NextId(id) == LET next == Incremented(id) IN IF next <= 0 THEN 1 ELSE next

\* startWakefulService: take the monitor, number the intent ...
Enter(e) ==
  /\ stage[e] = "new" /\ monitor = NoIntent
  /\ monitor' = e
  /\ wakeId' = [wakeId EXCEPT ![e] = mNextId]
  /\ mNextId' = NextId(mNextId)
  /\ stage' = [stage EXCEPT ![e] = "entered"]
  /\ UNCHANGED <<mActiveWakeLocks, lock, completed>>

\* ... hand it to the system, from where the service may get it at once ...
StartService(e) ==
  /\ stage[e] = "entered"
  /\ stage' = [stage EXCEPT ![e] = "started"]
  /\ UNCHANGED <<monitor, mNextId, mActiveWakeLocks, wakeId, lock, completed>>

\* ... and give up when there is no such service ...
StartRefused(e) ==
  /\ stage[e] = "entered"
  /\ stage' = [stage EXCEPT ![e] = "refused"]
  /\ monitor' = NoIntent
  /\ UNCHANGED <<mNextId, mActiveWakeLocks, wakeId, lock, completed>>

\* ... or acquire a lock for sixty seconds and store it under the number.
AcquireLock(e) ==
  /\ stage[e] = "started"
  /\ lock' = [lock EXCEPT ![e] = "held"]
  /\ mActiveWakeLocks' = [mActiveWakeLocks EXCEPT ![wakeId[e]] = e]
  /\ stage' = [stage EXCEPT ![e] = "returned"]
  /\ monitor' = NoIntent
  /\ UNCHANGED <<mNextId, wakeId, completed>>

\* External: the system ends an acquire(60*1000) when its time is up.
LockTimeout(e) ==
  /\ lock[e] = "held"
  /\ lock' = [lock EXCEPT ![e] = "expired"]
  /\ UNCHANGED <<monitor, mNextId, mActiveWakeLocks, wakeId, stage, completed>>

Delivered(e) == stage[e] \in {"started", "returned"}

\* completeWakefulIntent: release and forget what is stored under the number,
\* if anything is.
ReleaseStored_KeepsEntry(e) ==
  LET found == IF wakeId[e] = 0 THEN NoIntent ELSE mActiveWakeLocks[wakeId[e]]
  IN  /\ lock' = IF found = NoIntent THEN lock ELSE [lock EXCEPT ![found] = "released"]
      /\ UNCHANGED mActiveWakeLocks

ReleaseStored(e) ==
  LET found == IF wakeId[e] = 0 THEN NoIntent ELSE mActiveWakeLocks[wakeId[e]]
  IN  IF found = NoIntent
      THEN UNCHANGED <<mActiveWakeLocks, lock>>
      ELSE /\ lock' = [lock EXCEPT ![found] = "released"]
           /\ mActiveWakeLocks' = [mActiveWakeLocks EXCEPT ![wakeId[e]] = NoIntent]

completeWakefulIntent_NotSynchronized(e) ==
  /\ Delivered(e) /\ e \notin completed
  /\ completed' = completed \cup {e}
  /\ ReleaseStored(e)
  /\ UNCHANGED <<monitor, mNextId, wakeId, stage>>

completeWakefulIntent_NextInstead(e) ==
  /\ Delivered(e) /\ e \notin completed /\ monitor = NoIntent
  /\ completed' = completed \cup {e}
  /\ lock' = [f \in Intents |-> IF mActiveWakeLocks[mNextId] = f
                                THEN "released" ELSE lock[f]]
  /\ mActiveWakeLocks' = [mActiveWakeLocks EXCEPT ![mNextId] = NoIntent]
  /\ UNCHANGED <<monitor, mNextId, wakeId, stage>>

completeWakefulIntent(e) ==
  /\ Delivered(e) /\ e \notin completed /\ monitor = NoIntent
  /\ completed' = completed \cup {e}
  /\ ReleaseStored(e)
  /\ UNCHANGED <<monitor, mNextId, wakeId, stage>>

startWakefulService(e) ==
  Enter(e) \/ StartService(e) \/ StartRefused(e) \/ AcquireLock(e)

Next == \E e \in Intents :
          startWakefulService(e) \/ LockTimeout(e) \/ completeWakefulIntent(e)

Spec == Init /\ [][Next]_vars

-----------------------------------------------------------------------------
(* Properties.                                                             *)

\* After MaxInt calls a number comes round again.
Reused(e) == wakeId[e] # 0 /\ \E f \in Intents \ {e} : wakeId[f] = wakeId[e]

\* Until its intent has been handled nobody else gives a lock back: it is held
\* or has timed out, and completeWakefulIntent will find it.
LockStaysUntilCompleted ==
  \A e \in Intents :
    stage[e] = "returned" /\ e \notin completed /\ ~Reused(e)
      => lock[e] \in {"held", "expired"} /\ mActiveWakeLocks[wakeId[e]] = e

\* A handled intent's lock is given back and forgotten, also when the worker
\* is done before startWakefulService has stored it.
CompletedGivesBack ==
  \A e \in completed :
    ~Reused(e) => lock[e] # "held" /\ mActiveWakeLocks[wakeId[e]] # e

\* An intent never carries 0, which completeWakefulIntent takes for an intent
\* without a lock, nor a number the counter overflowed to.
UsableNumber ==
  \A e \in Intents : stage[e] # "new" => wakeId[e] \in Ids

=============================================================================
