------------------------ MODULE EventDelivery_proofs ------------------------
(* Theorems about EventDelivery, for any sets of intents and refreshes and *)
(* any int.                                                                *)
EXTENDS EventDelivery, TLAPS

WLP == INSTANCE WakeLockManager_proofs

Typed ==
  /\ at \in [Threads -> PW!Places]
  /\ stage \in [Intents -> {"new", "entered", "started", "refused", "returned"}]
  /\ service \in [Workers -> {"none", "dropped", "joining", "acting", "done"}]
  /\ isPythonInitialized \in BOOLEAN /\ creation \in {"running", "ending", "ended"}

\* Only the creation thread embeds the interpreter, and it does nothing else.
CreationEmbeds ==
  /\ at[CreationThread] \in {"java", "embedding", "waiting", "left"}
  /\ \A t \in Threads : at[t] \in {"embedding", "waiting"} => t = CreationThread
  /\ at[CreationThread] # "java" => interp

\* What the flag and the thread's end say of main().
FlagIsRight ==
  /\ creation # "running" => at[CreationThread] = "left"
  /\ isPythonInitialized => creation # "running" /\ CreationThread \notin raised

\* Only an initialised service makes workers.
WorkersCameLater ==
  \A e \in Workers : service[e] \in {"joining", "acting", "done"} => isPythonInitialized

\* What a worker has come to, its intent's wake lock has come to.
ServedWereDelivered ==
  \A e \in Intents :
    /\ service[e] # "none" => stage[e] \in {"started", "returned"}
    /\ e \in completed <=> service[e] = "done"

\* A worker is in Python between its join and its completion, never elsewhere.
InPythonActing == \A e \in Workers : at[e] \in Inside => service[e] = "acting"

IInv ==
  /\ Typed /\ CreationEmbeds /\ FlagIsRight /\ WorkersCameLater
  /\ PythonReady /\ ServedWereDelivered /\ InPythonActing

\* At the start nothing is delivered and Python is not embedded.
LEMMA InitIInv == Init => IInv
<1> SUFFICES ASSUME Init PROVE IInv
  OBVIOUS
<1> USE ApartAssumption DEF Init, WLM!Init, PW!Init, Threads, Workers
<1>1. Typed
  BY DEF Typed, PW!Places
<1>2. CreationEmbeds /\ FlagIsRight /\ WorkersCameLater
  BY DEF CreationEmbeds, FlagIsRight, WorkersCameLater
<1>3. PythonReady /\ ServedWereDelivered /\ InPythonActing
  BY DEF PythonReady, Inside, ServedWereDelivered, InPythonActing
<1> QED BY <1>1, <1>2, <1>3 DEF IInv

-----------------------------------------------------------------------------
(* One lemma for each of the two halves of the invariant: threads and      *)
(* Python, intents and wake locks.                                         *)

PythonSide == CreationEmbeds /\ FlagIsRight /\ WorkersCameLater /\ PythonReady

\* Sending an intent and losing its lock leave Python alone.
LEMMA WakeLockStep ==
  ASSUME IInv, NEW e \in Intents, startWakefulService(e) \/ LockTimeout(e)
  PROVE  IInv'
<1>1. UNCHANGED <<python, java>>
  BY DEF startWakefulService, onReceive, onMessageReceived, LockTimeout
<1>2. /\ stage' \in [Intents -> {"new", "entered", "started", "refused", "returned"}]
      /\ \A f \in Intents : stage[f] \in {"started", "returned"}
                              => stage'[f] \in {"started", "returned"}
      /\ completed' = completed
  <2>1. CASE LockTimeout(e)
    BY <2>1 DEF LockTimeout, WLM!LockTimeout, IInv, Typed
  <2>2. CASE startWakefulService(e)
    BY <2>2 DEF startWakefulService, onReceive, onMessageReceived, WLM!startWakefulService,
       WLM!Enter, WLM!StartService, WLM!StartRefused, WLM!AcquireLock, IInv, Typed
  <2> QED BY <2>1, <2>2
<1>3. Typed' /\ PythonSide'
  BY <1>1, <1>2 DEF python, java, IInv, PythonSide, Typed, CreationEmbeds, FlagIsRight,
     WorkersCameLater, PythonReady, Inside
<1>4. ServedWereDelivered' /\ InPythonActing'
  BY <1>1, <1>2 DEF python, java, IInv, ServedWereDelivered, InPythonActing
<1> QED BY <1>3, <1>4 DEF IInv, PythonSide

\* The creation thread sets the flag after main() has returned without an error.
LEMMA CreationStep ==
  ASSUME IInv, initializePython \/ mainEnds \/ setInitialized \/ creationEnds
  PROVE  IInv'
<1> USE ApartAssumption DEF IInv, Threads, Workers, CreationEmbeds, FlagIsRight,
        WorkersCameLater, PythonReady, Inside
<1>0. CreationThread \in Threads
  OBVIOUS
<1>1. CASE initializePython
  <2>1. /\ at' = [at EXCEPT ![CreationThread] = "embedding"] /\ at[CreationThread] = "java"
        /\ interp' = TRUE /\ raised' = raised
        /\ UNCHANGED <<wakeLocks, java>>
    BY <1>1 DEF initializePython, PW!initializePython, PW!Move
  <2>2. Typed'
    BY <2>1 DEF Typed, PW!Places, wakeLocks, java
  <2>3. PythonSide'
    BY <1>0, <2>1 DEF Typed, PythonSide, java
  <2>4. ServedWereDelivered' /\ InPythonActing'
    BY <1>0, <2>1 DEF Typed, ServedWereDelivered, InPythonActing, wakeLocks, java
  <2> QED BY <2>2, <2>3, <2>4 DEF PythonSide
<1>2. CASE mainEnds
  <2>1. /\ at' = [at EXCEPT ![CreationThread] = "left"] /\ at[CreationThread] = "embedding"
        /\ raised' \subseteq raised \cup {CreationThread} /\ interp' = interp
        /\ UNCHANGED <<wakeLocks, java>>
    BY <1>2 DEF mainEnds, PW!MainEnds, PW!MainReturns, PW!MainRaises, PW!Move
  <2>2. Typed'
    BY <2>1 DEF Typed, PW!Places, wakeLocks, java
  <2>3. PythonSide'
    BY <1>0, <2>1 DEF Typed, PythonSide, java
  <2>4. ServedWereDelivered' /\ InPythonActing'
    BY <1>0, <2>1 DEF Typed, ServedWereDelivered, InPythonActing, wakeLocks, java
  <2> QED BY <2>2, <2>3, <2>4 DEF PythonSide
<1>3. CASE setInitialized
  <2>1. /\ creation = "running" /\ at[CreationThread] = "left" /\ creation' = "ending"
        /\ isPythonInitialized' = (CreationThread \notin raised)
        /\ UNCHANGED <<wakeLocks, python, service>>
    BY <1>3 DEF setInitialized
  <2>2. Typed'
    BY <2>1 DEF Typed, wakeLocks, python
  <2>3. PythonSide'
    BY <2>1 DEF Typed, PythonSide, python
  <2>4. ServedWereDelivered' /\ InPythonActing'
    BY <2>1 DEF ServedWereDelivered, InPythonActing, wakeLocks, python
  <2> QED BY <2>2, <2>3, <2>4 DEF PythonSide
<1>4. CASE creationEnds
  <2>1. /\ creation = "ending" /\ creation' = "ended"
        /\ UNCHANGED <<wakeLocks, python, isPythonInitialized, service>>
    BY <1>4 DEF creationEnds
  <2>2. Typed' /\ PythonSide'
    BY <2>1 DEF Typed, PythonSide, python, wakeLocks
  <2>3. ServedWereDelivered' /\ InPythonActing'
    BY <2>1 DEF ServedWereDelivered, InPythonActing, wakeLocks, python
  <2> QED BY <2>2, <2>3 DEF PythonSide
<1> QED BY <1>1, <1>2, <1>3, <1>4

\* A thread of an event or a refresh enters Python, or moves on in it.
LEMMA EnterStep ==
  ASSUME IInv, NEW t \in Workers \cup Refreshes, PW!Ensure(t), isPythonInitialized,
         t \in Workers => creation = "ended",
         UNCHANGED <<isPythonInitialized, creation>>
  PROVE  /\ at' \in [Threads -> PW!Places]
         /\ CreationEmbeds' /\ FlagIsRight' /\ PythonReady'
<1>1. /\ at' = [at EXCEPT ![t] = "ensuring"] /\ raised' = raised /\ interp' = interp
      /\ t \in Threads /\ t # CreationThread
  BY ApartAssumption DEF PW!Ensure, PW!Move, Threads
<1>2. at' \in [Threads -> PW!Places]
  BY <1>1 DEF IInv, Typed, PW!Places
<1> QED BY <1>1, <1>2 DEF IInv, Typed, CreationEmbeds, FlagIsRight, PythonReady, Inside, Threads

\* Who is in Python keeps what it came with; raising does not undo main().
LEMMA PythonStep ==
  ASSUME IInv, NEW t \in Threads, InPython(t)
  PROVE  IInv'
<1>1. /\ at[t] \in Inside \cup {"embedding", "waiting"} /\ interp' = interp
      /\ raised' \subseteq raised \cup {t} /\ (at[t] \notin Inside => raised' = raised)
      /\ \E place \in PW!Places :
           /\ at' = [at EXCEPT ![t] = place]
           /\ IF at[t] \in Inside THEN place \in Inside \cup {"left"}
                                 ELSE place \in {"embedding", "waiting"}
      /\ UNCHANGED <<wakeLocks, java>>
  BY DEF InPython, PW!GilAcquired, PW!Yield, PW!ActionEnds, PW!ActionReturns,
     PW!ActionRaises, PW!Move, PW!Places, Inside
<1>2. at[t] \in Inside <=> t # CreationThread
  BY <1>1, ApartAssumption DEF IInv, CreationEmbeds, Inside, Threads
<1>3. Typed'
  BY <1>1 DEF IInv, Typed, PW!Places, wakeLocks, java
<1>4. CreationEmbeds' /\ FlagIsRight'
  BY <1>1, <1>2, ApartAssumption
  DEF IInv, Typed, CreationEmbeds, FlagIsRight, java, Threads, Inside
<1>5. PythonReady'
  BY <1>1, <1>2 DEF IInv, Typed, CreationEmbeds, PythonReady, Inside, java
<1>6. WorkersCameLater' /\ ServedWereDelivered' /\ InPythonActing'
  BY <1>1 DEF IInv, Typed, WorkersCameLater, ServedWereDelivered, InPythonActing, Inside,
     wakeLocks, java
<1> QED BY <1>3, <1>4, <1>5, <1>6 DEF IInv

\* A worker is made of a delivered intent by a flagged service, and completes
\* the intent after Python is done with it.
LEMMA WorkerStep ==
  ASSUME IInv, NEW e \in Workers, onStartCommand(e) \/ join(e) \/ complete(e)
  PROVE  IInv'
<1> USE DEF IInv, Workers
<1>1. CASE onStartCommand(e)
  <2>1. Typed'
    BY <1>1 DEF onStartCommand, Typed, wakeLocks, python
  <2>2. PythonSide'
    BY <1>1 DEF onStartCommand, PythonSide, CreationEmbeds, FlagIsRight, WorkersCameLater,
       PythonReady, Inside, Typed, python
  <2>3. ServedWereDelivered' /\ InPythonActing'
    BY <1>1, ApartAssumption DEF onStartCommand, Pending, Arrived, ServedWereDelivered,
       InPythonActing, Typed, wakeLocks, python
  <2> QED BY <2>1, <2>2, <2>3 DEF PythonSide
<1>2. CASE join(e)
  <2>1. /\ service[e] = "joining" /\ service' = [service EXCEPT ![e] = "acting"]
        /\ creation = "ended"
        /\ PW!Ensure(e) /\ UNCHANGED <<wakeLocks, isPythonInitialized, creation>>
    BY <1>2 DEF join
  <2>2. isPythonInitialized
    BY <2>1 DEF WorkersCameLater
  <2>3. /\ at' \in [Threads -> PW!Places]
        /\ CreationEmbeds' /\ FlagIsRight' /\ PythonReady'
    BY <2>1, <2>2, EnterStep
  <2>4. Typed'
    BY <2>1, <2>3 DEF Typed, wakeLocks
  <2>5. WorkersCameLater'
    BY <2>1, <2>2 DEF WorkersCameLater
  <2>6. ServedWereDelivered' /\ InPythonActing'
    BY <2>1 DEF ServedWereDelivered, InPythonActing, PW!Ensure, PW!Move, Typed, Threads,
       wakeLocks
  <2> QED BY <2>3, <2>4, <2>5, <2>6
<1>3. CASE complete(e)
  <2>1. /\ service[e] = "acting" /\ at[e] = "left" /\ service' = [service EXCEPT ![e] = "done"]
        /\ completed' = IF e \in PlainIntents THEN completed ELSE completed \cup {e}
        /\ stage' = stage /\ UNCHANGED <<python, isPythonInitialized, creation>>
    BY <1>3 DEF complete, GiveBack, wakeLocks
  <2>2. Typed'
    BY <2>1 DEF Typed, python
  <2>3. PythonSide'
    BY <2>1 DEF PythonSide, CreationEmbeds, FlagIsRight, WorkersCameLater, PythonReady,
       Inside, Typed, python
  <2>4. ServedWereDelivered' /\ InPythonActing'
    BY <2>1, ApartAssumption DEF ServedWereDelivered, InPythonActing, Inside, Typed, python
  <2> QED BY <2>2, <2>3, <2>4 DEF PythonSide
<1> QED BY <1>1, <1>2, <1>3

\* A refresh comes to Python as a worker does, without an intent.
LEMMA RefreshStep ==
  ASSUME IInv, NEW r \in Refreshes, forceTasksRefresh(r)
  PROVE  IInv'
<1>1. /\ at' \in [Threads -> PW!Places]
      /\ CreationEmbeds' /\ FlagIsRight' /\ PythonReady'
  BY EnterStep, ApartAssumption DEF forceTasksRefresh, java
<1>2. Typed' /\ WorkersCameLater' /\ ServedWereDelivered'
  BY <1>1 DEF forceTasksRefresh, IInv, Typed, WorkersCameLater, ServedWereDelivered,
     wakeLocks, java
<1>3. InPythonActing'
  BY ApartAssumption DEF forceTasksRefresh, PW!Ensure, PW!Move, IInv, Typed, Threads,
     InPythonActing, java
<1> QED BY <1>1, <1>2, <1>3 DEF IInv

\* Steps of others.
LEMMA StutterStep == ASSUME IInv, UNCHANGED vars PROVE IInv'
BY DEF IInv, Typed, CreationEmbeds, FlagIsRight, WorkersCameLater, PythonReady, Inside,
   ServedWereDelivered, InPythonActing, vars, wakeLocks, python, java

\* The invariant of the delivery, which the theorems below read off.
THEOREM IInvHolds == Spec => []IInv
<1>1. IInv /\ [Next]_vars => IInv'
  BY WakeLockStep, CreationStep, PythonStep, WorkerStep, RefreshStep, StutterStep DEF Next
<1> QED BY <1>1, InitIInv, PTL DEF Spec

-----------------------------------------------------------------------------
\* No event and no refresh is in Python before main() has returned, nor after
\* it failed (EPCService.java:211, :385); a worker waits for the thread (:231).
THEOREM PythonReadyHolds == Spec => []PythonReady
<1>1. IInv => PythonReady
  BY DEF IInv
<1> QED BY <1>1, IInvHolds, PTL

\* EventDelivery implements PythonWrapper: whoever calls onAction finds the
\* interpreter there.
THEOREM UsesPythonHolds == Spec => UsesPython
<1>1. Init => PW!Init
  BY DEF Init
<1>2. IInv /\ [Next]_vars => [PW!Next]_(PW!vars)
  <2> SUFFICES ASSUME IInv, [Next]_vars PROVE PW!Next \/ UNCHANGED PW!vars
    OBVIOUS
  <2> USE DEF PW!vars, PW!Next, Threads
  <2>1. isPythonInitialized => interp
    BY DEF IInv, FlagIsRight, CreationEmbeds
  <2>2. CASE initializePython \/ mainEnds \/ setInitialized \/ creationEnds
    BY <2>2 DEF initializePython, mainEnds, setInitialized, creationEnds, python
  <2>3. ASSUME NEW e \in Intents, startWakefulService(e) \/ LockTimeout(e)
        PROVE UNCHANGED PW!vars
    BY <2>3 DEF startWakefulService, onReceive, onMessageReceived, LockTimeout, python
  <2>4. ASSUME NEW e \in Workers, onStartCommand(e) \/ complete(e)
        PROVE UNCHANGED PW!vars
    BY <2>4 DEF onStartCommand, complete, python
  <2>5. ASSUME NEW e \in Workers, join(e) PROVE PW!Next
    BY <2>1, <2>5 DEF join, PW!onAction, IInv, WorkersCameLater
  <2>6. ASSUME NEW r \in Refreshes, forceTasksRefresh(r) PROVE PW!Next
    BY <2>1, <2>6 DEF forceTasksRefresh, PW!onAction
  <2>7. ASSUME NEW t \in Threads, InPython(t) PROVE PW!Next
    BY <2>7 DEF InPython
  <2>8. CASE UNCHANGED vars
    BY <2>8 DEF vars, python
  <2> QED BY <2>2, <2>3, <2>4, <2>5, <2>6, <2>7, <2>8 DEF Next
<1> QED BY <1>1, <1>2, IInvHolds, PTL DEF Spec, UsesPython, PW!Spec

\* EventDelivery implements WakeLockManager: a worker completes an intent that
\* was delivered, and once.
THEOREM UsesWakeLocksHolds == Spec => UsesWakeLocks
<1>1. Init => WLM!Init
  BY DEF Init
<1>2. IInv /\ [Next]_vars => [WLM!Next]_(WLM!vars)
  <2> SUFFICES ASSUME IInv, [Next]_vars PROVE WLM!Next \/ UNCHANGED WLM!vars
    OBVIOUS
  <2> USE DEF WLM!vars, WLM!Next
  <2>1. CASE initializePython \/ mainEnds \/ setInitialized \/ creationEnds
    BY <2>1 DEF initializePython, mainEnds, setInitialized, creationEnds, wakeLocks
  <2>2. ASSUME NEW e \in Intents, startWakefulService(e) \/ LockTimeout(e) PROVE WLM!Next
    BY <2>2 DEF startWakefulService, onReceive, onMessageReceived, LockTimeout
  <2>3. ASSUME NEW e \in Workers, onStartCommand(e) \/ join(e) PROVE UNCHANGED WLM!vars
    BY <2>3 DEF onStartCommand, join, wakeLocks
  <2>4. ASSUME NEW e \in Workers, complete(e) PROVE WLM!Next \/ UNCHANGED WLM!vars
    <3>1. CASE e \in PlainIntents
      BY <2>4, <3>1 DEF complete, wakeLocks
    <3>2. CASE e \in Intents
      <4>1. WLM!Delivered(e) /\ e \notin completed
        BY <2>4, <3>2 DEF complete, IInv, ServedWereDelivered, WLM!Delivered
      <4>2. GiveBack(e)
        BY <2>4, <3>2, ApartAssumption DEF complete
      <4> QED BY <3>2, <4>1, <4>2 DEF GiveBack, WLM!completeWakefulIntent
    <3> QED BY <3>1, <3>2 DEF Workers
  <2>5. ASSUME NEW r \in Refreshes, forceTasksRefresh(r) PROVE UNCHANGED WLM!vars
    BY <2>5 DEF forceTasksRefresh, wakeLocks
  <2>6. ASSUME NEW t \in Threads, InPython(t) PROVE UNCHANGED WLM!vars
    BY <2>6 DEF InPython, wakeLocks
  <2>7. CASE UNCHANGED vars
    BY <2>7 DEF vars, wakeLocks
  <2> QED BY <2>1, <2>2, <2>3, <2>4, <2>5, <2>6, <2>7 DEF Next
<1> QED BY <1>1, <1>2, IInvHolds, PTL DEF Spec, UsesWakeLocks, WLM!Spec

-----------------------------------------------------------------------------
(* What WakeLockManager promises its callers, it promises the service.     *)

\* What WakeLockManager_proofs finds of its own behaviours holds of these: its
\* invariant is one of the service.
LEMMA LocksInvariant == Spec => []WLP!IInv
<1>1. WLM!Init => WLP!Init
  BY DEF WLM!Init, WLP!Init, WLM!Ids, WLP!Ids
<1>2. [WLM!Next]_(WLM!vars) => [WLP!Next]_(WLP!vars)
  BY DEF WLM!Next, WLP!Next, WLM!vars, WLP!vars,
     WLM!startWakefulService, WLP!startWakefulService, WLM!LockTimeout, WLP!LockTimeout,
     WLM!completeWakefulIntent, WLP!completeWakefulIntent,
     WLM!Enter, WLP!Enter, WLM!NextId, WLP!NextId, WLM!Incremented, WLP!Incremented,
     WLM!StartService, WLP!StartService, WLM!StartRefused, WLP!StartRefused,
     WLM!AcquireLock, WLP!AcquireLock, WLM!Delivered, WLP!Delivered,
     WLM!ReleaseStored, WLP!ReleaseStored
<1>3. WLP!Spec => []WLP!IInv
  BY MaxIntAssumption, NoIntentAssumption, WLP!IInvariant
<1> QED BY <1>1, <1>2, <1>3, UsesWakeLocksHolds, PTL
        DEF UsesWakeLocks, WLM!Spec, WLP!Spec

\* Python never handles an event on a device that may sleep: from join to
\* completeWakefulIntent the event's wake lock is held, or has run out of its
\* sixty seconds (EPCService.java:231, :237).
THEOREM AwakeInPythonHolds == Spec => []AwakeInPython
<1>1. IInv /\ WLP!IInv => AwakeInPython
  <2> SUFFICES ASSUME IInv, WLP!IInv, NEW e \in Intents,
                      at[e] \in Inside, ~WLM!Reused(e), stage[e] # "started"
               PROVE  lock[e] \in {"held", "expired"}
    BY DEF AwakeInPython
  <2>1. service[e] = "acting"
    BY DEF IInv, InPythonActing, Workers
  <2>2. stage[e] = "returned" /\ e \notin completed
    BY <2>1 DEF IInv, ServedWereDelivered
  <2>3. WLP!LockStaysUntilCompleted
    BY DEF WLP!IInv
  <2> QED BY <2>2, <2>3 DEF WLP!LockStaysUntilCompleted, WLM!Reused, WLP!Reused
<1> QED BY <1>1, IInvHolds, LocksInvariant, PTL

\* The entries of mActiveWakeLocks are those of the intents no worker has
\* completed, the dropped ones among them (EPCService.java:211, :237).
THEOREM EntryUntilServedHolds == Spec => []EntryUntilServed
<1>1. IInv /\ WLP!IInv => EntryUntilServed
  <2> SUFFICES ASSUME IInv, WLP!IInv, NEW e \in Intents, ~WLM!Reused(e)
               PROVE  (\E id \in WLM!Ids : mActiveWakeLocks[id] = e)
                        <=> stage[e] = "returned" /\ service[e] # "done"
    BY DEF EntryUntilServed
  <2>1. ~WLP!Reused(e)
    BY DEF WLM!Reused, WLP!Reused
  <2>2. e \in completed <=> service[e] = "done"
    BY DEF IInv, ServedWereDelivered
  <2>3. ASSUME NEW id \in WLM!Ids, mActiveWakeLocks[id] = e
        PROVE  stage[e] = "returned" /\ service[e] # "done"
    <3>1. wakeId[e] = id /\ stage[e] = "returned"
      BY <2>3, NoIntentAssumption DEF WLP!IInv, WLP!StoredUnderItsNumber, WLM!Ids, WLP!Ids
    <3>2. e \notin completed
      BY <2>1, <2>3, <3>1 DEF WLP!IInv, WLP!CompletedGivesBack
    <3> QED BY <2>2, <3>1, <3>2
  <2>4. ASSUME stage[e] = "returned", service[e] # "done"
        PROVE  \E id \in WLM!Ids : mActiveWakeLocks[id] = e
    <3>1. mActiveWakeLocks[wakeId[e]] = e
      BY <2>1, <2>2, <2>4 DEF WLP!IInv, WLP!LockStaysUntilCompleted
    <3>2. wakeId[e] \in WLM!Ids
      BY <2>4 DEF WLP!IInv, WLP!TypeOK, WLP!Numbered, WLM!Ids, WLP!Ids
    <3> QED BY <3>1, <3>2
  <2> QED BY <2>3, <2>4
<1> QED BY <1>1, IInvHolds, LocksInvariant, PTL

=============================================================================
