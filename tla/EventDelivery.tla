---------------------------- MODULE EventDelivery ----------------------------
(***************************************************************************)
(* From an event to Python: the receivers of broadcasts, jobs and messages *)
(* start EPCService through WakeLockManager, onStartCommand drops the      *)
(* intent or starts a worker, and the worker waits for the creation        *)
(* thread, calls onAction and gives the wake lock back.  The activity      *)
(* starts the service without a wake lock, and the debug screen makes it   *)
(* refresh its tasks.  Two components meet here: WakeLockManager and       *)
(* PythonWrapper, whose actions the threads of the service take.           *)
(***************************************************************************)
EXTENDS Integers, FiniteSets

CONSTANTS
  Intents, MaxInt, NoIntent,  \* as in WakeLockManager
  MainIntents,   \* the intents started on the main thread
  PlainIntents,  \* MainActivity.onResume's, without a wake lock
  Refreshes,     \* presses of the debug screen's button
  CreationThread, NoThread

Workers == Intents \cup PlainIntents
Threads == Workers \cup Refreshes \cup {CreationThread}

ASSUME MaxIntAssumption   == MaxInt \in Nat \ {0}
ASSUME NoIntentAssumption == NoIntent \notin Intents
ASSUME MainAssumption  == MainIntents \subseteq Intents
ASSUME ApartAssumption ==
  /\ Intents \cap PlainIntents = {} /\ Workers \cap Refreshes = {}
  /\ CreationThread \notin Workers \cup Refreshes
  /\ NoThread \notin Threads

VARIABLES
  monitor, mNextId, mActiveWakeLocks, wakeId, stage, lock, completed,
  interp, gil, at, raised,
  isPythonInitialized,
  creation,  \* EPCService.creationThread: "running" until initializePython's
             \* result has been looked at, then "ending", then "ended"
  service    \* what onStartCommand made of an intent

wakeLocks == <<monitor, mNextId, mActiveWakeLocks, wakeId, stage, lock, completed>>
python    == <<interp, gil, at, raised>>
java      == <<isPythonInitialized, creation, service>>
vars      == <<wakeLocks, python, java>>

WLM == INSTANCE WakeLockManager
PW  == INSTANCE PythonWrapper

TypeOK ==
  /\ WLM!TypeOK /\ PW!TypeOK
  /\ isPythonInitialized \in BOOLEAN
  /\ creation \in {"running", "ending", "ended"}
  /\ service \in [Workers -> {"none", "dropped", "joining", "acting", "done"}]

\* initPython has been called.
Init ==
  /\ WLM!Init /\ PW!Init
  /\ isPythonInitialized = FALSE /\ creation = "running"
  /\ service = [e \in Workers |-> "none"]

-----------------------------------------------------------------------------
(* The creation thread.                                                    *)

initializePython ==
  PW!initializePython(CreationThread) /\ UNCHANGED <<wakeLocks, java>>

mainEnds == PW!MainEnds(CreationThread) /\ UNCHANGED <<wakeLocks, java>>

\* initializePython returned: set the flag if it returned true.  From here on
\* intents are taken and refreshes enter Python; workers wait for the thread.
setInitialized ==
  /\ creation = "running" /\ at[CreationThread] = "left"
  /\ isPythonInitialized' = (CreationThread \notin raised)
  /\ creation' = "ending"
  /\ UNCHANGED <<wakeLocks, python, service>>

creationEnds ==
  /\ creation = "ending" /\ creation' = "ended"
  /\ UNCHANGED <<wakeLocks, python, isPythonInitialized, service>>

-----------------------------------------------------------------------------
(* Events.                                                                 *)

\* A broadcast or a job calls startWakefulService on the main thread ...
onReceive(e) ==
  /\ e \in MainIntents
  /\ WLM!startWakefulService(e)
  /\ UNCHANGED <<python, java>>

\* ... a message or a new token on a thread of its own.
onMessageReceived(e) ==
  /\ e \notin MainIntents
  /\ WLM!startWakefulService(e)
  /\ UNCHANGED <<python, java>>

startWakefulService(e) == onReceive(e) \/ onMessageReceived(e)

LockTimeout(e) == WLM!LockTimeout(e) /\ UNCHANGED <<python, java>>

\* The main thread is not inside startWakefulService.
MainThreadFree == monitor \notin MainIntents

Arrived == PlainIntents \cup {e \in Intents : stage[e] \in {"started", "returned"}}

Pending(e) == e \in Arrived /\ service[e] = "none"

\* onStartCommand, on the main thread: without Python the intent is dropped,
\* and its wake lock with it; otherwise a worker is started.
onStartCommand(e) ==
  /\ MainThreadFree /\ Pending(e)
  /\ service' = [service EXCEPT ![e] =
                   IF isPythonInitialized THEN "joining" ELSE "dropped"]
  /\ UNCHANGED <<wakeLocks, python, isPythonInitialized, creation>>

\* The worker: creationThread.join() and into onAction ...
join(e) ==
  /\ service[e] = "joining" /\ creation = "ended"
  /\ service' = [service EXCEPT ![e] = "acting"]
  /\ PW!Ensure(e)
  /\ UNCHANGED <<wakeLocks, isPythonInitialized, creation>>

GiveBack_NotSynchronized(e) ==
  /\ completed' = completed \cup {e}
  /\ WLM!ReleaseStored(e)
  /\ UNCHANGED <<monitor, mNextId, wakeId, stage>>

GiveBack(e) ==
  /\ monitor = NoIntent
  /\ completed' = completed \cup {e}
  /\ WLM!ReleaseStored(e)
  /\ UNCHANGED <<monitor, mNextId, wakeId, stage>>

\* ... and, onAction having returned on whichever path, completeWakefulIntent,
\* which ignores an intent without a number.
complete_BeforeAction(e) ==
  /\ service[e] = "acting"
  /\ service' = [service EXCEPT ![e] = "done"]
  /\ IF e \in PlainIntents THEN UNCHANGED wakeLocks ELSE GiveBack(e)
  /\ UNCHANGED <<python, isPythonInitialized, creation>>

complete(e) ==
  /\ service[e] = "acting" /\ at[e] = "left"
  /\ service' = [service EXCEPT ![e] = "done"]
  /\ IF e \in PlainIntents THEN UNCHANGED wakeLocks ELSE GiveBack(e)
  /\ UNCHANGED <<python, isPythonInitialized, creation>>

\* forceTasksRefresh: a thread that neither joins nor has a wake lock.
forceTasksRefresh_Unchecked(r) ==
  /\ PW!Ensure(r)
  /\ UNCHANGED <<wakeLocks, java>>

forceTasksRefresh(r) ==
  /\ isPythonInitialized
  /\ PW!Ensure(r)
  /\ UNCHANGED <<wakeLocks, java>>

\* A step of a thread inside onAction; the creation thread's in main() are
\* its waits.
InPython(t) ==
  /\ PW!GilAcquired(t) \/ PW!Yield(t) \/ PW!ActionEnds(t)
  /\ UNCHANGED <<wakeLocks, java>>

Next ==
  \/ initializePython \/ mainEnds \/ setInitialized \/ creationEnds
  \/ \E e \in Intents : startWakefulService(e) \/ LockTimeout(e)
  \/ \E e \in Workers : onStartCommand(e) \/ join(e) \/ complete(e)
  \/ \E r \in Refreshes : forceTasksRefresh(r)
  \/ \E t \in Threads : InPython(t)

Spec == Init /\ [][Next]_vars

\* Threads run, main() and on_action end, the GIL goes round.  Events need not
\* happen.
Fairness ==
  /\ WF_vars(initializePython) /\ SF_vars(mainEnds)
  /\ WF_vars(setInitialized) /\ WF_vars(creationEnds)
  /\ \A e \in Intents :
       /\ WF_vars(stage[e] # "new" /\ startWakefulService(e))
       /\ WF_vars(LockTimeout(e))
  /\ \A e \in Workers :
       WF_vars(onStartCommand(e)) /\ WF_vars(join(e)) /\ WF_vars(complete(e))
  /\ \A t \in Threads : SF_vars(PW!GilAcquired(t) /\ UNCHANGED <<wakeLocks, java>>)
  /\ \A t \in Workers \cup Refreshes :
       SF_vars(PW!ActionEnds(t) /\ UNCHANGED <<wakeLocks, java>>)

FairSpec == Spec /\ Fairness

-----------------------------------------------------------------------------
(* Properties.                                                             *)

\* The service keeps to WakeLockManager's protocol: an intent is completed
\* after it was delivered, and once.
UsesWakeLocks == WLM!Spec

\* The service keeps to PythonWrapper's protocol: nobody calls onAction before
\* the interpreter is there.
UsesPython == PW!Spec

Inside == {"ensuring", "running", "yielded"}

\* While Python handles an event its wake lock keeps the device awake, for its
\* sixty seconds; only a call still inside startWakefulService has none yet,
\* and a number that has come round may have lost its own to another's worker.
AwakeInPython ==
  \A e \in Intents :
    at[e] \in Inside /\ ~WLM!Reused(e)
      => lock[e] \in {"held", "expired"} \/ stage[e] = "started"

\* No thread is let into Python while main() still sets the service up, though
\* main() may have let go of the GIL, nor after main() failed; and a worker not
\* before the creation thread has ended.
PythonReady ==
  \A t \in Threads : at[t] \in Inside =>
    /\ isPythonInitialized /\ at[CreationThread] = "left" /\ CreationThread \notin raised
    /\ t \in Workers => creation = "ended"

\* What is left in mActiveWakeLocks is the locks of the intents no worker has
\* completed: an intent whose worker is done is forgotten, however the two
\* calls overlapped, and one that was dropped, or whose worker waits for a
\* leaked GIL, stays with its lock until its number comes round.
EntryUntilServed ==
  \A e \in Intents : ~WLM!Reused(e) =>
    ( (\E id \in WLM!Ids : mActiveWakeLocks[id] = e)
        <=> stage[e] = "returned" /\ service[e] # "done" )

\* An event delivered once Python runs is handled and its lock given back,
\* unless an exception leaked the GIL.
EventsHandled ==
  \A e \in Workers :
    isPythonInitialized /\ Pending(e) ~> service[e] = "done" \/ raised # {}

=============================================================================
