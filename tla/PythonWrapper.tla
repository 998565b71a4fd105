---------------------------- MODULE PythonWrapper ----------------------------
(***************************************************************************)
(* PythonWrapper.cpp: how Java threads enter the embedded interpreter.     *)
(* initializePython starts it, runs the service's main() and lets go of    *)
(* the interpreter lock (the GIL); onAction takes the GIL, calls on_action *)
(* and gives the GIL back; each returns early on one path.  Python code,   *)
(* main()'s and on_action's, may drop and retake the GIL while it waits.   *)
(***************************************************************************)
CONSTANTS
  Threads,   \* Java threads, each with one call to make
  NoThread

ASSUME NoThreadAssumption == NoThread \notin Threads

VARIABLES
  interp,    \* Py_Initialize has been called
  gil,       \* the thread that holds the GIL
  at,        \* where each thread is
  raised     \* threads whose Python code ended in an exception

vars == <<interp, gil, at, raised>>

Places == {"java", "embedding", "waiting", "ensuring", "running", "yielded", "left"}

TypeOK ==
  /\ interp \in BOOLEAN
  /\ gil \in Threads \cup {NoThread}
  /\ at \in [Threads -> Places]
  /\ raised \subseteq Threads

Init ==
  /\ interp = FALSE /\ gil = NoThread
  /\ at = [t \in Threads |-> "java"] /\ raised = {}

Move(t, place) == at' = [at EXCEPT ![t] = place]

-----------------------------------------------------------------------------
\* Py_Initialize and PyEval_InitThreads: the calling thread has the GIL.
initializePython(t) ==
  /\ ~interp /\ at[t] = "java"
  /\ interp' = TRUE /\ gil' = t /\ Move(t, "embedding")
  /\ UNCHANGED raised

\* main() returned, or there is no module or no main: PyEval_SaveThread.
MainReturns_KeepsGil(t) ==
  /\ at[t] = "embedding"
  /\ Move(t, "left")
  /\ UNCHANGED <<interp, gil, raised>>

MainReturns(t) ==
  /\ at[t] = "embedding"
  /\ gil' = NoThread /\ Move(t, "left")
  /\ UNCHANGED <<interp, raised>>

\* main() raised: return 0, without PyEval_SaveThread.
MainRaises(t) ==
  /\ at[t] = "embedding"
  /\ Move(t, "left") /\ raised' = raised \cup {t}
  /\ UNCHANGED <<interp, gil>>

\* onAction: PyGILState_Ensure is called ...
Ensure_Skipped(t) ==
  /\ at[t] = "java"
  /\ Move(t, "running")
  /\ UNCHANGED <<interp, gil, raised>>

Ensure(t) ==
  /\ at[t] = "java"
  /\ Move(t, "ensuring")
  /\ UNCHANGED <<interp, gil, raised>>

onAction(t) == interp /\ Ensure(t)

\* ... and returns once the GIL is free; so does a wait inside Python code.
GilAcquired(t) ==
  /\ at[t] \in {"ensuring", "yielded", "waiting"} /\ gil = NoThread
  /\ gil' = t /\ Move(t, IF at[t] = "waiting" THEN "embedding" ELSE "running")
  /\ UNCHANGED <<interp, raised>>

\* External: Python code, on_action's or main()'s, waits for something and
\* lets others run.
Yield(t) ==
  /\ at[t] \in {"running", "embedding"}
  /\ gil' = NoThread /\ Move(t, IF at[t] = "running" THEN "yielded" ELSE "waiting")
  /\ UNCHANGED <<interp, raised>>

\* on_action returned, or there was nothing to call: PyGILState_Release.
ActionReturns_KeepsGil(t) ==
  /\ at[t] = "running"
  /\ Move(t, "left")
  /\ UNCHANGED <<interp, gil, raised>>

ActionReturns(t) ==
  /\ at[t] = "running"
  /\ gil' = NoThread /\ Move(t, "left")
  /\ UNCHANGED <<interp, raised>>

\* on_action raised: return, without PyGILState_Release.
ActionRaises(t) ==
  /\ at[t] = "running"
  /\ Move(t, "left") /\ raised' = raised \cup {t}
  /\ UNCHANGED <<interp, gil>>

MainEnds(t)   == MainReturns(t) \/ MainRaises(t)
ActionEnds(t) == ActionReturns(t) \/ ActionRaises(t)

Next == \E t \in Threads :
  \/ initializePython(t) \/ MainEnds(t)
  \/ onAction(t) \/ GilAcquired(t) \/ Yield(t) \/ ActionEnds(t)

Spec == Init /\ [][Next]_vars

-----------------------------------------------------------------------------
(* Properties.                                                             *)

\* Python code runs only in the thread that holds the GIL.
RunsWithGil == \A t \in Threads : at[t] \in {"embedding", "running"} => gil = t

\* A thread that has left the interpreter took the GIL with it only if its
\* Python code raised: the two early returns are the only leaks.
GilLostOnlyByRaise ==
  \A t \in Threads : at[t] = "left" /\ gil = t => t \in raised

\* At most one thread ever leaves with an exception: the GIL it keeps shuts
\* everybody else out for good.
OneRaiseIsFatal ==
  \A t, u \in raised : t = u /\ gil = t

=============================================================================
