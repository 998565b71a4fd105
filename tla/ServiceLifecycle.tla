-------------------------- MODULE ServiceLifecycle --------------------------
(***************************************************************************)
(* EPCService created, stopped by the system and created again in the same *)
(* process.  What belongs to the process outlives the instance: mService,  *)
(* creationThread, the interpreter.  What belongs to the instance does     *)
(* not: isPythonInitialized, the receiver, the chain of downloads that     *)
(* leads to initPython.  AssetBootstrap has that chain in detail, and      *)
(* PythonWrapper the interpreter's lock; here a download is one step.      *)
(*                                                                         *)
(* External: Py_Finalize without a thread state, and entering the          *)
(* interpreter twice or after that, are undefined: the step may work or    *)
(* end the process.                                                        *)
(***************************************************************************)
EXTENDS Naturals

CONSTANTS
  MaxInstances,  \* bound: services created in the life of the process
  Creators,      \* creation threads
  Workers,       \* threads that call onAction
  NoThread

ASSUME InstancesAssumption == MaxInstances \in Nat
ASSUME KindsAssumption ==
  Creators \cap Workers = {} /\ NoThread \notin Creators \cup Workers

Instances == 1..MaxInstances
Threads   == Creators \cup Workers

VARIABLES
  mService,       \* the last instance constructed, 0 before the first
  live,           \* it has been created and not destroyed
  main,           \* the main thread: idle, or in releasePython
  isPythonInitialized,
  creationThread,
  downloading,    \* instances with a download whose id is their downloadRef
  receiving,      \* instances whose receiver is at work
  interp,         \* Py_Initialize has run, and no Py_Finalize since
  at, of,         \* every thread's place, and the instance it works for
  joins,          \* the thread a worker found in creationThread and waits for
  died,           \* the process has ended
  leftovers       \* history: why the process may not have been as new when
                  \* a service was created in it

vars == <<mService, live, main, isPythonInitialized, creationThread, downloading,
          receiving, interp, at, of, joins, died, leftovers>>

Places == {"new", "unpacking", "starting", "joining", "entering", "inside", "again", "ended"}

TypeOK ==
  /\ mService \in 0..MaxInstances /\ live \in BOOLEAN
  /\ main \in {"idle", "finalizing"}
  /\ isPythonInitialized \in [Instances -> BOOLEAN]
  /\ creationThread \in Creators \cup {NoThread}
  /\ downloading \subseteq Instances /\ receiving \subseteq Instances
  /\ interp \in BOOLEAN
  /\ at \in [Threads -> Places] /\ of \in [Threads -> 0..MaxInstances]
  /\ joins \in [Workers -> Creators \cup {NoThread}]
  /\ died \in BOOLEAN
  /\ leftovers \subseteq {"thread", "failed"}

Init ==
  /\ mService = 0 /\ live = FALSE /\ main = "idle"
  /\ isPythonInitialized = [i \in Instances |-> FALSE]
  /\ creationThread = NoThread /\ downloading = {} /\ receiving = {}
  /\ interp = FALSE
  /\ at = [t \in Threads |-> "new"] /\ of = [t \in Threads |-> 0]
  /\ joins = [t \in Workers |-> NoThread]
  /\ died = FALSE /\ leftovers = {}

Goto(t, place) == at' = [at EXCEPT ![t] = place]

-----------------------------------------------------------------------------
(* The main thread.                                                        *)

\* The constructor, and onCreate of an enrolled agent.
onCreate ==
  /\ ~died /\ main = "idle" /\ ~live /\ mService < MaxInstances
  /\ mService' = mService + 1 /\ live' = TRUE
  /\ downloading' = downloading \cup {mService + 1}
  /\ UNCHANGED <<main, isPythonInitialized, creationThread, receiving, interp, at,
                 of, died, leftovers, joins>>

WorkUnderWay == \/ receiving # {}
                \/ \E t \in Creators : at[t] \in {"unpacking", "inside", "again"}

\* The receiver is unregistered, so no broadcast reaches this instance any
\* more; a receiver at work and a creation thread go on.
onDestroy_KeepsInterpreter ==
  /\ ~died /\ main = "idle" /\ live
  /\ live' = FALSE /\ downloading' = downloading \ {mService}
  /\ leftovers' = IF WorkUnderWay THEN leftovers \cup {"thread"} ELSE leftovers
  /\ UNCHANGED <<mService, isPythonInitialized, creationThread, receiving, interp,
                 at, of, died, main, joins>>

onDestroy ==
  /\ ~died /\ main = "idle" /\ live
  /\ live' = FALSE /\ downloading' = downloading \ {mService}
  /\ main' = IF isPythonInitialized[mService] THEN "finalizing" ELSE "idle"
  /\ leftovers' = IF WorkUnderWay THEN leftovers \cup {"thread"} ELSE leftovers
  /\ UNCHANGED <<mService, isPythonInitialized, creationThread, receiving, interp,
                 at, of, died, joins>>

\* Py_Finalize, if it gets that far.
releasePython ==
  /\ ~died /\ main = "finalizing"
  /\ interp' = FALSE /\ main' = "idle"
  /\ UNCHANGED <<mService, live, isPythonInitialized, creationThread, downloading,
                 receiving, at, of, died, leftovers, joins>>

-----------------------------------------------------------------------------
(* An instance's way to initPython.                                        *)

\* The broadcast of the download's end.
DownloadEnds(i) ==
  /\ ~died /\ live /\ i = mService /\ i \in downloading \ receiving
  /\ receiving' = receiving \cup {i} /\ downloading' = downloading \ {i}
  /\ UNCHANGED <<mService, live, main, isPythonInitialized, creationThread, interp,
                 at, of, died, leftovers, joins>>

\* Nothing usable came: a DownloadAssetsTask of the same instance.  If it has
\* been destroyed meanwhile nobody will hear of the download's end.
RetryDownload(i) ==
  /\ ~died /\ i \in receiving
  /\ receiving' = receiving \ {i}
  /\ downloading' = IF live /\ i = mService THEN downloading \cup {i} ELSE downloading
  /\ UNCHANGED <<mService, live, main, isPythonInitialized, creationThread, interp,
                 at, of, died, leftovers, joins>>

\* A new thread of instance j; t may have been the name of one that has ended
\* and that nobody can join any more.
initPython(j, t) ==
  /\ at[t] = "new" \/ ( /\ at[t] = "ended" /\ t # creationThread
                       /\ \A w \in Workers : joins[w] # t )
  /\ creationThread' = t
  /\ Goto(t, "unpacking") /\ of' = [of EXCEPT ![t] = j]

\* A download that failed, with an archive there: the receiver's own
\* initPython.  One that came and passed the check: that of mService, which
\* is a later instance if the receiver's was destroyed meanwhile.
ReceiverInitializes(i, t) ==
  /\ ~died /\ i \in receiving
  /\ receiving' = receiving \ {i}
  /\ \E j \in {i, mService} : initPython(j, t)
  /\ UNCHANGED <<mService, live, main, isPythonInitialized, downloading, interp,
                 died, leftovers, joins>>

\* EPCService.mService.downloadAssets(): the last instance's, which need not
\* be the one this thread was started by, nor alive.
UnzipFails_NoRetry(t) ==
  /\ ~died /\ at[t] = "unpacking"
  /\ Goto(t, "ended")
  /\ UNCHANGED <<mService, live, main, isPythonInitialized, creationThread,
                 downloading, receiving, interp, of, died, leftovers, joins>>

UnzipFails(t) ==
  /\ ~died /\ at[t] = "unpacking"
  /\ Goto(t, "ended")
  /\ downloading' = IF live THEN downloading \cup {mService} ELSE downloading
  /\ UNCHANGED <<mService, live, main, isPythonInitialized, creationThread,
                 receiving, interp, of, died, leftovers, joins>>

initializePython(t) ==
  /\ ~died /\ at[t] = "unpacking"
  /\ interp' = TRUE /\ Goto(t, IF interp THEN "again" ELSE "inside")
  /\ UNCHANGED <<mService, live, main, isPythonInitialized, creationThread,
                 downloading, receiving, of, died, leftovers, joins>>

\* initializePython returns and its result is stored in the instance that
\* started the thread; an interpreter whose main() failed stays.
StoreInitialized_Static(t, ok) ==
  /\ ~died /\ t \in Creators /\ at[t] \in {"inside", "again"}
  /\ isPythonInitialized' = [i \in Instances |-> isPythonInitialized[i] \/ ok]
  /\ leftovers' = IF ok THEN leftovers ELSE leftovers \cup {"failed"}
  /\ Goto(t, "ended")
  /\ UNCHANGED <<mService, live, main, creationThread, downloading, receiving,
                 interp, of, died, joins>>

StoreInitialized(t, ok) ==
  /\ ~died /\ t \in Creators /\ at[t] \in {"inside", "again"}
  /\ isPythonInitialized' = [isPythonInitialized EXCEPT ![of[t]] = @ \/ ok]
  /\ leftovers' = IF ok THEN leftovers ELSE leftovers \cup {"failed"}
  /\ Goto(t, "ended")
  /\ UNCHANGED <<mService, live, main, creationThread, downloading, receiving,
                 interp, of, died, joins>>

-----------------------------------------------------------------------------
(* Events.                                                                 *)

\* onStartCommand starts a worker ...
onStartCommand(t) ==
  /\ ~died /\ main = "idle" /\ live /\ isPythonInitialized[mService]
  /\ t \in Workers /\ at[t] = "new"
  /\ Goto(t, "starting") /\ of' = [of EXCEPT ![t] = mService]
  /\ UNCHANGED <<mService, live, main, isPythonInitialized, creationThread,
                 downloading, receiving, interp, died, leftovers, joins>>

\* ... that reads creationThread, which another thread may replace then,
ReadCreationThread(t) ==
  /\ ~died /\ at[t] = "starting"
  /\ joins' = [joins EXCEPT ![t] = creationThread] /\ Goto(t, "joining")
  /\ UNCHANGED <<mService, live, main, isPythonInitialized, creationThread,
                 downloading, receiving, interp, of, died, leftovers>>

\* and joins the one it has read.
join(t) ==
  /\ ~died /\ at[t] = "joining" /\ at[joins[t]] = "ended"
  /\ joins' = [joins EXCEPT ![t] = NoThread] /\ Goto(t, "entering")
  /\ UNCHANGED <<mService, live, main, isPythonInitialized, creationThread,
                 downloading, receiving, interp, of, died, leftovers>>

\* forceTasksRefresh of the last instance constructed, on a click: its flag
\* is never reset, so it may have been destroyed.  This worker joins nobody.
forceTasksRefresh(t) ==
  /\ ~died /\ main = "idle" /\ mService # 0 /\ isPythonInitialized[mService]
  /\ t \in Workers /\ at[t] = "new"
  /\ Goto(t, "entering") /\ of' = [of EXCEPT ![t] = mService]
  /\ UNCHANGED <<mService, live, main, isPythonInitialized, creationThread,
                 downloading, receiving, interp, died, leftovers, joins>>

onAction(t) ==
  /\ ~died /\ t \in Workers /\ at[t] = "entering"
  /\ Goto(t, "inside")
  /\ UNCHANGED <<mService, live, main, isPythonInitialized, creationThread,
                 downloading, receiving, interp, of, died, leftovers, joins>>

ActionEnds(t) ==
  /\ ~died /\ t \in Workers /\ at[t] = "inside"
  /\ Goto(t, "ended")
  /\ UNCHANGED <<mService, live, main, isPythonInitialized, creationThread,
                 downloading, receiving, interp, of, died, leftovers, joins>>

\* External: what is undefined may end the process.
Undefined ==
  \/ main = "finalizing"
  \/ \E t \in Threads : at[t] = "again" \/ (at[t] = "inside" /\ ~interp)

Crash ==
  /\ ~died /\ Undefined
  /\ died' = TRUE
  /\ UNCHANGED <<mService, live, main, isPythonInitialized, creationThread,
                 downloading, receiving, interp, at, of, leftovers, joins>>

-----------------------------------------------------------------------------
ToPython ==
  \/ \E i \in Instances : \/ DownloadEnds(i) \/ RetryDownload(i)
                          \/ \E t \in Creators : ReceiverInitializes(i, t)
  \/ \E t \in Creators : \/ UnzipFails(t) \/ initializePython(t)
                         \/ \E ok \in BOOLEAN : StoreInitialized(t, ok)

Event(t) == onStartCommand(t) \/ forceTasksRefresh(t)
Handle(t) == ReadCreationThread(t) \/ join(t) \/ onAction(t) \/ ActionEnds(t)

Next ==
  \/ onCreate \/ onDestroy \/ releasePython \/ ToPython \/ Crash
  \/ \E t \in Workers : Event(t) \/ Handle(t)

Spec == Init /\ [][Next]_vars

\* The system starts a START_STICKY service again; threads run; what is tried
\* again and again succeeds once.
Fairness ==
  /\ WF_vars(onCreate) /\ WF_vars(releasePython) /\ WF_vars(ToPython)
  /\ \A t \in Creators :
       /\ SF_vars(\E i \in Instances : ReceiverInitializes(i, t))
       /\ SF_vars(initializePython(t))
  /\ \A t \in Workers : WF_vars(Handle(t))

FairSpec == Spec /\ Fairness

-----------------------------------------------------------------------------
(* Properties.                                                             *)

\* While the service lives, its flag is right, whoever started the thread that
\* set it: a receiver of an earlier instance that hands over to mService does
\* not make it true too early, and no thread of an earlier instance takes the
\* interpreter away.  So a worker that is to meet, or has met, a finalized
\* interpreter is one of a service that has been destroyed.
InitializedMeansUp ==
  /\ live /\ isPythonInitialized[mService] => interp
  /\ \A t \in Workers :
       at[t] \in {"starting", "joining", "entering", "inside"} /\ ~interp =>
         ~live \/ of[t] # mService

\* initializePython finds an interpreter up, or another thread on the way
\* there, only if a receiver or a creation thread outlived its service, or an
\* initialisation failed: then nobody finalizes what it started.
EntersNewInterpreter ==
  [][\A t \in Creators : initializePython(t) /\ leftovers = {} => ~interp]_vars

\* A service created in a process without leftovers gets Python running, or
\* is destroyed, or something in the process goes wrong.
EventuallyInitialized ==
  live ~> ~live \/ isPythonInitialized[mService] \/ died \/ leftovers # {}

=============================================================================
