----------------------------- MODULE App_proofs -----------------------------
(* What the run of MCApp checks on a small instance, proved for every      *)
(* instance: ServiceLifecycle with any number of services and any sets of  *)
(* threads, and Enrollment with any number of scanners open at a time.     *)
EXTENDS MCApp, TLAPS

-----------------------------------------------------------------------------
(* ServiceLifecycle.                                                       *)

\* A creation thread on its way; one that has entered the interpreter.
Busy(t)    == at[t] \in {"unpacking", "inside", "again"}
Entered(t) == at[t] \in {"inside", "again"}

\* A worker that has been started and has not come back.
AtWork(t)  == at[t] \in {"starting", "joining", "entering", "inside"}

\* Nothing works for an instance that has not been constructed yet, and while
\* a service lives nobody finalizes the interpreter.
InTheirTime ==
  /\ \A t \in Creators : Busy(t) => of[t] \in 1 .. mService
  /\ \A i \in downloading \cup receiving : i <= mService
  /\ \A i \in Instances : isPythonInitialized[i] => i <= mService
  /\ live => mService # 0 /\ main = "idle"

\* No worker works for an instance whose flag is not set.
WorkersHaveFlag ==
  \A t \in Workers : AtWork(t) => of[t] \in 1 .. mService /\ isPythonInitialized[of[t]]

\* The first half of InitializedMeansUp; WorkersHaveFlag makes the other of it.
FlagIsRight == live /\ isPythonInitialized[mService] => interp

\* A creation thread of the living service that has entered the interpreter
\* still has it.
EnteredHasInterpreter ==
  \A t \in Creators : live /\ Entered(t) /\ of[t] = mService => interp

\* Without leftovers, one thing at a time is on the way to Python, for the
\* living service and until it has it; and the interpreter is up because of a
\* thread that entered it, or for the living service, or is being finalized.
OneWay ==
  /\ ~live => downloading = {} /\ receiving = {} /\ \A t \in Creators : ~Busy(t)
  /\ downloading \subseteq {mService} /\ receiving \subseteq {mService}
  /\ downloading \cap receiving = {}
  /\ \A t \in Creators : Busy(t) =>
       /\ of[t] = mService /\ ~isPythonInitialized[mService]
       /\ downloading = {} /\ receiving = {}
  /\ \A t, u \in Creators : Busy(t) /\ Busy(u) => t = u
  /\ live /\ isPythonInitialized[mService] => downloading = {} /\ receiving = {}
  /\ interp =>
       \/ main = "finalizing"
       \/ live /\ isPythonInitialized[mService]
       \/ \E t \in Creators : Entered(t)

IInv ==
  /\ TypeOK /\ InTheirTime /\ WorkersHaveFlag /\ EnteredHasInterpreter /\ FlagIsRight
  /\ leftovers = {} => OneWay

-----------------------------------------------------------------------------
\* At the start nothing is under way.
LEMMA InitIInv == Init => IInv
<1> SUFFICES ASSUME Init PROVE IInv
  OBVIOUS
<1>1. TypeOK
  <2>1. isPythonInitialized \in [Instances -> BOOLEAN]
    BY Zenon DEF Init
  <2>2. mService \in 0 .. MaxInstances /\ of \in [Threads -> 0 .. MaxInstances]
    BY InstancesAssumption DEF Init
  <2>3. /\ live \in BOOLEAN /\ main \in {"idle", "finalizing"} /\ interp \in BOOLEAN
        /\ creationThread \in Creators \cup {NoThread} /\ died \in BOOLEAN
        /\ downloading = {} /\ receiving = {} /\ leftovers = {}
        /\ at \in [Threads -> {"new"}] /\ joins \in [Workers -> {NoThread}]
    BY DEF Init
  <2> QED BY <2>1, <2>2, <2>3 DEF TypeOK, Places
<1>2. InTheirTime /\ WorkersHaveFlag /\ EnteredHasInterpreter /\ FlagIsRight
  BY DEF Init, InTheirTime, WorkersHaveFlag, EnteredHasInterpreter, FlagIsRight, Instances,
     Threads, Busy, Entered, AtWork
<1>3. OneWay
  BY DEF Init, OneWay, Threads, Busy, Entered
<1> QED BY <1>1, <1>2, <1>3 DEF IInv

\* Every step of the threads and of the life cycle keeps the types.
LEMMA TypeStep == ASSUME TypeOK, InTheirTime, [Next]_vars PROVE TypeOK'
<1> USE InstancesAssumption DEF TypeOK, Places, Instances, Threads, Goto
<1>1. CASE onCreate
  BY <1>1 DEF onCreate
<1>2. CASE onDestroy
  BY <1>2 DEF onDestroy
<1>3. CASE releasePython
  BY <1>3 DEF releasePython
<1>4. ASSUME NEW i \in Instances, DownloadEnds(i) \/ RetryDownload(i) PROVE TypeOK'
  BY <1>4 DEF DownloadEnds, RetryDownload
<1>5. ASSUME NEW i \in Instances, NEW t \in Creators, ReceiverInitializes(i, t) PROVE TypeOK'
  BY <1>5 DEF ReceiverInitializes, initPython
<1>6. ASSUME NEW t \in Creators, UnzipFails(t) \/ initializePython(t) PROVE TypeOK'
  <2>1. live => mService \in Instances
    BY DEF InTheirTime
  <2>2. CASE UnzipFails(t)
    BY <2>1, <2>2 DEF UnzipFails
  <2>3. CASE initializePython(t)
    BY <2>3 DEF initializePython
  <2> QED BY <1>6, <2>2, <2>3
<1>7. ASSUME NEW t \in Creators, NEW ok \in BOOLEAN, StoreInitialized(t, ok) PROVE TypeOK'
  BY <1>7 DEF StoreInitialized
<1>8. CASE Crash
  BY <1>8 DEF Crash
<1>9. ASSUME NEW t \in Workers, Event(t) PROVE TypeOK'
  <2>1. /\ at' = [at EXCEPT ![t] = "starting"] \/ at' = [at EXCEPT ![t] = "entering"]
        /\ of' = [of EXCEPT ![t] = mService]
        /\ UNCHANGED <<mService, live, main, isPythonInitialized, creationThread,
                       downloading, receiving, interp, joins, died, leftovers>>
    BY <1>9 DEF Event, onStartCommand, forceTasksRefresh
  <2>2. at' \in [Threads -> Places]
    BY <2>1
  <2>3. of' \in [Threads -> 0..MaxInstances]
    BY <2>1
  <2> QED BY <2>1, <2>2, <2>3
<1>10. ASSUME NEW t \in Workers, Handle(t) PROVE TypeOK'
  <2>1. CASE ReadCreationThread(t)
    BY <2>1 DEF ReadCreationThread
  <2>2. CASE join(t)
    BY <2>2 DEF join
  <2>3. CASE onAction(t) \/ ActionEnds(t)
    BY <2>3 DEF onAction, ActionEnds
  <2> QED BY <1>10, <2>1, <2>2, <2>3 DEF Handle
<1>11. CASE UNCHANGED vars
  BY <1>11 DEF vars
<1> QED
  BY <1>1, <1>2, <1>3, <1>4, <1>5, <1>6, <1>7, <1>8, <1>9, <1>10, <1>11 DEF Next, ToPython

\* A worker is no creation thread, so none of its steps is seen here.
LEMMA WorkerStep ==
  ASSUME IInv, NEW t \in Workers, Event(t) \/ Handle(t)
  PROVE  /\ \A c \in Creators : at'[c] = at[c] /\ of'[c] = of[c]
         /\ UNCHANGED <<mService, live, main, isPythonInitialized, creationThread,
                        downloading, receiving, interp, died, leftovers>>
BY KindsAssumption DEF Event, Handle, onStartCommand, forceTasksRefresh,
   ReadCreationThread, join, onAction,
   ActionEnds, Goto, IInv, TypeOK, Threads

\* Who entered the interpreter for the living service has it, and the flag says so.
LEMMA UpStep ==
  ASSUME IInv, [Next]_vars
  PROVE  (InTheirTime /\ EnteredHasInterpreter /\ FlagIsRight)'
<1> USE InstancesAssumption DEF IInv, TypeOK, InTheirTime, EnteredHasInterpreter,
        FlagIsRight, Instances, Threads, Goto, Busy, Entered
<1>1. CASE onCreate
  BY <1>1 DEF onCreate
<1>2. CASE onDestroy
  BY <1>2 DEF onDestroy
<1>3. CASE releasePython
  BY <1>3 DEF releasePython
<1>4. ASSUME NEW i \in Instances, DownloadEnds(i)
      PROVE (InTheirTime /\ EnteredHasInterpreter /\ FlagIsRight)'
  BY <1>4 DEF DownloadEnds
<1>5. ASSUME NEW i \in Instances, RetryDownload(i)
      PROVE (InTheirTime /\ EnteredHasInterpreter /\ FlagIsRight)'
  BY <1>5 DEF RetryDownload
<1>6. ASSUME NEW i \in Instances, NEW t \in Creators, ReceiverInitializes(i, t)
      PROVE (InTheirTime /\ EnteredHasInterpreter /\ FlagIsRight)'
  BY <1>6 DEF ReceiverInitializes, initPython
<1>7. ASSUME NEW t \in Creators, UnzipFails(t)
      PROVE (InTheirTime /\ EnteredHasInterpreter /\ FlagIsRight)'
  BY <1>7 DEF UnzipFails
<1>8. ASSUME NEW t \in Creators, initializePython(t)
      PROVE (InTheirTime /\ EnteredHasInterpreter /\ FlagIsRight)'
  BY <1>8 DEF initializePython
<1>9. ASSUME NEW t \in Creators, NEW ok \in BOOLEAN, StoreInitialized(t, ok)
      PROVE (InTheirTime /\ EnteredHasInterpreter /\ FlagIsRight)'
  BY <1>9 DEF StoreInitialized
<1>10. CASE Crash
  BY <1>10 DEF Crash
<1>11. ASSUME NEW t \in Workers, Event(t) \/ Handle(t)
       PROVE (InTheirTime /\ EnteredHasInterpreter /\ FlagIsRight)'
  BY <1>11, WorkerStep
<1>12. CASE UNCHANGED vars
  BY <1>12 DEF vars
<1> QED
  BY <1>1, <1>2, <1>3, <1>4, <1>5, <1>6, <1>7, <1>8, <1>9, <1>10, <1>11, <1>12
  DEF Next, ToPython

\* A worker starts with the flag of the service it is for, and no flag is reset.
LEMMA WorkersStep == ASSUME IInv, [Next]_vars PROVE WorkersHaveFlag'
<1> USE InstancesAssumption, KindsAssumption DEF IInv, TypeOK, InTheirTime, WorkersHaveFlag,
        AtWork, Instances, Threads, Goto
<1>1. CASE onCreate
  BY <1>1 DEF onCreate
<1>2. CASE onDestroy \/ releasePython \/ Crash \/ UNCHANGED vars
  BY <1>2 DEF onDestroy, releasePython, Crash, vars
<1>3. ASSUME NEW i \in Instances, DownloadEnds(i) \/ RetryDownload(i) PROVE WorkersHaveFlag'
  BY <1>3 DEF DownloadEnds, RetryDownload
<1>4. ASSUME NEW i \in Instances, NEW t \in Creators, ReceiverInitializes(i, t)
      PROVE  WorkersHaveFlag'
  BY <1>4 DEF ReceiverInitializes, initPython
<1>5. ASSUME NEW t \in Creators, UnzipFails(t) \/ initializePython(t) PROVE WorkersHaveFlag'
  BY <1>5 DEF UnzipFails, initializePython
<1>6. ASSUME NEW t \in Creators, NEW ok \in BOOLEAN, StoreInitialized(t, ok)
      PROVE  WorkersHaveFlag'
  BY <1>6 DEF StoreInitialized
<1>7. ASSUME NEW t \in Workers, Event(t) PROVE WorkersHaveFlag'
  BY <1>7 DEF Event, onStartCommand, forceTasksRefresh
<1>8. ASSUME NEW t \in Workers, Handle(t) PROVE WorkersHaveFlag'
  BY <1>8 DEF Handle, ReadCreationThread, join, onAction, ActionEnds
<1> QED
  BY <1>1, <1>2, <1>3, <1>4, <1>5, <1>6, <1>7, <1>8 DEF Next, ToPython

\* Without leftovers one thing at a time is on its way to Python: a step hands
\* over from one to the next, or ends it.
LEMMA OneWayStep ==
  ASSUME IInv, [Next]_vars
  PROVE  (leftovers = {} => OneWay)'
<1> SUFFICES ASSUME leftovers' = {} PROVE OneWay'
  OBVIOUS
<1> USE InstancesAssumption DEF IInv, TypeOK, InTheirTime, OneWay, Instances, Threads,
        Goto, Busy, Entered
<1>1. CASE onCreate
  BY <1>1 DEF onCreate
<1>2. CASE onDestroy
  BY <1>2 DEF onDestroy, WorkUnderWay
<1>3. CASE releasePython
  BY <1>3 DEF releasePython
<1>4. ASSUME NEW i \in Instances, DownloadEnds(i) PROVE OneWay'
  BY <1>4 DEF DownloadEnds
<1>5. ASSUME NEW i \in Instances, RetryDownload(i) PROVE OneWay'
  BY <1>5 DEF RetryDownload
<1>6. ASSUME NEW i \in Instances, NEW t \in Creators, ReceiverInitializes(i, t) PROVE OneWay'
  BY <1>6 DEF ReceiverInitializes, initPython
<1>7. ASSUME NEW t \in Creators, UnzipFails(t) PROVE OneWay'
  BY <1>7 DEF UnzipFails
<1>8. ASSUME NEW t \in Creators, initializePython(t) PROVE OneWay'
  BY <1>8 DEF initializePython
<1>9. ASSUME NEW t \in Creators, NEW ok \in BOOLEAN, StoreInitialized(t, ok) PROVE OneWay'
  BY <1>9 DEF StoreInitialized
<1>10. CASE Crash
  BY <1>10 DEF Crash
<1>11. ASSUME NEW t \in Workers, Event(t) \/ Handle(t) PROVE OneWay'
  BY <1>11, WorkerStep
<1>12. CASE UNCHANGED vars
  BY <1>12 DEF vars
<1> QED
  BY <1>1, <1>2, <1>3, <1>4, <1>5, <1>6, <1>7, <1>8, <1>9, <1>10, <1>11, <1>12
  DEF Next, ToPython

\* The invariant of the life cycle, which the theorems below read off.
THEOREM IInvHolds == Spec => []IInv
<1>1. IInv /\ [Next]_vars => IInv'
  <2> SUFFICES ASSUME IInv, [Next]_vars PROVE IInv'
    OBVIOUS
  <2>1. TypeOK'
    BY TypeStep DEF IInv
  <2> QED BY <2>1, UpStep, WorkersStep, OneWayStep DEF IInv
<1> QED BY <1>1, InitIInv, PTL DEF Spec

-----------------------------------------------------------------------------
\* However many services come and go in a process, and whichever threads of
\* theirs are left and hand over to it (EPCService.java:148), the flag of the
\* living one is right (:374), and its workers meet no finalized interpreter.
THEOREM InitializedMeansUpHolds == Spec => []InitializedMeansUp
<1>1. IInv => InitializedMeansUp
  <2> SUFFICES ASSUME IInv PROVE InitializedMeansUp
    OBVIOUS
  <2>1. ASSUME NEW t \in Workers, AtWork(t), ~interp PROVE ~live \/ of[t] # mService
    BY <2>1 DEF IInv, WorkersHaveFlag, FlagIsRight
  <2> QED BY <2>1 DEF IInv, FlagIsRight, InitializedMeansUp, AtWork
<1> QED BY <1>1, IInvHolds, PTL

\* A process nothing was left behind in enters no interpreter that is up
\* (PythonWrapper.cpp:163).
THEOREM EntersNewHolds == Spec => EntersNewInterpreter
<1>1. IInv => [\A t \in Creators : initializePython(t) /\ leftovers = {} => ~interp]_vars
  <2> SUFFICES ASSUME IInv, NEW t \in Creators, initializePython(t), leftovers = {}
               PROVE  ~interp
    OBVIOUS
  <2>1. Busy(t) /\ ~Entered(t) /\ OneWay
    BY DEF initializePython, Busy, Entered, IInv
  <2>2. live /\ main = "idle" /\ ~isPythonInitialized[mService]
    BY <2>1 DEF OneWay, IInv, InTheirTime
  <2>3. \A u \in Creators : ~Entered(u)
    BY <2>1 DEF OneWay, Busy, Entered
  <2> QED BY <2>1, <2>2, <2>3 DEF OneWay
<1> QED BY <1>1, IInvHolds, PTL DEF EntersNewInterpreter

-----------------------------------------------------------------------------
(* Enrollment.                                                             *)

\* Where there are settings, an activity that takes clicks shows no button, so
\* that nobody begins a scan; and nobody is writing settings behind it.
NoButtonWithSettings ==
  /\ resumed /\ userSettings # "absent" => button = "gone"
  /\ resumed => alive /\ writing = Enrolment!NoCode

\* It holds from the start and at every step: onResume hides the button, and
\* settings are written only behind a scanner.
LEMMA NoButtonHolds == Enrolment!Spec => []NoButtonWithSettings
<1>1. Enrolment!Init => NoButtonWithSettings
  BY DEF Enrolment!Init, NoButtonWithSettings
<1>2. NoButtonWithSettings /\ [Enrolment!Next]_(Enrolment!vars) => NoButtonWithSettings'
  <2> SUFFICES ASSUME NoButtonWithSettings, [Enrolment!Next]_(Enrolment!vars)
               PROVE  NoButtonWithSettings'
    OBVIOUS
  <2> USE DEF NoButtonWithSettings, Enrolment!updateEnrollButtonVisibility
  <2>1. CASE Enrolment!onCreateView
    BY <2>1 DEF Enrolment!onCreateView
  <2>2. CASE Enrolment!onResume
    BY <2>2 DEF Enrolment!onResume
  <2>3. CASE Enrolment!enroll
    BY <2>3 DEF Enrolment!enroll
  <2>4. CASE Enrolment!Pause
    BY <2>4 DEF Enrolment!Pause
  <2>5. CASE Enrolment!onActivityResult
    <3>1. CASE Enrolment!Canceled
      BY <3>1 DEF Enrolment!Canceled
    <3>2. CASE Enrolment!NotHierarchical
      BY <3>2 DEF Enrolment!NotHierarchical, Enrolment!Die
    <3>3. CASE Enrolment!CloseSettings
      BY <3>3 DEF Enrolment!CloseSettings
    <3>4. CASE Enrolment!EnrollmentFailed
      BY <3>4 DEF Enrolment!EnrollmentFailed
    <3>5. ASSUME NEW c \in Enrolment!Codes, Enrolment!NoScheme(c) PROVE NoButtonWithSettings'
      BY <3>5 DEF Enrolment!NoScheme, Enrolment!Die
    <3>6. ASSUME NEW c \in Enrolment!Codes, Enrolment!OpenSettings(c)
          PROVE  NoButtonWithSettings'
      BY <3>6 DEF Enrolment!OpenSettings, Enrolment!Result
    <3> QED BY <2>5, <3>1, <3>2, <3>3, <3>4, <3>5, <3>6 DEF Enrolment!onActivityResult
  <2>6. CASE Enrolment!Kill
    BY <2>6 DEF Enrolment!Kill, Enrolment!Die
  <2>7. CASE Enrolment!onEnabled \/ Enrolment!onDisabled
    BY <2>7 DEF Enrolment!onEnabled, Enrolment!onDisabled
  <2>8. CASE UNCHANGED Enrolment!vars
    BY <2>8 DEF Enrolment!vars
  <2> QED BY <2>1, <2>2, <2>3, <2>4, <2>5, <2>6, <2>7, <2>8 DEF Enrolment!Next
<1> QED BY <1>1, <1>2, PTL DEF Enrolment!Spec

\* Settings that a wrong QR code, a crash or an error half way left without an
\* INSTANCE_ID are never replaced: the button is hidden whenever it could be
\* clicked (HomeFragment.java:76, :142), and the device administrator deletes a
\* file of another name (EPCDeviceAdminReceiver.java:50).
THEOREM BadScanIsForEverHolds == Enrolment!Spec => BadScanIsForEver
<1>1. /\ NoButtonWithSettings /\ [Enrolment!Next]_(Enrolment!vars)
      => [Enrolment!Unusable => Enrolment!Unusable']_(Enrolment!vars)
  <2> SUFFICES ASSUME NoButtonWithSettings, Enrolment!Next, Enrolment!Unusable
               PROVE  Enrolment!Unusable'
    OBVIOUS
  <2>1. /\ userSettings \in {"partial", "noId"} /\ scanners = 0 /\ writing = Enrolment!NoCode
        /\ userSettings # "absent"
    BY DEF Enrolment!Unusable
  <2>2. ~Enrolment!enroll
    BY <2>1 DEF NoButtonWithSettings, Enrolment!enroll
  <2>3. ~Enrolment!onActivityResult
    <3>1. ~Enrolment!Result
      BY <2>1 DEF Enrolment!Result
    <3> QED BY <2>1, <3>1 DEF Enrolment!onActivityResult, Enrolment!Canceled,
              Enrolment!NotHierarchical, Enrolment!CloseSettings, Enrolment!EnrollmentFailed,
              Enrolment!NoScheme, Enrolment!OpenSettings
  <2>4. \/ UNCHANGED <<userSettings, scanners, writing>>
        \/ Enrolment!Kill
    BY <2>2, <2>3 DEF Enrolment!Next, Enrolment!onCreateView, Enrolment!onResume,
       Enrolment!Pause, Enrolment!onEnabled, Enrolment!onDisabled
  <2>5. UNCHANGED <<userSettings, scanners>> /\ writing' = Enrolment!NoCode
    BY <2>1, <2>4 DEF Enrolment!Kill, Enrolment!Die
  <2> QED BY <2>1, <2>5 DEF Enrolment!Unusable
<1> QED BY <1>1, NoButtonHolds, PTL DEF Enrolment!Spec, BadScanIsForEver,
          Enrolment!BadScanIsForEver

=============================================================================
