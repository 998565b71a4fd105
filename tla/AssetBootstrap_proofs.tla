----------------------- MODULE AssetBootstrap_proofs ------------------------
(* Theorems about AssetBootstrap, for any number of ids, threads, scans    *)
(* and process deaths.                                                     *)
EXTENDS AssetBootstrap, FiniteSetTheorems, TLAPS

-----------------------------------------------------------------------------
(* Type correctness: one step per actor.                                   *)

LEMMA DieType ==
  ASSUME TypeOK, Die, kills' \in Nat
  PROVE  TypeOK'
<1>1. /\ alive' \in BOOLEAN /\ bound' \in BOOLEAN
      /\ isPythonInitialized' \in BOOLEAN /\ torn' \in BOOLEAN
  BY DEF Die
<1>2. /\ pc' \in [Callers -> Labels]
      /\ ref' \in [Callers -> DownloadIds \cup {0}]
      /\ src' \in [InitThreads -> {"absent", "partial", "corrupt", "good"}]
  BY DEF Die, Labels
<1>3. /\ announced' = {} /\ downloadRef' = 0 /\ queue' = <<>> /\ task' = NoTask
      /\ dlPc' = "idle" /\ dlId' = 0 /\ roots' = 0 /\ causes' = {}
      /\ UNCHANGED <<files, dm, scanning, scans>>
  BY DEF Die
<1>4. queue' \in Seq(Tasks)
  BY <1>3
<1> QED BY <1>1, <1>2, <1>3, <1>4 DEF TypeOK, files

\* Types: the platform, which starts the service, kills it and ends downloads.
LEMMA PlatformType ==
  ASSUME TypeOK, Platform
  PROVE  TypeOK'
<1>1. CASE onCreate
  <2>1. queue' \in Seq(Tasks)
    BY <1>1 DEF onCreate, Tasks
  <2> QED BY <1>1, <2>1 DEF TypeOK, onCreate, files, receiver, history
<1>2. CASE Kill
  BY <1>2, DieType DEF TypeOK, Kill
<1>3. ASSUME NEW i \in DownloadIds, NEW status \in {"failed", "success"},
             Finish(i, status)
      PROVE  TypeOK'
  BY <1>3 DEF TypeOK, Finish, files, calls, receiver, history
<1> QED BY <1>1, <1>2, <1>3 DEF Platform

\* Types: the callbacks of the main thread.
LEMMA MainThreadType ==
  ASSUME TypeOK, MainThread
  PROVE  TypeOK'
<1> USE DEF TypeOK, files, platform, calls, receiver, history, Callers,
           Labels
<1>1. CASE onServiceConnected
  BY <1>1 DEF onServiceConnected
<1>2. CASE enroll
  BY <1>2 DEF enroll
<1>3. CASE EnrolmentCanceled
  BY <1>3 DEF EnrolmentCanceled, ResultArrives
<1>4. CASE ScanResult
  BY <1>4 DEF ScanResult, ResultArrives, Goto
<1>5. ASSUME NEW s \in {"valid", "invalid"}, WriteSettings(s)
      PROVE  TypeOK'
  BY <1>5 DEF WriteSettings, Goto, Causes
<1>6. CASE EnrolmentFailed
  BY <1>6 DEF EnrolmentFailed, Goto
<1> QED BY <1>1, <1>2, <1>3, <1>4, <1>5, <1>6 DEF MainThread

\* Types: the retry taken from the queue.
LEMMA DoInBackgroundType ==
  ASSUME TypeOK, doInBackground
  PROVE  TypeOK'
<1>1. Head(queue) \in Tasks /\ Tail(queue) \in Seq(Tasks)
  BY DEF TypeOK, doInBackground
<1> QED
  BY <1>1 DEF TypeOK, doInBackground, Goto, files, platform, receiver, history,
              Callers, Labels

\* Types: each step of downloadAssets, by whichever thread.
LEMMA DownloadAssetsType ==
  ASSUME TypeOK, NEW t \in Callers, downloadAssets(t)
  PROVE  TypeOK'
<1> USE DEF TypeOK, files, platform, receiver, history, Goto, TaskAfter, Labels
<1>1. CASE NoSettings(t)
  BY <1>1 DEF NoSettings
<1>2. CASE HashFails(t)
  BY <1>2, DieType DEF HashFails
<1>3. CASE AssignRef(t)
  BY <1>3 DEF AssignRef
<1>4. ASSUME NEW i \in DownloadIds, enqueue(t, i)
      PROVE  TypeOK'
  BY <1>4 DEF enqueue, Roots
<1> QED BY <1>1, <1>2, <1>3, <1>4 DEF downloadAssets

\* Types: each step of a thread that initializes Python.
LEMMA CreationThreadType ==
  ASSUME TypeOK, NEW t \in InitThreads, CreationThread(t)
  PROVE  TypeOK'
<1> USE DEF TypeOK, files, platform, receiver, history, Goto, Callers,
           Labels, InitBusy
<1>1. CASE DeleteTree(t)
  <2>1. pc' \in [Callers -> Labels]
    BY <1>1 DEF DeleteTree
  <2>2. src' \in [InitThreads -> {"absent", "partial", "corrupt", "good"}]
    BY <1>1 DEF DeleteTree, Damaged
  <2>3. tree' \in {"none", "partial", "full"}
    BY <1>1 DEF DeleteTree
  <2> QED BY <1>1, <2>1, <2>2, <2>3 DEF DeleteTree
<1>2. CASE Unzipped(t)
  BY <1>2 DEF Unzipped
<1>3. CASE UnzipFails(t)
  BY <1>3 DEF UnzipFails
<1>4. CASE DiscardUnreadable(t)
  <2>1. torn' \in BOOLEAN
    BY <1>4 DEF DiscardUnreadable
  <2>2. pc' \in [Callers -> Labels]
    BY <1>4 DEF DiscardUnreadable
  <2>3. zip' = "absent" /\ UNCHANGED <<settings, tree, config, debug, platform, bound, downloadRef,
                 queue, task, ref, src, receiver, isPythonInitialized, scans,
                 kills, roots, causes>>
    BY <1>4 DEF DiscardUnreadable
  <2> QED BY <2>1, <2>2, <2>3
<1>5. ASSUME NEW moved \in BOOLEAN, MoveConfig(t, moved)
      PROVE  TypeOK'
  BY <1>5 DEF MoveConfig
<1>6. ASSUME NEW ok \in BOOLEAN, initializePython(t, ok)
      PROVE  TypeOK'
  BY <1>6 DEF initializePython, Causes
<1>7. CASE InterpreterCrash(t)
  BY <1>7, DieType DEF InterpreterCrash
<1> QED BY <1>1, <1>2, <1>3, <1>4, <1>5, <1>6, <1>7 DEF CreationThread

\* Starting a creation thread, the step shared by several handlers.
LEMMA InitPythonType ==
  ASSUME TypeOK, NEW t \in InitThreads, initPython(t)
  PROVE  pc' \in [Callers -> Labels]
BY DEF TypeOK, initPython, Goto, Labels, InitBusy, Callers

\* Types: each step of the receiver.
LEMMA OnReceiveType ==
  ASSUME TypeOK, onReceive
  PROVE  TypeOK'
<1> USE DEF TypeOK, files, calls, history, DlBusy, DlWriting
<1>1. ASSUME NEW i \in DownloadIds, ReceiveForeign(i)
      PROVE  TypeOK'
  BY <1>1 DEF ReceiveForeign, receiver, Causes
<1>2. ASSUME NEW i \in DownloadIds, ReceiveFailed(i)
      PROVE  TypeOK'
  <2>1. pc' \in [Callers -> Labels]
    BY <1>2, InitPythonType DEF ReceiveFailed
  <2> QED BY <1>2, <2>1 DEF ReceiveFailed
<1>3. ASSUME NEW i \in DownloadIds, ReceiveSuccess(i)
      PROVE  TypeOK'
  BY <1>3 DEF ReceiveSuccess
<1>4. CASE OpenDownload
  <2>1. torn' \in BOOLEAN
    BY <1>4 DEF OpenDownload
  <2>2. src' \in [InitThreads -> {"absent", "partial", "corrupt", "good"}]
    BY <1>4 DEF OpenDownload, Damaged
  <2>3. zip' = "partial" /\ dlPc' = "copying"
        /\ UNCHANGED <<dlId, queue, pc>> /\ OnlyReceiver
    BY <1>4 DEF OpenDownload
  <2> QED BY <2>1, <2>2, <2>3 DEF OnlyReceiver
<1>5. CASE OpenFails
  BY <1>5 DEF OpenFails, OnlyReceiver
<1>6. ASSUME NEW result \in {"corrupt", "good"}, CopyEnds(result)
      PROVE  TypeOK'
  BY <1>6 DEF CopyEnds, OnlyReceiver
<1>7. CASE CopyFails
  BY <1>7 DEF CopyFails, OnlyReceiver
<1>8. CASE Verified
  <2>1. pc' \in [Callers -> Labels]
    BY <1>8, InitPythonType DEF Verified
  <2> QED BY <1>8, <2>1 DEF Verified, OnlyReceiver
<1>9. CASE VerifyFails
  BY <1>9 DEF VerifyFails, OnlyReceiver
<1>10. CASE DiscardDownload
  <2>1. torn' \in BOOLEAN
    BY <1>10 DEF DiscardDownload
  <2>2. zip' = "absent" /\ dlPc' = "retrying"
        /\ UNCHANGED <<src, dlId, queue, pc>> /\ OnlyReceiver
    BY <1>10 DEF DiscardDownload
  <2> QED BY <2>1, <2>2 DEF OnlyReceiver
<1>11. CASE ExecuteRetry
  <2>1. queue' \in Seq(Tasks)
    BY <1>11 DEF ExecuteRetry, Tasks
  <2> QED BY <1>11, <2>1 DEF ExecuteRetry, OnlyReceiver
<1>12. CASE RemoveDownload
  <2>1. dm' \in [DownloadIds -> {"none", "running", "failed", "success"}]
    BY <1>12 DEF RemoveDownload
  <2>2. causes' \subseteq Causes
    BY <1>12 DEF RemoveDownload, Causes
  <2>3. dlPc' = "idle" /\ dlId' = 0
    BY <1>12 DEF RemoveDownload
  <2> QED BY <1>12, <2>1, <2>2, <2>3 DEF RemoveDownload
<1> QED BY <1>1, <1>2, <1>3, <1>4, <1>5, <1>6, <1>7, <1>8, <1>9, <1>10, <1>11,
           <1>12 DEF onReceive

\* Types at the start.
LEMMA TypeInit ==
  ASSUME Init
  PROVE  TypeOK
<1>1. queue \in Seq(Tasks)
  BY DEF Init
<1> QED BY <1>1 DEF Init, TypeOK, NoTask, Labels

\* Types: all actors together.
LEMMA TypeStep ==
  ASSUME TypeOK, [Next]_vars
  PROVE  TypeOK'
<1>1. CASE UNCHANGED vars
  BY <1>1 DEF TypeOK, vars, files, platform, calls, receiver, history
<1> QED BY <1>1, PlatformType, MainThreadType, DoInBackgroundType,
           DownloadAssetsType, CreationThreadType, OnReceiveType DEF Next

\* Every variable keeps its type in every reachable state.
THEOREM TypeCorrect == Spec => []TypeOK
BY TypeInit, TypeStep, PTL DEF Spec

-----------------------------------------------------------------------------
(* The damaged archive: ZipIntegrity is inductive as it stands.            *)

LEMMA ZipIntegrityStep ==
  ASSUME TypeOK, ZipIntegrity, [Next]_vars
  PROVE  ZipIntegrity'
<1> USE DEF ZipIntegrity, DlWriting, files, receiver, history
<1>1. CASE UNCHANGED vars
  BY <1>1 DEF vars
<1>2. CASE Die
  BY <1>2 DEF Die
<1>3. CASE Platform \/ MainThread \/ doInBackground
  BY <1>2, <1>3 DEF Platform, onCreate, Kill, Finish, MainThread,
     onServiceConnected, enroll, EnrolmentCanceled, ScanResult, WriteSettings,
     EnrolmentFailed, doInBackground
<1>4. ASSUME NEW t \in Callers, downloadAssets(t)
      PROVE  ZipIntegrity'
  BY <1>2, <1>4 DEF downloadAssets, NoSettings, HashFails, AssignRef, enqueue
<1>5. ASSUME NEW t \in InitThreads, CreationThread(t)
      PROVE  ZipIntegrity'
  BY <1>2, <1>5 DEF CreationThread, DeleteTree, Unzipped, UnzipFails,
     DiscardUnreadable, MoveConfig, initializePython, InterpreterCrash
<1>6. CASE onReceive
  <2> USE DEF OnlyReceiver
  <2>1. ASSUME NEW i \in DownloadIds,
               ReceiveForeign(i) \/ ReceiveFailed(i) \/ ReceiveSuccess(i)
        PROVE  ZipIntegrity'
    BY <2>1 DEF ReceiveForeign, ReceiveFailed, ReceiveSuccess
  <2>2. CASE OpenDownload \/ OpenFails \/ CopyFails
    BY <2>2 DEF OpenDownload, OpenFails, CopyFails
  <2>3. ASSUME NEW result \in {"corrupt", "good"}, CopyEnds(result)
        PROVE  ZipIntegrity'
    BY <2>3 DEF CopyEnds
  <2>4. CASE Verified \/ VerifyFails
    BY <2>4 DEF Verified, VerifyFails, DigestMatches
  <2>5. CASE DiscardDownload \/ ExecuteRetry \/ RemoveDownload
    BY <2>5 DEF DiscardDownload, ExecuteRetry, RemoveDownload
  <2> QED BY <1>6, <2>1, <2>2, <2>3, <2>4, <2>5 DEF onReceive
<1> QED BY <1>1, <1>3, <1>4, <1>5, <1>6 DEF Next

\* A damaged assets.zip only ever exists while the receiver is still to judge
\* or delete it, or because a process died writing it.
THEOREM ZipIntegrityHolds == Spec => []ZipIntegrity
<1>1. Init => ZipIntegrity
  BY DEF Init, ZipIntegrity
<1> QED BY <1>1, TypeCorrect, ZipIntegrityStep, PTL DEF Spec

-----------------------------------------------------------------------------
(* The refinement: with ZipIntegrity, every step is one of VerifiedArchive's *)
(* or leaves the archive's state as it is.                                 *)

\* A process that dies leaves the archive as it is, and nobody writes it.
LEMMA DieRefines ==
  ASSUME TypeOK, ZipIntegrity, Die
  PROVE  [Archive!Next]_archiveState
BY DEF Die, TypeOK, ZipIntegrity, archiveState, Archive!Next, Archive!Die, files,
       DlWriting

\* A step of the bootstrap is one of VerifiedArchive or leaves its state alone:
\* only the check of the digest makes a suspect archive a good one.
LEMMA ArchiveStep ==
  ASSUME TypeOK, ZipIntegrity, [Next]_vars
  PROVE  [Archive!Next]_archiveState
<1> DEFINE Goal == [Archive!Next]_archiveState
<1> USE DEF files, receiver, history
<1>0. ASSUME UNCHANGED <<zip, dlPc, torn>>
      PROVE  Goal
  BY <1>0 DEF archiveState
<1>6. ASSUME UNCHANGED <<zip, torn>>, dlPc \notin DlWriting, dlPc' \notin DlWriting
      PROVE  Goal
  BY <1>6 DEF archiveState
<1>1. CASE UNCHANGED vars
  BY <1>0, <1>1 DEF vars
<1>2. CASE Platform \/ MainThread \/ doInBackground
  BY <1>0, <1>2, DieRefines DEF Platform, onCreate, Kill, Finish, MainThread,
     onServiceConnected, enroll, EnrolmentCanceled, ScanResult, WriteSettings,
     EnrolmentFailed, doInBackground
<1>3. ASSUME NEW t \in Callers, downloadAssets(t)
      PROVE  Goal
  BY <1>0, <1>3, DieRefines DEF downloadAssets, NoSettings, HashFails, AssignRef, enqueue
<1>4. ASSUME NEW t \in InitThreads, CreationThread(t)
      PROVE  Goal
  <2>1. CASE DiscardUnreadable(t)
    BY <2>1 DEF DiscardUnreadable, archiveState, Archive!Next, Archive!Discard
  <2> QED BY <1>0, <1>4, <2>1, DieRefines DEF CreationThread, DeleteTree, Unzipped,
       UnzipFails, MoveConfig, initializePython, InterpreterCrash
<1>5. CASE onReceive
  <2> USE DEF OnlyReceiver, DlWriting, archiveState, Archive!Next
  <2>1. ASSUME NEW i \in DownloadIds,
               ReceiveForeign(i) \/ ReceiveFailed(i) \/ ReceiveSuccess(i)
        PROVE  Goal
    <3>1. UNCHANGED <<zip, torn>> /\ dlPc \notin DlWriting /\ dlPc' \notin DlWriting
      BY <2>1 DEF ReceiveForeign, ReceiveFailed, ReceiveSuccess
    <3> QED BY <1>6, <3>1
  <2>2. CASE OpenDownload
    BY <2>2 DEF OpenDownload, Archive!Write
  <2>3. CASE OpenFails
    BY <2>3 DEF OpenFails, Archive!Write, TypeOK
  <2>4. ASSUME NEW result \in {"corrupt", "good"}, CopyEnds(result)
        PROVE  Goal
    BY <2>4 DEF CopyEnds
  <2>5. CASE CopyFails \/ VerifyFails
    BY <2>5 DEF CopyFails, VerifyFails
  <2>6. CASE Verified
    BY <2>6 DEF Verified, DigestMatches, Archive!Accept
  <2>7. CASE DiscardDownload
    BY <2>7 DEF DiscardDownload, Archive!Discard
  <2>8. CASE ExecuteRetry \/ RemoveDownload
    <3>1. UNCHANGED <<zip, torn>> /\ dlPc \notin DlWriting /\ dlPc' \notin DlWriting
      BY <2>8 DEF ExecuteRetry, RemoveDownload
    <3> QED BY <1>6, <3>1
  <2> QED BY <1>5, <2>1, <2>2, <2>3, <2>4, <2>5, <2>6, <2>7, <2>8 DEF onReceive
<1> QED BY <1>1, <1>2, <1>3, <1>4, <1>5 DEF Next

\* However downloads, retries and process deaths interleave, assets.zip is an
\* archive that is verified before it is trusted.
THEOREM ImplementsVerifiedArchiveHolds == Spec => ImplementsVerifiedArchive
<1>1. Init => Archive!Init
  BY DEF Init, Archive!Init, archiveState
<1> QED BY <1>1, ArchiveStep, TypeCorrect, ZipIntegrityHolds, PTL
        DEF Spec, Archive!Spec, ImplementsVerifiedArchive

-----------------------------------------------------------------------------
(* The digest of If-None-Match: until the first download of a process is   *)
(* begun nothing in it can delete the archive onCreate saw.                *)

\* Nothing has been begun in this process but onCreate's one task.
Fresh ==
  roots = 0 =>
    /\ downloadRef = 0 /\ dlPc = "idle"
    /\ \A t \in Callers : ref[t] = 0 /\ pc[t] # "enqueued"
    /\ \A t \in InitThreads : pc[t] = "idle"
    /\ queue = <<>> \/ queue = <<"create">> \/ queue = <<"createWithZip">>
    /\ task # "retry"
    /\ queue = <<"createWithZip">> \/ task = "createWithZip" => zip # "absent"

\* While the process has begun no download, nothing has touched the archive.
LEMMA FreshStep ==
  ASSUME TypeOK, Fresh, [Next]_vars
  PROVE  Fresh'
<1> USE DEF Fresh, files, receiver, history, platform, calls, Goto
<1>1. CASE UNCHANGED vars
  BY <1>1 DEF vars
<1>2. CASE Die
  BY <1>2 DEF Die, Callers, NoTask
<1>3. CASE Platform
  BY <1>2, <1>3 DEF Platform, onCreate, Kill, Finish
<1>4. CASE MainThread
  <2>1. UNCHANGED <<roots, downloadRef, dlPc, ref, queue, task, zip>>
    BY <1>4 DEF MainThread, onServiceConnected, enroll, EnrolmentCanceled, ResultArrives,
       ScanResult, WriteSettings, EnrolmentFailed
  <2>2. pc' = pc \/ \E v \in {"writing", "calling", "idle"} : pc' = [pc EXCEPT !["main"] = v]
    BY <1>4 DEF MainThread, onServiceConnected, enroll, EnrolmentCanceled, ResultArrives,
       ScanResult, WriteSettings, EnrolmentFailed
  <2>3. pc \in [Callers -> Labels]
    BY DEF TypeOK
  <2>4. ASSUME NEW t \in Callers, pc[t] # "enqueued"
        PROVE  pc'[t] # "enqueued"
    BY <2>2, <2>3, <2>4
  <2>5. ASSUME NEW t \in InitThreads, pc[t] = "idle"
        PROVE  pc'[t] = "idle"
    BY <2>2, <2>3, <2>5, ThreadsAssumption DEF Callers
  <2> QED BY <2>1, <2>4, <2>5
<1>5. CASE doInBackground
  BY <1>5, ThreadsAssumption DEF doInBackground, Callers, TypeOK
<1>6. ASSUME NEW t \in Callers, downloadAssets(t)
      PROVE  Fresh'
  <2>1. CASE NoSettings(t)
    BY <1>6, <2>1 DEF NoSettings, TaskAfter, TypeOK, NoTask, Callers
  <2>2. CASE HashFails(t)
    BY <1>2, <2>2 DEF HashFails
  <2>3. CASE AssignRef(t)
    BY <1>6, <2>3 DEF AssignRef
  <2>4. ASSUME NEW i \in DownloadIds, enqueue(t, i), roots' = 0
        PROVE  FALSE
    <3>1. roots = 0 /\ Roots(t) = 0
      BY <2>4 DEF enqueue, Roots, TypeOK
    <3>2. t = "async" /\ task # "retry"
      BY <1>6, <2>4, <3>1 DEF Callers, Roots, enqueue
    <3> QED BY <3>1, <3>2 DEF Roots
  <2> QED BY <1>6, <2>1, <2>2, <2>3, <2>4 DEF downloadAssets
<1>7. ASSUME NEW t \in InitThreads, CreationThread(t)
      PROVE  Fresh'
  <2>1. CASE InterpreterCrash(t)
    BY <1>2, <2>1 DEF InterpreterCrash
  <2>2. CASE ~InterpreterCrash(t)
    <3>1. roots # 0 /\ roots' = roots
      BY <1>7, <2>2 DEF CreationThread, DeleteTree, Unzipped, UnzipFails,
         DiscardUnreadable, MoveConfig, initializePython
    <3> QED BY <3>1
  <2> QED BY <2>1, <2>2
<1>8. CASE onReceive
  <2>1. ASSUME NEW i \in DownloadIds, ReceiveForeign(i)
        PROVE  Fresh'
    BY <2>1 DEF ReceiveForeign
  <2>2. CASE \A i \in DownloadIds : ~ReceiveForeign(i)
    <3>1. roots # 0 /\ roots' = roots
      BY <1>8, <2>2, IdsAssumption DEF onReceive, ReceiveFailed, ReceiveSuccess,
         OpenDownload, OpenFails, CopyEnds, CopyFails, Verified, VerifyFails,
         DiscardDownload, ExecuteRetry, RemoveDownload, OnlyReceiver
    <3> QED BY <3>1
  <2> QED BY <2>1, <2>2
<1> QED BY <1>1, <1>3, <1>4, <1>5, <1>6, <1>7, <1>8 DEF Next

\* onCreate's DownloadAssetsTask never dies of a missing archive: it was there
\* when the task was created and nothing has deleted it since.
THEOREM HeaderHasArchiveHolds == Spec => []HeaderHasArchive
<1>1. Init => Fresh
  <2> SUFFICES ASSUME Init PROVE Fresh
    OBVIOUS
  <2>1. queue = <<>> /\ queue # <<"createWithZip">>
    BY Len(<<>>) = 0, Len(<<"createWithZip">>) = 1 DEF Init
  <2>2. task # "retry" /\ task # "createWithZip"
    BY DEF Init, NoTask
  <2>3. /\ downloadRef = 0 /\ dlPc = "idle"
        /\ \A t \in Callers : ref[t] = 0 /\ pc[t] # "enqueued"
        /\ \A t \in InitThreads : pc[t] = "idle"
    BY DEF Init, Callers
  <2> QED BY <2>1, <2>2, <2>3 DEF Fresh
<1>2. Fresh => HeaderHasArchive
  BY DEF Fresh, HeaderHasArchive
<1> QED BY <1>1, <1>2, TypeCorrect, FreshStep, PTL DEF Spec

-----------------------------------------------------------------------------
(* The retries never multiply.  Whatever keeps the way to Python going is  *)
(* counted, and so is a Python that runs, which a download spent itself on. *)

Started == IF isPythonInitialized THEN 1 ELSE 0

Counted == IsFiniteSet(LiveDownloads) /\ IsFiniteSet(ActiveInits)

Chain == Counted /\ Tokens + Started <= roots

\* A set that at most loses, gains one element, loses one.
LEMMA NoMore ==
  ASSUME NEW S, NEW T, IsFiniteSet(S), T \subseteq S
  PROVE  IsFiniteSet(T) /\ Number(T) \in Nat /\ Number(S) \in Nat /\ Number(T) <= Number(S)
BY FS_Subset, FS_CardinalityType DEF Number

\* A set that one element enters has at most one more.
LEMMA OneMore ==
  ASSUME NEW S, NEW T, NEW x, IsFiniteSet(S), T \subseteq S \cup {x}
  PROVE  IsFiniteSet(T) /\ Number(T) \in Nat /\ Number(S) \in Nat /\ Number(T) <= Number(S) + 1
<1>1. /\ IsFiniteSet(S \cup {x}) /\ Number(S) \in Nat
      /\ Number(S \cup {x}) = IF x \in S THEN Number(S) ELSE Number(S) + 1
  BY FS_AddElement, FS_CardinalityType DEF Number
<1>2. IsFiniteSet(T) /\ Number(T) \in Nat /\ Number(T) <= Number(S \cup {x})
  BY <1>1, NoMore
<1> QED BY <1>1, <1>2

\* A set that an element leaves has at least one less.
LEMMA OneLess ==
  ASSUME NEW S, NEW T, NEW x \in S, IsFiniteSet(S), T \subseteq S \ {x}
  PROVE  IsFiniteSet(T) /\ Number(T) \in Nat /\ Number(S) \in Nat /\ Number(T) <= Number(S) - 1
<1>1. /\ IsFiniteSet(S \ {x}) /\ Number(S) \in Nat
      /\ Number(S \ {x}) = Number(S) - 1
  BY FS_RemoveElement, FS_CardinalityType DEF Number
<1>2. IsFiniteSet(T) /\ Number(T) \in Nat /\ Number(T) <= Number(S \ {x})
  BY <1>1, NoMore
<1> QED BY <1>1, <1>2

\* A queue holds finitely many retries.
LEMMA RetriesFinite ==
  ASSUME NEW q \in Seq(Tasks)
  PROVE  IsFiniteSet({k \in 1..Len(q) : q[k] = "retry"})
BY FS_Interval, FS_Subset

\* What a step does to each of the five, and to the downloads begun.
LEMMA Balance ==
  ASSUME TypeOK, Chain, roots' \in Nat,
         NEW dLive \in Int, NEW dRetries \in Int, NEW dRuns \in Int, NEW dWorks \in Int,
         NEW dInits \in Int, NEW dStarted \in Int,
         IsFiniteSet(LiveDownloads') /\ IsFiniteSet(ActiveInits'),
         Number(LiveDownloads') <= Number(LiveDownloads) + dLive,
         Number(Retries') <= Number(Retries) + dRetries,
         Number(Retries') \in Nat,
         RetryRuns' <= RetryRuns + dRuns,
         ReceiverWorks' <= ReceiverWorks + dWorks,
         Number(ActiveInits') <= Number(ActiveInits) + dInits,
         Started' <= Started + dStarted,
         dLive + dRetries + dRuns + dWorks + dInits + dStarted <= roots' - roots
  PROVE  Chain'
<1>1. /\ Number(LiveDownloads) \in Nat /\ Number(LiveDownloads') \in Nat
      /\ Number(ActiveInits) \in Nat /\ Number(ActiveInits') \in Nat
  BY FS_CardinalityType DEF Chain, Counted, Number
<1>2. Number(Retries) \in Nat
  BY RetriesFinite, FS_CardinalityType DEF TypeOK, Retries, Number
<1>3. /\ RetryRuns \in Int /\ RetryRuns' \in Int /\ ReceiverWorks \in Int
      /\ ReceiverWorks' \in Int /\ Started \in Int /\ Started' \in Int
  BY DEF RetryRuns, ReceiverWorks, Started
<1>4. roots \in Nat
  BY DEF TypeOK
<1> DEFINE live == Number(LiveDownloads)    live2 == Number(LiveDownloads')
           rest == Number(Retries)          rest2 == Number(Retries')
           runs == RetryRuns                runs2 == RetryRuns'
           works == ReceiverWorks           works2 == ReceiverWorks'
           inits == Number(ActiveInits)     inits2 == Number(ActiveInits')
           up == Started                    up2 == Started'
           r == roots                       r2 == roots'
<1>5. /\ live \in Int /\ live2 \in Int /\ rest \in Int /\ rest2 \in Int
      /\ runs \in Int /\ runs2 \in Int /\ works \in Int /\ works2 \in Int
      /\ inits \in Int /\ inits2 \in Int /\ up \in Int /\ up2 \in Int
      /\ r \in Int /\ r2 \in Int
  BY <1>1, <1>2, <1>3, <1>4
<1>6. /\ live2 <= live + dLive /\ rest2 <= rest + dRetries /\ runs2 <= runs + dRuns
      /\ works2 <= works + dWorks /\ inits2 <= inits + dInits /\ up2 <= up + dStarted
      /\ dLive + dRetries + dRuns + dWorks + dInits + dStarted <= r2 - r
  OBVIOUS
<1>7. live + rest + runs + works + inits + up <= r
  BY DEF Chain, Tokens
<1>8. live2 + rest2 + runs2 + works2 + inits2 + up2 <= r2
  <2> HIDE DEF live, live2, rest, rest2, runs, runs2, works, works2, inits, inits2, up, up2, r, r2
  <2> QED BY <1>5, <1>6, <1>7
<1>9. Tokens' + Started' <= roots'
  BY <1>8 DEF Tokens
<1> QED BY <1>9 DEF Chain, Counted

\* Most steps begin nothing.
LEMMA Dwindles ==
  ASSUME TypeOK, Chain,
         LiveDownloads' \subseteq LiveDownloads, Retries' \subseteq Retries,
         RetryRuns' <= RetryRuns, ReceiverWorks' <= ReceiverWorks,
         ActiveInits' \subseteq ActiveInits, Started' <= Started, roots' = roots
  PROVE  Chain'
<1>1. IsFiniteSet(LiveDownloads') /\ Number(LiveDownloads') <= Number(LiveDownloads) + 0
  BY NoMore DEF Chain, Counted
<1>2. IsFiniteSet(ActiveInits') /\ Number(ActiveInits') <= Number(ActiveInits) + 0
  BY NoMore DEF Chain, Counted
<1>3. Number(Retries') \in Nat /\ Number(Retries') <= Number(Retries) + 0
  <2>1. IsFiniteSet(Retries)
    BY RetriesFinite DEF TypeOK, Retries
  <2> QED BY <2>1, NoMore
<1>4. /\ RetryRuns' <= RetryRuns + 0 /\ ReceiverWorks' <= ReceiverWorks + 0
      /\ Started' <= Started + 0 /\ 0 + 0 + 0 + 0 + 0 + 0 <= roots' - roots
      /\ roots' \in Nat
  BY DEF TypeOK, RetryRuns, ReceiverWorks, Started
<1> QED BY <1>1, <1>2, <1>3, <1>4, Balance

\* Tokens: a death leaves none in the process.
LEMMA DieChain ==
  ASSUME TypeOK, Die
  PROVE  Chain'
<1>1. LiveDownloads' = {}
  BY IdsAssumption DEF Die, LiveDownloads
<1>2. Retries' = {}
  BY DEF Die, Retries
<1>3. ActiveInits' = {}
  BY DEF Die, ActiveInits, InitBusy, Callers
<1>4. RetryRuns' = 0 /\ ReceiverWorks' = 0 /\ Started' = 0 /\ roots' = 0
  BY DEF Die, RetryRuns, NoTask, ReceiverWorks, DlBusy, DlWriting, Started
<1>5. IsFiniteSet({}) /\ Number({}) = 0
  BY FS_EmptySet DEF Number
<1> QED BY <1>1, <1>2, <1>3, <1>4, <1>5 DEF Chain, Counted, Tokens

\* Tokens: the platform adds none, for a download that ended still counts
\* until the receiver takes it.
LEMMA PlatformChain ==
  ASSUME TypeOK, Chain, Platform
  PROVE  Chain'
<1> USE DEF LiveDownloads, RetryRuns, ReceiverWorks, ActiveInits, Started
<1>1. CASE onCreate
  <2>1. Retries' \subseteq Retries
    BY <1>1 DEF onCreate, Retries
  <2>2. /\ LiveDownloads' \subseteq LiveDownloads /\ ActiveInits' \subseteq ActiveInits
        /\ RetryRuns' <= RetryRuns /\ ReceiverWorks' <= ReceiverWorks
        /\ Started' <= Started /\ roots' = roots
    BY <1>1 DEF onCreate, receiver, history
  <2> QED BY <2>1, <2>2, Dwindles
<1>2. CASE Kill
  BY <1>2, DieChain DEF Kill
<1>3. ASSUME NEW i \in DownloadIds, NEW status \in {"failed", "success"}, Finish(i, status)
      PROVE  Chain'
  <2>1. LiveDownloads' \subseteq LiveDownloads
    BY <1>3 DEF Finish, TypeOK, calls
  <2>2. /\ Retries' \subseteq Retries /\ ActiveInits' \subseteq ActiveInits
        /\ RetryRuns' <= RetryRuns /\ ReceiverWorks' <= ReceiverWorks
        /\ Started' <= Started /\ roots' = roots
    BY <1>3 DEF Finish, calls, receiver, history, Retries
  <2> QED BY <2>1, <2>2, Dwindles
<1> QED BY <1>1, <1>2, <1>3 DEF Platform

\* Tokens: a callback adds none; what it begins counts once it downloads.
LEMMA MainThreadChain ==
  ASSUME TypeOK, Chain, MainThread
  PROVE  Chain'
<1> USE DEF LiveDownloads, RetryRuns, ReceiverWorks, ActiveInits, Started, Retries
<1>1. /\ UNCHANGED <<dm, announced, downloadRef, queue, task, ref, receiver,
                     isPythonInitialized, roots>>
      /\ \A t \in Callers \ {"main"} : pc'[t] = pc[t]
  BY DEF MainThread, onServiceConnected, enroll, EnrolmentCanceled, ScanResult, WriteSettings,
     EnrolmentFailed, ResultArrives, Goto, platform, calls, history, TypeOK
<1>2. pc'["async"] = pc["async"] /\ \A t \in InitThreads : pc'[t] = pc[t]
  BY <1>1, ThreadsAssumption DEF Callers
<1>3. LiveDownloads' \subseteq LiveDownloads /\ ActiveInits' \subseteq ActiveInits
  BY <1>1, <1>2
<1>4. /\ Retries' \subseteq Retries /\ RetryRuns' <= RetryRuns
      /\ ReceiverWorks' <= ReceiverWorks /\ Started' <= Started /\ roots' = roots
  BY <1>1, <1>2 DEF receiver
<1> QED BY <1>3, <1>4, Dwindles

\* The executor takes a retry from the queue and runs it.
LEMMA DoInBackgroundChain ==
  ASSUME TypeOK, Chain, doInBackground
  PROVE  Chain'
<1>1. /\ queue \in Seq(Tasks) /\ queue # <<>> /\ queue' = Tail(queue) /\ task' = Head(queue)
      /\ pc["async"] = "idle" /\ pc' = [pc EXCEPT !["async"] = "calling"]
      /\ UNCHANGED <<dm, announced, downloadRef, ref, dlPc, isPythonInitialized, roots>>
  BY DEF doInBackground, Goto, TypeOK, platform, receiver, history
<1>2. LiveDownloads' \subseteq LiveDownloads /\ ActiveInits' \subseteq ActiveInits
  BY <1>1, ThreadsAssumption DEF LiveDownloads, ActiveInits, TypeOK, Callers
<1>3. /\ ReceiverWorks' <= ReceiverWorks + 0 /\ Started' <= Started + 0
      /\ RetryRuns = 0 /\ RetryRuns' = IF Head(queue) = "retry" THEN 1 ELSE 0
  BY <1>1 DEF ReceiverWorks, Started, RetryRuns, TypeOK, Callers
<1>4. /\ Number(Retries') \in Nat
      /\ Number(Retries') <= Number(Retries) - RetryRuns'
  <2> DEFINE f == [k \in Retries' |-> k + 1]
             R == IF Head(queue) = "retry" THEN Retries \ {1} ELSE Retries
  <2>1. IsFiniteSet(Retries)
    BY <1>1, RetriesFinite DEF Retries
  <2>2. IsFiniteSet(R) /\ Number(Retries) \in Nat /\ Number(R) = Number(Retries) - RetryRuns'
    <3>1. Head(queue) = "retry" => 1 \in Retries
      BY <1>1 DEF Retries
    <3> QED BY <1>3, <2>1, <3>1, FS_RemoveElement, FS_CardinalityType DEF Number
  <2>3. f \in Injection(Retries', R)
    <3>1. ASSUME NEW k \in Retries' PROVE k + 1 \in R
      BY <1>1 DEF Retries
    <3>2. \A k, l \in Retries' : k + 1 = l + 1 => k = l
      BY DEF Retries
    <3> QED BY <3>1, <3>2 DEF Injection, IsInjective
  <2>4. IsFiniteSet(Retries') /\ Number(Retries') <= Number(R)
    BY <2>2, <2>3, FS_Injection DEF Number
  <2> QED BY <2>2, <2>4, FS_CardinalityType DEF Number
<1>5. IsFiniteSet(LiveDownloads') /\ Number(LiveDownloads') <= Number(LiveDownloads) + 0
  BY <1>2, NoMore DEF Chain, Counted
<1>6. IsFiniteSet(ActiveInits') /\ Number(ActiveInits') <= Number(ActiveInits) + 0
  BY <1>2, NoMore DEF Chain, Counted
<1>7. RetryRuns' \in Int /\ roots \in Nat /\ roots' = roots
  BY <1>1, <1>3 DEF TypeOK
<1>8. /\ Number(Retries') <= Number(Retries) + (0 - RetryRuns')
      /\ RetryRuns' <= RetryRuns + RetryRuns'
      /\ 0 + (0 - RetryRuns') + RetryRuns' + 0 + 0 + 0 <= roots' - roots
  BY <1>3, <1>4, <1>7, RetriesFinite, FS_CardinalityType DEF TypeOK, Retries, Number
<1> QED BY <1>3, <1>4, <1>5, <1>6, <1>7, <1>8, Balance

\* A download costs the retry or the creation thread that asks for it, or is
\* one begun by onCreate or a scan.
LEMMA EnqueueChain ==
  ASSUME TypeOK, Chain, NEW t \in Callers, NEW i \in DownloadIds, enqueue(t, i)
  PROVE  Chain'
<1>1. /\ pc[t] = "calling" /\ pc' = [pc EXCEPT ![t] = "enqueued"]
      /\ dm' = [dm EXCEPT ![i] = "running"] /\ ref' = [ref EXCEPT ![t] = i]
      /\ roots' = roots + Roots(t)
      /\ UNCHANGED <<announced, downloadRef, queue, task, dlPc, isPythonInitialized>>
  BY DEF enqueue, Goto, receiver
<1> DEFINE dRuns  == IF t = "async" /\ task = "retry" THEN -1 ELSE 0
           dInits == IF t \in InitThreads THEN -1 ELSE 0
<1>2. LiveDownloads' \subseteq LiveDownloads \cup {i}
  BY <1>1 DEF LiveDownloads, TypeOK
<1>3. IsFiniteSet(LiveDownloads') /\ Number(LiveDownloads') <= Number(LiveDownloads) + 1
  BY <1>2, OneMore DEF Chain, Counted
<1>4. IsFiniteSet(ActiveInits') /\ Number(ActiveInits') <= Number(ActiveInits) + dInits
  <2>1. CASE t \in InitThreads
    <3>1. ActiveInits' \subseteq ActiveInits \ {t} /\ t \in ActiveInits
      BY <1>1, <2>1 DEF ActiveInits, TypeOK, InitBusy, Callers
    <3>2. IsFiniteSet(ActiveInits') /\ Number(ActiveInits') <= Number(ActiveInits) - 1
          /\ Number(ActiveInits) \in Nat
      BY <3>1, OneLess DEF Chain, Counted
    <3> QED BY <2>1, <3>2
  <2>2. CASE t \notin InitThreads
    <3>1. ActiveInits' \subseteq ActiveInits
      BY <1>1, <2>2 DEF ActiveInits, TypeOK, InitBusy, Callers
    <3> QED BY <2>2, <3>1, NoMore DEF Chain, Counted
  <2> QED BY <2>1, <2>2
<1>5. RetryRuns' <= RetryRuns + dRuns
  BY <1>1 DEF RetryRuns, TypeOK, Callers
<1>6. /\ Number(Retries') \in Nat /\ Number(Retries') <= Number(Retries) + 0
      /\ ReceiverWorks' <= ReceiverWorks + 0 /\ Started' <= Started + 0
  BY <1>1, NoMore, RetriesFinite DEF TypeOK, Retries, ReceiverWorks, Started
<1>7. 1 + 0 + dRuns + 0 + dInits + 0 <= roots' - roots /\ roots' \in Nat
  BY <1>1, ThreadsAssumption DEF Roots, Callers, TypeOK
<1>8. dRuns \in Int /\ dInits \in Int
  OBVIOUS
<1> HIDE DEF dRuns, dInits
<1> QED BY <1>3, <1>4, <1>5, <1>6, <1>7, <1>8, Balance

\* Tokens: a download for a retry spends the retry, any other one is a root.
LEMMA DownloadAssetsChain ==
  ASSUME TypeOK, Chain, NEW t \in Callers, downloadAssets(t)
  PROVE  Chain'
<1> USE DEF LiveDownloads, Retries, ReceiverWorks, ActiveInits, Started, TypeOK, Goto,
        platform, receiver, history
<1>1. CASE NoSettings(t)
  <2>1. LiveDownloads' \subseteq LiveDownloads /\ Retries' \subseteq Retries
    BY <1>1 DEF NoSettings
  <2>2. ActiveInits' \subseteq ActiveInits
    BY <1>1 DEF NoSettings, InitBusy, Callers
  <2>3. RetryRuns' <= RetryRuns
    BY <1>1 DEF NoSettings, RetryRuns, TaskAfter, Callers, NoTask
  <2>4. ReceiverWorks' <= ReceiverWorks /\ Started' <= Started /\ roots' = roots
    BY <1>1 DEF NoSettings
  <2> QED BY <2>1, <2>2, <2>3, <2>4, Dwindles
<1>2. CASE HashFails(t)
  BY <1>2, DieChain DEF HashFails
<1>3. CASE AssignRef(t)
  <2>1. LiveDownloads' \subseteq LiveDownloads /\ Retries' \subseteq Retries
    BY <1>3, IdsAssumption DEF AssignRef
  <2>2. ActiveInits' \subseteq ActiveInits
    BY <1>3 DEF AssignRef, InitBusy, Callers
  <2>3. RetryRuns' <= RetryRuns
    BY <1>3 DEF AssignRef, RetryRuns, TaskAfter, Callers, NoTask
  <2>4. ReceiverWorks' <= ReceiverWorks /\ Started' <= Started /\ roots' = roots
    BY <1>3 DEF AssignRef
  <2> QED BY <2>1, <2>2, <2>3, <2>4, Dwindles
<1> QED BY <1>1, <1>2, <1>3, EnqueueChain DEF downloadAssets

\* A creation thread ends in a call of downloadAssets, or in a running Python.
LEMMA CreationThreadChain ==
  ASSUME TypeOK, Chain, NEW t \in InitThreads, CreationThread(t)
  PROVE  Chain'
<1>1. CASE InterpreterCrash(t)
  BY <1>1, DieChain DEF InterpreterCrash
<1>2. ASSUME NEW ok \in BOOLEAN, initializePython(t, ok)
      PROVE  Chain'
  <2>1. /\ pc[t] = "initializing" /\ pc' = [pc EXCEPT ![t] = "idle"]
        /\ UNCHANGED <<dm, announced, downloadRef, queue, task, ref, dlPc, roots>>
    BY <1>2 DEF initializePython, Goto, platform, receiver
  <2>2. ActiveInits' \subseteq ActiveInits \ {t} /\ t \in ActiveInits
    BY <2>1 DEF ActiveInits, TypeOK, InitBusy, Callers
  <2>3. IsFiniteSet(ActiveInits') /\ Number(ActiveInits') <= Number(ActiveInits) + (-1)
    BY <2>2, OneLess DEF Chain, Counted
  <2>4. LiveDownloads' \subseteq LiveDownloads
    BY <2>1 DEF LiveDownloads
  <2>5. IsFiniteSet(LiveDownloads') /\ Number(LiveDownloads') <= Number(LiveDownloads) + 0
    BY <2>4, NoMore DEF Chain, Counted
  <2>6. Number(Retries') \in Nat /\ Number(Retries') <= Number(Retries) + 0
    BY <2>1, NoMore, RetriesFinite DEF TypeOK, Retries
  <2>7. /\ RetryRuns' <= RetryRuns + 0 /\ ReceiverWorks' <= ReceiverWorks + 0
        /\ Started' <= Started + 1
        /\ 0 + 0 + 0 + 0 + (-1) + 1 <= roots' - roots /\ roots' \in Nat
    BY <2>1, ThreadsAssumption DEF TypeOK, RetryRuns, ReceiverWorks, Started
  <2> QED BY <2>3, <2>5, <2>6, <2>7, Balance
<1>3. ASSUME DeleteTree(t) \/ Unzipped(t) \/ UnzipFails(t) \/ DiscardUnreadable(t)
               \/ \E moved \in BOOLEAN : MoveConfig(t, moved)
      PROVE  Chain'
  <2>1. /\ pc[t] \in InitBusy
        /\ \E label \in InitBusy \cup {"calling"} : pc' = [pc EXCEPT ![t] = label]
        /\ UNCHANGED <<dm, announced, downloadRef, queue, task, ref, dlPc,
                       isPythonInitialized, roots>>
    BY <1>3 DEF DeleteTree, Unzipped, UnzipFails, DiscardUnreadable, MoveConfig, Goto,
       InitBusy, platform, receiver, history
  <2>2. LiveDownloads' \subseteq LiveDownloads /\ Retries' \subseteq Retries
    BY <2>1 DEF LiveDownloads, Retries
  <2>3. ActiveInits' \subseteq ActiveInits
    BY <2>1 DEF ActiveInits, TypeOK
  <2>4. /\ RetryRuns' <= RetryRuns /\ ReceiverWorks' <= ReceiverWorks /\ Started' <= Started
        /\ roots' = roots
    BY <2>1, ThreadsAssumption DEF TypeOK, RetryRuns, ReceiverWorks, Started
  <2> QED BY <2>2, <2>3, <2>4, Dwindles
<1> QED BY <1>1, <1>2, <1>3 DEF CreationThread

\* The receiver takes a download that has ended, or starts a creation thread
\* when it is done, or asks for a retry.
LEMMA OnReceiveChain ==
  ASSUME TypeOK, Chain, onReceive
  PROVE  Chain'
<1> DEFINE Others == UNCHANGED <<task, ref, isPythonInitialized, roots>>
<1>1. ASSUME NEW i \in DownloadIds, ReceiveForeign(i)
      PROVE  Chain'
  <2>1. /\ UNCHANGED <<dm, downloadRef, queue, pc, dlPc>> /\ Others
        /\ announced' \subseteq announced
    BY <1>1 DEF ReceiveForeign, calls, receiver
  <2> QED BY <2>1, Dwindles DEF LiveDownloads, Retries, RetryRuns, ReceiverWorks, ActiveInits,
       Started, TypeOK
<1>2. ASSUME NEW i \in DownloadIds, ReceiveFailed(i) \/ ReceiveSuccess(i)
      PROVE  Chain'
  <2>1. /\ i \in LiveDownloads /\ LiveDownloads' \subseteq LiveDownloads \ {i}
        /\ UNCHANGED <<dm, downloadRef, queue>> /\ Others
    BY <1>2 DEF ReceiveFailed, ReceiveSuccess, LiveDownloads, calls, history
  <2>2. IsFiniteSet(LiveDownloads') /\ Number(LiveDownloads') <= Number(LiveDownloads) + (-1)
    BY <2>1, OneLess DEF Chain, Counted
  <2>3. /\ Number(Retries') \in Nat /\ Number(Retries') <= Number(Retries) + 0
        /\ Started' <= Started + 0 /\ roots' \in Nat /\ roots' = roots
    BY <2>1, NoMore, RetriesFinite DEF TypeOK, Retries, Started
  <2>4. CASE UNCHANGED pc
    <3>1. ReceiverWorks' <= ReceiverWorks + 1 /\ RetryRuns' <= RetryRuns + 0
      BY <1>2, <2>1, <2>4 DEF ReceiveFailed, ReceiveSuccess, ReceiverWorks, RetryRuns, DlBusy
    <3>2. IsFiniteSet(ActiveInits') /\ Number(ActiveInits') <= Number(ActiveInits) + 0
      BY <2>4, NoMore DEF Chain, Counted, ActiveInits
    <3>3. (-1) + 0 + 0 + 1 + 0 + 0 <= roots' - roots
      BY <2>3 DEF TypeOK
    <3> QED BY <2>2, <2>3, <3>1, <3>2, <3>3, Balance
  <2>5. ASSUME NEW t \in InitThreads, initPython(t), dlPc = "idle", dlPc' = "idle"
        PROVE  Chain'
    <3>1. ActiveInits' \subseteq ActiveInits \cup {t}
      BY <2>5 DEF initPython, Goto, ActiveInits, TypeOK
    <3>2. IsFiniteSet(ActiveInits') /\ Number(ActiveInits') <= Number(ActiveInits) + 1
      BY <3>1, OneMore DEF Chain, Counted
    <3>3. ReceiverWorks' <= ReceiverWorks + 0 /\ RetryRuns' <= RetryRuns + 0
      BY <2>1, <2>5, ThreadsAssumption DEF initPython, Goto, ReceiverWorks, RetryRuns, TypeOK,
         DlBusy, DlWriting
    <3>4. (-1) + 0 + 0 + 0 + 1 + 0 <= roots' - roots
      BY <2>3 DEF TypeOK
    <3> QED BY <2>2, <2>3, <3>2, <3>3, <3>4, Balance
  <2> QED BY <1>2, <2>4, <2>5 DEF ReceiveFailed, ReceiveSuccess, calls
<1>3. CASE Verified
  <2>1. PICK t \in InitThreads : initPython(t)
    BY <1>3 DEF Verified
  <2>2. /\ dlPc = "verifying" /\ dlPc' = "finally"
        /\ UNCHANGED <<dm, announced, downloadRef, queue>> /\ Others
    BY <1>3 DEF Verified, OnlyReceiver
  <2>3. LiveDownloads' \subseteq LiveDownloads /\ ActiveInits' \subseteq ActiveInits \cup {t}
    BY <2>1, <2>2 DEF LiveDownloads, initPython, Goto, ActiveInits, TypeOK
  <2>4. IsFiniteSet(LiveDownloads') /\ Number(LiveDownloads') <= Number(LiveDownloads) + 0
    BY <2>3, NoMore DEF Chain, Counted
  <2>5. IsFiniteSet(ActiveInits') /\ Number(ActiveInits') <= Number(ActiveInits) + 1
    BY <2>3, OneMore DEF Chain, Counted
  <2>6. Number(Retries') \in Nat /\ Number(Retries') <= Number(Retries) + 0
    BY <2>2, NoMore, RetriesFinite DEF TypeOK, Retries
  <2>7. /\ ReceiverWorks' <= ReceiverWorks + (-1) /\ RetryRuns' <= RetryRuns + 0
        /\ Started' <= Started + 0
        /\ 0 + 0 + 0 + (-1) + 1 + 0 <= roots' - roots /\ roots' \in Nat
    BY <2>1, <2>2, ThreadsAssumption DEF initPython, Goto, ReceiverWorks, RetryRuns, Started,
       TypeOK, DlBusy, DlWriting
  <2> QED BY <2>4, <2>5, <2>6, <2>7, Balance
<1>4. CASE ExecuteRetry
  <2>1. /\ dlPc \in DlBusy /\ dlPc' \notin DlBusy /\ queue' = Append(queue, "retry")
        /\ UNCHANGED <<dm, announced, downloadRef, pc>> /\ Others
    BY <1>4 DEF ExecuteRetry, OnlyReceiver, DlBusy, DlWriting
  <2>2. LiveDownloads' \subseteq LiveDownloads /\ ActiveInits' \subseteq ActiveInits
    BY <2>1 DEF LiveDownloads, ActiveInits
  <2>3. IsFiniteSet(LiveDownloads') /\ Number(LiveDownloads') <= Number(LiveDownloads) + 0
    BY <2>2, NoMore DEF Chain, Counted
  <2>4. IsFiniteSet(ActiveInits') /\ Number(ActiveInits') <= Number(ActiveInits) + 0
    BY <2>2, NoMore DEF Chain, Counted
  <2>5. Number(Retries') \in Nat /\ Number(Retries') <= Number(Retries) + 1
    <3>1. Retries' \subseteq Retries \cup {Len(queue) + 1}
      BY <2>1 DEF Retries, TypeOK
    <3>2. IsFiniteSet(Retries)
      BY RetriesFinite DEF TypeOK, Retries
    <3> QED BY <3>1, <3>2, OneMore
  <2>6. /\ ReceiverWorks' <= ReceiverWorks + (-1) /\ RetryRuns' <= RetryRuns + 0
        /\ Started' <= Started + 0
        /\ 0 + 1 + 0 + (-1) + 0 + 0 <= roots' - roots /\ roots' \in Nat
    BY <2>1 DEF ReceiverWorks, RetryRuns, Started, TypeOK
  <2> QED BY <2>3, <2>4, <2>5, <2>6, Balance
<1>5. ASSUME OpenDownload \/ OpenFails \/ CopyFails \/ VerifyFails \/ DiscardDownload
               \/ \E result \in {"corrupt", "good"} : CopyEnds(result)
      PROVE  Chain'
  <2>1. /\ dlPc \in DlBusy /\ UNCHANGED <<dm, announced, downloadRef, queue, pc>> /\ Others
    BY <1>5 DEF OpenDownload, OpenFails, CopyFails, VerifyFails, DiscardDownload, CopyEnds,
       OnlyReceiver, DlBusy, DlWriting
  <2> QED BY <2>1, Dwindles DEF LiveDownloads, Retries, RetryRuns, ReceiverWorks, ActiveInits,
       Started, TypeOK
<1>6. CASE RemoveDownload
  <2>1. /\ UNCHANGED <<announced, downloadRef, queue, pc>> /\ Others /\ dlPc' = "idle"
        /\ dm' = [dm EXCEPT ![downloadRef] = "none"]
    BY <1>6 DEF RemoveDownload, calls
  <2>2. LiveDownloads' \subseteq LiveDownloads
    BY <2>1 DEF LiveDownloads, TypeOK
  <2>3. ReceiverWorks' <= ReceiverWorks
    BY <2>1 DEF ReceiverWorks, DlBusy, DlWriting
  <2> QED BY <2>1, <2>2, <2>3, Dwindles DEF Retries, RetryRuns, ActiveInits, Started, TypeOK
<1> QED BY <1>1, <1>2, <1>3, <1>4, <1>5, <1>6 DEF onReceive

\* Tokens: no step makes two of one.
LEMMA ChainStep ==
  ASSUME TypeOK, Chain, [Next]_vars
  PROVE  Chain'
<1>1. CASE UNCHANGED vars
  BY <1>1 DEF vars, platform, calls, receiver, history, Chain, Counted, Tokens, Started,
     LiveDownloads, Retries, RetryRuns, ReceiverWorks, ActiveInits
<1> QED BY <1>1, PlatformChain, MainThreadChain, DoInBackgroundChain, DownloadAssetsChain,
           CreationThreadChain, OnReceiveChain DEF Next

\* Every step takes a token for each it adds, unless it is the download that
\* onCreate or a scan begins (EPCService.java:121-162, :318-337).
THEOREM ChainHolds == Spec => []Chain
<1>1. Init => Chain
  <2> SUFFICES ASSUME Init PROVE Chain
    OBVIOUS
  <2>1. LiveDownloads = {} /\ Retries = {} /\ ActiveInits = {}
    BY DEF Init, LiveDownloads, Retries, ActiveInits, InitBusy, Callers
  <2>2. RetryRuns = 0 /\ ReceiverWorks = 0 /\ Started = 0 /\ roots = 0
    BY DEF Init, RetryRuns, ReceiverWorks, DlBusy, DlWriting, Started, NoTask
  <2>3. IsFiniteSet({}) /\ Number({}) = 0
    BY FS_EmptySet DEF Number
  <2> QED BY <2>1, <2>2, <2>3 DEF Chain, Counted, Tokens
<1> QED BY <1>1, TypeCorrect, ChainStep, PTL DEF Spec

\* What the tokens are counted with are numbers.
LEMMA SumsAreNumbers ==
  ASSUME TypeOK, Chain
  PROVE  /\ Number(LiveDownloads) \in Nat /\ Number(Retries) \in Nat
         /\ Number(ActiveInits) \in Nat
         /\ RetryRuns \in Nat /\ ReceiverWorks \in Nat /\ Started \in Nat
<1>1. IsFiniteSet(Retries)
  BY RetriesFinite DEF TypeOK, Retries
<1> QED BY <1>1, FS_CardinalityType DEF Chain, Counted, Number, RetryRuns, ReceiverWorks, Started

\* However often downloads, checks and extractions fail, each download begun
\* is followed by at most one activity (EPCService.java:121-162, :318-337).
THEOREM OneChainHolds == Spec => []OneChain
<1>1. TypeOK /\ Chain => OneChain
  <2> SUFFICES ASSUME TypeOK, Chain PROVE Tokens <= roots
    BY DEF OneChain
  <2>1. Tokens \in Nat /\ Started \in Nat /\ roots \in Nat /\ Tokens + Started <= roots
    BY SumsAreNumbers DEF Tokens, TypeOK, Chain
  <2> QED BY <2>1
<1> QED BY <1>1, TypeCorrect, ChainHolds, PTL

-----------------------------------------------------------------------------
(* With one download begun, whoever is busy with the archive is alone, so a *)
(* thread that unpacks a sound one gets a whole tree into place.           *)

SoundBoot ==
  roots <= 1 /\ ~debug /\ ~torn =>
    /\ \A t \in InitThreads :
         /\ pc[t] = "unzipping" => src[t] = "good"
         /\ pc[t] = "moving" => tree = "full"
         /\ pc[t] = "initializing" => tree = "full" /\ config
    /\ isPythonInitialized => tree = "full" /\ config

\* One download, one activity; and none once Python runs.
LEMMA Alone ==
  ASSUME TypeOK, Chain, roots <= 1
  PROVE  /\ \A t, u \in ActiveInits : t = u
         /\ dlPc \in DlBusy => ActiveInits = {}
         /\ isPythonInitialized => dlPc \notin DlBusy /\ ActiveInits = {}
<1> DEFINE inits == Number(ActiveInits)    rest == Number(LiveDownloads) + Number(Retries) + RetryRuns
           works == ReceiverWorks          up == Started
           r == roots
<1>1. inits \in Nat /\ rest \in Nat /\ works \in Nat /\ up \in Nat /\ r \in Nat
  BY SumsAreNumbers DEF TypeOK
<1>2. rest + works + inits + up <= r /\ r <= 1
  BY SumsAreNumbers DEF Chain, Tokens
<1>3. works + inits + up <= 1
  <2> HIDE DEF inits, rest, works, up, r
  <2> QED BY <1>1, <1>2
<1>4. inits <= 1 /\ (works = 1 => inits = 0) /\ (up = 1 => works = 0 /\ inits = 0)
  <2> HIDE DEF inits, works, up
  <2> QED BY <1>1, <1>3
<1>5. \A t, u \in ActiveInits : t = u
  <2>1. inits = 0 \/ inits = 1
    <3> HIDE DEF inits
    <3> QED BY <1>1, <1>4
  <2> QED BY <2>1, FS_EmptySet, FS_Singleton DEF Chain, Counted, Number
<1>6. inits = 0 => ActiveInits = {}
  BY FS_EmptySet DEF Chain, Counted, Number
<1>7. (dlPc \in DlBusy => works = 1) /\ (isPythonInitialized => up = 1)
  BY DEF ReceiverWorks, Started
<1>8. works = 0 => dlPc \notin DlBusy
  BY DEF ReceiverWorks
<1> QED BY <1>4, <1>5, <1>6, <1>7, <1>8

\* Nobody rewrites the archive while a creation thread reads it, and no two
\* unpack it (EPCService.java:110, :385).
THEOREM ExclusiveArchiveHolds == Spec => []ExclusiveArchive
<1>1. TypeOK /\ Chain => ExclusiveArchive
  BY Alone DEF ExclusiveArchive, ActiveInits
<1> QED BY <1>1, TypeCorrect, ChainHolds, PTL

\* What the one creation thread has made true of the tree stays true.
LEMMA SoundBootStep ==
  ASSUME TypeOK, Chain, ZipIntegrity, SoundBoot, [Next]_vars
  PROVE  SoundBoot'
<1> USE DEF SoundBoot, files, receiver, history
<1>1. CASE UNCHANGED vars
  BY <1>1 DEF vars, calls
<1>2. CASE Die
  BY <1>2 DEF Die, Callers
<1>3. CASE Platform
  BY <1>2, <1>3 DEF Platform, onCreate, Kill, Finish, calls
<1>4. CASE MainThread \/ doInBackground
  <2>1. /\ UNCHANGED <<tree, config, debug, src, isPythonInitialized, roots, torn>>
        /\ \A t \in Callers \ {"main", "async"} : pc'[t] = pc[t]
    BY <1>4 DEF MainThread, onServiceConnected, enroll, EnrolmentCanceled, ScanResult,
       WriteSettings, EnrolmentFailed, ResultArrives, doInBackground, Goto, calls, TypeOK
  <2>2. \A t \in InitThreads : pc'[t] = pc[t]
    BY <2>1, ThreadsAssumption DEF Callers
  <2> QED BY <2>1, <2>2
<1>5. ASSUME NEW t \in Callers, downloadAssets(t)
      PROVE  SoundBoot'
  <2>1. CASE HashFails(t)
    BY <1>2, <2>1 DEF HashFails
  <2>2. ASSUME NoSettings(t) \/ AssignRef(t) \/ \E i \in DownloadIds : enqueue(t, i)
        PROVE  SoundBoot'
    <3>1. /\ UNCHANGED <<tree, config, debug, src, isPythonInitialized, torn>>
          /\ roots \in Nat /\ roots' \in Nat /\ roots <= roots'
      BY <2>2 DEF NoSettings, AssignRef, enqueue, Roots, TypeOK
    <3>2. \E label \in {"idle", "enqueued"} : pc' = [pc EXCEPT ![t] = label]
      BY <2>2 DEF NoSettings, AssignRef, enqueue, Goto
    <3> QED BY <3>1, <3>2 DEF TypeOK, Callers
  <2> QED BY <1>5, <2>1, <2>2 DEF downloadAssets
<1>6. ASSUME NEW t \in InitThreads, CreationThread(t)
      PROVE  SoundBoot'
  <2>1. CASE InterpreterCrash(t)
    BY <1>2, <2>1 DEF InterpreterCrash
  <2>2. ASSUME ~InterpreterCrash(t), roots <= 1, ~debug, ~torn'
        PROVE  SoundBoot'
    <3>1. pc[t] \in InitBusy
      BY <1>6, <2>2 DEF CreationThread, DeleteTree, Unzipped, UnzipFails, DiscardUnreadable,
         MoveConfig, initializePython, InitBusy
    <3>2. /\ \A u \in InitThreads : pc[u] \in InitBusy => u = t
          /\ dlPc \notin DlBusy /\ ~isPythonInitialized
      BY <2>2, <3>1, Alone DEF ActiveInits
    <3>3. CASE DeleteTree(t)
      <4>1. zip = "good" \/ zip = "absent"
        BY <2>2, <3>2, <3>3 DEF DeleteTree, ZipIntegrity, TypeOK, DlBusy
      <4>2. pc'[t] = "unzipping" => src'[t] = "good"
        BY <2>2, <3>3, <4>1 DEF DeleteTree, Goto, Damaged, TypeOK, Callers
      <4>3. /\ pc'[t] \in {"unzipping", "discarding"} /\ isPythonInitialized' = isPythonInitialized
            /\ \A u \in InitThreads \ {t} : pc'[u] = pc[u]
        BY <2>2, <3>3 DEF DeleteTree, Goto, TypeOK, Callers
      <4> QED BY <3>2, <4>2, <4>3 DEF InitBusy
    <3>4. CASE Unzipped(t)
      BY <2>2, <3>2, <3>4 DEF Unzipped, Goto, TypeOK, Callers, InitBusy
    <3>5. CASE UnzipFails(t) \/ DiscardUnreadable(t)
      <4>1. /\ pc'[t] \in {"discarding", "calling"} /\ isPythonInitialized' = isPythonInitialized
            /\ \A u \in InitThreads \ {t} : pc'[u] = pc[u]
        BY <3>5 DEF UnzipFails, DiscardUnreadable, Goto, TypeOK, Callers
      <4> QED BY <3>2, <4>1 DEF InitBusy
    <3>6. ASSUME NEW moved \in BOOLEAN, MoveConfig(t, moved)
          PROVE  SoundBoot'
      BY <2>2, <3>2, <3>6 DEF MoveConfig, Goto, TypeOK, Callers, InitBusy
    <3>7. ASSUME NEW ok \in BOOLEAN, initializePython(t, ok)
          PROVE  SoundBoot'
      BY <2>2, <3>2, <3>7 DEF initializePython, Goto, TypeOK, Callers, InitBusy
    <3> QED BY <1>6, <2>2, <3>3, <3>4, <3>5, <3>6, <3>7 DEF CreationThread
  <2>3. ~InterpreterCrash(t) => roots' = roots /\ debug' = debug
    BY <1>6 DEF CreationThread, DeleteTree, Unzipped, UnzipFails, DiscardUnreadable,
       MoveConfig, initializePython
  <2> QED BY <2>1, <2>2, <2>3
<1>7. CASE onReceive
  <2>1. UNCHANGED <<tree, config, debug, isPythonInitialized, roots>>
    BY <1>7 DEF onReceive, ReceiveForeign, ReceiveFailed, ReceiveSuccess, OpenDownload,
       OpenFails, CopyEnds, CopyFails, Verified, VerifyFails, DiscardDownload, ExecuteRetry,
       RemoveDownload, OnlyReceiver
  <2>2. ASSUME OpenDownload \/ DiscardDownload
        PROVE  SoundBoot'
    <3>1. dlPc \in DlBusy /\ pc' = pc
      BY <2>2 DEF OpenDownload, DiscardDownload, DlBusy, DlWriting
    <3> QED BY <2>1, <3>1, Alone DEF ActiveInits, InitBusy
  <2>3. ASSUME ~OpenDownload, ~DiscardDownload
        PROVE  SoundBoot'
    <3>1. UNCHANGED <<src, torn>>
      BY <1>7, <2>3 DEF onReceive, ReceiveForeign, ReceiveFailed, ReceiveSuccess, OpenFails,
         CopyEnds, CopyFails, Verified, VerifyFails, ExecuteRetry, RemoveDownload, calls
    <3>2. pc' = pc \/ \E t \in InitThreads : pc' = [pc EXCEPT ![t] = "deleting"]
      BY <1>7, <2>3 DEF onReceive, ReceiveForeign, ReceiveFailed, ReceiveSuccess, OpenFails,
         CopyEnds, CopyFails, Verified, VerifyFails, ExecuteRetry, RemoveDownload, calls,
         initPython, Goto
    <3> QED BY <2>1, <3>1, <3>2 DEF TypeOK, Callers
  <2> QED BY <2>2, <2>3
<1> QED BY <1>1, <1>3, <1>4, <1>5, <1>6, <1>7 DEF Next

\* Python counts as started only on a complete tree with its configuration in
\* place (EPCService.java:347-379).
THEOREM VerifiedBootHolds == Spec => []VerifiedBoot
<1>1. Init => SoundBoot
  BY DEF Init, SoundBoot, Callers
<1>2. SoundBoot => VerifiedBoot
  BY DEF SoundBoot, VerifiedBoot
<1> QED BY <1>1, <1>2, TypeCorrect, ChainHolds, ZipIntegrityHolds, SoundBootStep, PTL DEF Spec

-----------------------------------------------------------------------------
(* Nothing stops silently: what goes on goes on, or leaves a cause.        *)

\* Who holds which id: a call the one enqueue gave it, the receiver the one it
\* received.
IdsHeld ==
  /\ \A t \in Callers : IF pc[t] = "enqueued" THEN ref[t] \in DownloadIds ELSE ref[t] = 0
  /\ \A t, u \in Callers : pc[t] = "enqueued" /\ ref[t] = ref[u] => t = u
  /\ \A t \in Callers : pc[t] = "enqueued" => ref[t] \notin {downloadRef, dlId}
  /\ dlPc \in {"idle", "backoff"} <=> dlId = 0
  /\ pc["main"] = "writing" => settings = "partial"

OnItsWay(i) == dm[i] = "running" \/ i \in announced

\* What the DownloadManager still has to say of these ids.
IdsAnswered ==
  /\ \A i \in announced : dm[i] \in {"failed", "success"} \/ "removed" \in causes
  /\ \A t \in Callers : pc[t] = "enqueued" => OnItsWay(ref[t]) \/ "early" \in causes
  /\ dlId # 0 => ~OnItsWay(dlId)

Going ==
  \/ queue # <<>> \/ \E t \in Callers : pc[t] # "idle"
  \/ dlPc \in DlBusy
  \/ downloadRef # 0 /\ OnItsWay(downloadRef)
  \/ isPythonInitialized \/ causes # {}

GoesOn == alive /\ settings = "valid" => Going

Chained == IdsHeld /\ IdsAnswered /\ GoesOn

\* There is nobody at work without a process.
Still ==
  ~alive => /\ queue = <<>> /\ dlPc = "idle" /\ announced = {}
            /\ \A t \in Callers : pc[t] = "idle"

\* Nobody is at work where there is no process.
LEMMA StillStep ==
  ASSUME TypeOK, Still, [Next]_vars
  PROVE  Still'
<1> SUFFICES ASSUME ~alive'
             PROVE  queue' = <<>> /\ dlPc' = "idle" /\ announced' = {}
                      /\ \A t \in Callers : pc'[t] = "idle"
  BY DEF Still
<1>1. CASE UNCHANGED vars
  BY <1>1 DEF vars, platform, calls, receiver, Still
<1>2. CASE Die
  BY <1>2 DEF Die
<1> USE DEF Still, files, platform, receiver, history
<1>3. CASE Platform
  BY <1>2, <1>3 DEF Platform, onCreate, Kill, Finish, calls
<1>4. CASE MainThread \/ doInBackground
  BY <1>4 DEF MainThread, onServiceConnected, enroll, EnrolmentCanceled, ScanResult,
     ResultArrives, WriteSettings, EnrolmentFailed, doInBackground, Callers
<1>5. ASSUME NEW t \in Callers, downloadAssets(t)
      PROVE  Die
  BY <1>5 DEF downloadAssets, NoSettings, HashFails, AssignRef, enqueue
<1>6. ASSUME NEW t \in InitThreads, CreationThread(t)
      PROVE  Die
  BY <1>6 DEF CreationThread, DeleteTree, Unzipped, UnzipFails, DiscardUnreadable, MoveConfig,
     initializePython, InterpreterCrash, Callers
<1>7. CASE onReceive
  BY <1>7 DEF onReceive, ReceiveForeign, ReceiveFailed, ReceiveSuccess, OpenDownload,
     OpenFails, CopyEnds, CopyFails, Verified, VerifyFails, DiscardDownload, ExecuteRetry,
     RemoveDownload, OnlyReceiver
<1> QED BY <1>1, <1>2, <1>3, <1>4, <1>5, <1>6, <1>7 DEF Next

\* The same of every behaviour.
LEMMA StillHolds == Spec => []Still
<1>1. Init => Still
  BY DEF Init, Still
<1> QED BY <1>1, TypeCorrect, StillStep, PTL DEF Spec

\* Going on: after a death nobody is asked to go on.
LEMMA DieGoes ==
  ASSUME TypeOK, Die
  PROVE  Chained'
BY IdsAssumption DEF Die, Chained, IdsHeld, IdsAnswered, GoesOn, Callers, files

\* Going on: at the start.
LEMMA InitGoes ==
  ASSUME Init
  PROVE  Chained
BY DEF Init, Chained, IdsHeld, IdsAnswered, GoesOn, Callers

\* Going on: the platform loses no download the service refers to.
LEMMA PlatformGoes ==
  ASSUME TypeOK, Still, Chained, Platform
  PROVE  Chained'
<1> USE DEF Chained, files, calls, receiver, history
<1>1. CASE onCreate
  <2>1. /\ queue' # <<>>
        /\ UNCHANGED <<files, dm, announced, scanning, bound, downloadRef, task, pc,
                       ref, src, receiver, isPythonInitialized, history>>
    BY <1>1 DEF onCreate
  <2>2. IdsHeld' /\ IdsAnswered'
    BY <2>1 DEF IdsHeld, IdsAnswered, OnItsWay
  <2>3. GoesOn'
    BY <2>1 DEF GoesOn, Going
  <2> QED BY <2>2, <2>3
<1>2. CASE Kill
  BY <1>2, DieGoes DEF Kill
<1>3. ASSUME NEW i \in DownloadIds, NEW status \in {"failed", "success"}, Finish(i, status)
      PROVE  Chained'
  <2>1. /\ dm[i] = "running" /\ dm' = [dm EXCEPT ![i] = status]
        /\ announced' = IF alive THEN announced \cup {i} ELSE announced
        /\ UNCHANGED <<files, alive, scanning, bound, downloadRef, calls, receiver,
                       isPythonInitialized, history>>
    BY <1>3 DEF Finish
  <2>2. IdsHeld'
    BY <2>1 DEF IdsHeld
  <2>3. alive => \A j \in DownloadIds : OnItsWay(j)' <=> OnItsWay(j)
    BY <2>1 DEF OnItsWay, TypeOK
  <2>4. i # dlId /\ (announced' # announced => alive)
    BY <2>1, IdsAssumption DEF IdsAnswered, OnItsWay
  <2>5. CASE alive
    <3>1. \A j \in announced' : dm'[j] \in {"failed", "success"} \/ "removed" \in causes'
      BY <2>1 DEF IdsAnswered, TypeOK
    <3>2. IdsAnswered'
      BY <2>1, <2>3, <2>5, <3>1 DEF IdsHeld, IdsAnswered, TypeOK
    <3>3. GoesOn'
      BY <2>1, <2>3, <2>5 DEF GoesOn, Going, TypeOK
    <3> QED BY <2>2, <3>2, <3>3
  <2>6. CASE ~alive
    <3>1. announced' = announced /\ announced = {} /\ \A t \in Callers : pc[t] # "enqueued"
      BY <2>1, <2>6 DEF Still
    <3>2. IdsAnswered'
      BY <2>1, <2>4, <3>1 DEF IdsAnswered, OnItsWay, TypeOK
    <3>3. GoesOn'
      BY <2>1, <2>6 DEF GoesOn
    <3> QED BY <2>2, <3>2, <3>3
  <2> QED BY <2>5, <2>6
<1> QED BY <1>1, <1>2, <1>3 DEF Platform

\* Going on: a callback leaves something at work, or a cause.
LEMMA MainThreadGoes ==
  ASSUME TypeOK, Chained, MainThread
  PROVE  Chained'
<1> USE DEF Chained, files, platform, calls, receiver, history
<1>1. CASE onServiceConnected \/ enroll \/ EnrolmentCanceled
  <2>1. UNCHANGED <<files, dm, announced, alive, downloadRef, calls, receiver,
                    isPythonInitialized, causes>>
    BY <1>1 DEF onServiceConnected, enroll, EnrolmentCanceled
  <2> QED BY <2>1 DEF IdsHeld, IdsAnswered, OnItsWay, GoesOn, Going
<1>2. ASSUME ScanResult \/ EnrolmentFailed \/ \E s \in {"valid", "invalid"} : WriteSettings(s)
      PROVE  Chained'
  <2>1. /\ pc["main"] \in {"idle", "writing"}
        /\ \E label \in {"idle", "writing", "calling"} :
             /\ pc' = [pc EXCEPT !["main"] = label]
             /\ label = "writing" => settings' = "partial"
             /\ label = "idle" /\ settings' = "valid" => causes' # {}
             /\ label = "calling" => settings' # "partial"
        /\ causes \subseteq causes'
        /\ UNCHANGED <<dm, announced, alive, downloadRef, queue, task, ref, receiver,
                       isPythonInitialized>>
    BY <1>2 DEF ScanResult, ResultArrives, EnrolmentFailed, WriteSettings, Goto, IdsHeld
  <2>2. IdsHeld'
    BY <2>1 DEF IdsHeld, TypeOK, Callers
  <2>3. IdsAnswered'
    BY <2>1 DEF IdsAnswered, OnItsWay, TypeOK, Callers
  <2>4. GoesOn'
    BY <2>1 DEF GoesOn, Going, TypeOK, Callers
  <2> QED BY <2>2, <2>3, <2>4
<1> QED BY <1>1, <1>2 DEF MainThread

\* Going on: a retry taken from the queue is at work.
LEMMA DoInBackgroundGoes ==
  ASSUME TypeOK, Chained, doInBackground
  PROVE  Chained'
<1>1. /\ pc["async"] = "idle" /\ pc' = [pc EXCEPT !["async"] = "calling"]
      /\ UNCHANGED <<files, platform, downloadRef, ref, receiver, isPythonInitialized, causes>>
  BY DEF doInBackground, Goto, history
<1>2. IdsHeld' /\ IdsAnswered'
  BY <1>1 DEF Chained, IdsHeld, IdsAnswered, OnItsWay, TypeOK, Callers, files, platform, receiver
<1>3. GoesOn'
  BY <1>1 DEF GoesOn, Going, TypeOK, Callers
<1> QED BY <1>2, <1>3 DEF Chained

\* Going on: downloadAssets leaves a download, or a cause.
LEMMA DownloadAssetsGoes ==
  ASSUME TypeOK, Chained, NEW t \in Callers, downloadAssets(t)
  PROVE  Chained'
<1> USE DEF Chained, files, platform, receiver, history, Goto
<1>1. CASE NoSettings(t)
  <2>1. /\ pc[t] = "calling" /\ settings # "valid" /\ pc' = [pc EXCEPT ![t] = "idle"]
        /\ UNCHANGED <<files, platform, downloadRef, ref, receiver, causes>>
    BY <1>1 DEF NoSettings
  <2> QED BY <2>1 DEF IdsHeld, IdsAnswered, OnItsWay, GoesOn, TypeOK, Callers
<1>2. CASE HashFails(t)
  BY <1>2, DieGoes DEF HashFails
<1>3. CASE AssignRef(t)
  <2>1. /\ pc[t] = "enqueued" /\ pc' = [pc EXCEPT ![t] = "idle"]
        /\ downloadRef' = ref[t] /\ ref' = [ref EXCEPT ![t] = 0]
        /\ UNCHANGED <<files, platform, receiver, causes>>
    BY <1>3 DEF AssignRef
  <2>2. ref[t] # 0
    BY <2>1, IdsAssumption DEF IdsHeld
  <2>3. IdsHeld'
    <3>1. /\ pc' \in [Callers -> Labels] /\ pc'[t] = "idle" /\ ref'[t] = 0
          /\ \A u \in Callers \ {t} : pc'[u] = pc[u] /\ ref'[u] = ref[u]
      BY <2>1, DownloadAssetsType DEF TypeOK
    <3>2. \A u \in Callers : pc'[u] = "enqueued" => pc[u] = "enqueued" /\ u # t
      BY <3>1
    <3>3. \A u \in Callers : pc'[u] = "enqueued" => ref'[u] \notin {downloadRef', dlId'}
      BY <2>1, <3>1, <3>2 DEF IdsHeld
    <3>4. pc'["main"] = "writing" => settings' = "partial"
      BY <2>1, <3>1 DEF IdsHeld, Callers
    <3>5. \A u \in Callers : IF pc'[u] = "enqueued" THEN ref'[u] \in DownloadIds ELSE ref'[u] = 0
      BY <3>1, <3>2 DEF IdsHeld
    <3>6. \A u, v \in Callers : pc'[u] = "enqueued" /\ ref'[u] = ref'[v] => u = v
      BY <3>1, <3>2, IdsAssumption DEF IdsHeld
    <3> QED BY <2>1, <3>3, <3>4, <3>5, <3>6 DEF IdsHeld
  <2>4. IdsAnswered'
    BY <2>1 DEF IdsAnswered, OnItsWay, TypeOK
  <2>5. GoesOn'
    BY <2>1, <2>2 DEF IdsAnswered, GoesOn, Going, OnItsWay
  <2> QED BY <2>3, <2>4, <2>5
<1>4. ASSUME NEW i \in DownloadIds, enqueue(t, i)
      PROVE  Chained'
  <2>1. /\ pc[t] = "calling" /\ pc' = [pc EXCEPT ![t] = "enqueued"] /\ i \in FreeIds
        /\ dm' = [dm EXCEPT ![i] = "running"] /\ ref' = [ref EXCEPT ![t] = i]
        /\ UNCHANGED <<files, announced, alive, downloadRef, receiver, causes>>
    BY <1>4 DEF enqueue
  <2>2. i # 0 /\ i \notin announced /\ i \notin {downloadRef, dlId}
        /\ \A u \in Callers : ref[u] # i
    BY <2>1, IdsAssumption DEF FreeIds
  <2>3. IdsHeld'
    BY <2>1, <2>2 DEF IdsHeld, TypeOK
  <2>4. IdsAnswered'
    BY <2>1, <2>2 DEF IdsAnswered, OnItsWay, TypeOK
  <2>5. GoesOn'
    BY <2>1 DEF GoesOn, Going, TypeOK
  <2> QED BY <2>3, <2>4, <2>5
<1> QED BY <1>1, <1>2, <1>3, <1>4 DEF downloadAssets

\* Going on: a creation thread leaves Python, a retry or a cause.
LEMMA CreationThreadGoes ==
  ASSUME TypeOK, Chained, NEW t \in InitThreads, CreationThread(t)
  PROVE  Chained'
<1>1. CASE InterpreterCrash(t)
  BY <1>1, DieGoes DEF InterpreterCrash
<1>2. CASE ~InterpreterCrash(t)
  <2>1. /\ pc[t] \in InitBusy /\ causes \subseteq causes'
        /\ \E label \in InitBusy \cup {"calling", "idle"} :
             /\ pc' = [pc EXCEPT ![t] = label]
             /\ label = "idle" => isPythonInitialized' \/ causes' # {}
        /\ UNCHANGED <<settings, platform, downloadRef, ref, receiver>>
    BY <1>2 DEF CreationThread, DeleteTree, Unzipped, UnzipFails, DiscardUnreadable, MoveConfig,
       initializePython, Goto, InitBusy, files, history
  <2>2. t # "main" /\ t \in Callers
    BY ThreadsAssumption DEF Callers
  <2>3. IdsHeld'
    <3>1. \A u \in Callers : pc'[u] = "enqueued" <=> pc[u] = "enqueued"
      BY <2>1, <2>2 DEF TypeOK, InitBusy
    <3>2. pc'["main"] = pc["main"]
      BY <2>1, <2>2 DEF TypeOK, Callers
    <3>3. UNCHANGED <<settings, downloadRef, ref, dlPc, dlId>>
      BY <2>1 DEF receiver
    <3> QED BY <3>1, <3>2, <3>3 DEF Chained, IdsHeld
  <2>4. IdsAnswered'
    BY <2>1, <2>2 DEF Chained, IdsAnswered, OnItsWay, TypeOK, InitBusy, platform, receiver
  <2>5. GoesOn'
    BY <2>1, <2>2 DEF GoesOn, Going, TypeOK, InitBusy
  <2> QED BY <2>3, <2>4, <2>5 DEF Chained
<1> QED BY <1>1, <1>2

\* Going on: the receiver leaves a creation thread, a retry or a cause.
LEMMA OnReceiveGoes ==
  ASSUME TypeOK, Chained, onReceive
  PROVE  Chained'
<1> USE DEF Chained
<1>1. ASSUME NEW i \in DownloadIds, ReceiveForeign(i)
      PROVE  Chained'
  <2>1. /\ i \in announced /\ (i # downloadRef \/ dm[i] = "none")
        /\ announced' = announced \ {i}
        /\ causes' = IF \E t \in Callers : ref[t] = i THEN causes \cup {"early"} ELSE causes
        /\ UNCHANGED <<files, dm, alive, downloadRef, calls, receiver, isPythonInitialized>>
    BY <1>1 DEF ReceiveForeign
  <2>2. IdsHeld'
    BY <2>1 DEF IdsHeld, files, calls, receiver
  <2>3. IdsAnswered'
    BY <2>1 DEF IdsAnswered, OnItsWay, calls, receiver
  <2>4. GoesOn'
    BY <2>1 DEF IdsAnswered, GoesOn, Going, OnItsWay, files, calls, receiver
  <2> QED BY <2>2, <2>3, <2>4
<1>2. ASSUME NEW i \in DownloadIds, ReceiveFailed(i) \/ ReceiveSuccess(i)
      PROVE  Chained'
  <2>1. /\ dlPc = "idle" /\ i \in announced /\ i = downloadRef /\ dm[i] \in {"failed", "success"}
        /\ announced' = announced \ {i}
        /\ UNCHANGED <<settings, dm, alive, downloadRef, ref, causes>>
        /\ \/ UNCHANGED <<pc, dlId>> /\ dlPc' = "backoff"
           \/ pc' = pc /\ dlPc' = "opening" /\ dlId' = i
           \/ /\ UNCHANGED <<dlId, dlPc>>
              /\ \E t \in InitThreads : pc[t] = "idle" /\ pc' = [pc EXCEPT ![t] = "deleting"]
    BY <1>2 DEF ReceiveFailed, ReceiveSuccess, initPython, Goto, files, calls, history
  <2>2. i # 0
    BY IdsAssumption
  <2>3. IdsHeld'
    BY <2>1, <2>2, ThreadsAssumption DEF IdsHeld, TypeOK, Callers
  <2>4. IdsAnswered'
    BY <2>1, <2>2 DEF IdsHeld, IdsAnswered, OnItsWay, TypeOK, Callers
  <2>5. GoesOn'
    BY <2>1 DEF GoesOn, Going, TypeOK, Callers, DlBusy
  <2> QED BY <2>3, <2>4, <2>5
<1>3. ASSUME OpenDownload \/ OpenFails \/ CopyFails \/ VerifyFails \/ DiscardDownload
               \/ \E result \in {"corrupt", "good"} : CopyEnds(result)
      PROVE  Chained'
  <2>1. /\ dlPc \in DlBusy \ {"backoff"} /\ dlPc' \in DlBusy \ {"backoff"}
        /\ UNCHANGED <<settings, dm, announced, alive, downloadRef, ref, causes, dlId, pc>>
    BY <1>3 DEF OpenDownload, OpenFails, CopyFails, VerifyFails, DiscardDownload, CopyEnds,
       OnlyReceiver, DlBusy, DlWriting
  <2> QED BY <2>1 DEF IdsHeld, IdsAnswered, OnItsWay, GoesOn, Going, DlBusy, DlWriting
<1>4. ASSUME Verified \/ ExecuteRetry
      PROVE  Chained'
  <2>1. /\ dlPc \in {"verifying", "backoff", "retrying"}
        /\ dlPc' = IF dlPc = "backoff" THEN "idle" ELSE "finally"
        /\ UNCHANGED <<settings, dm, announced, alive, downloadRef, ref, causes, dlId>>
        /\ \/ pc' = pc /\ queue' = Append(queue, "retry")
           \/ \E t \in InitThreads : pc[t] = "idle" /\ pc' = [pc EXCEPT ![t] = "deleting"]
    BY <1>4 DEF Verified, ExecuteRetry, initPython, Goto, OnlyReceiver
  <2>2. IdsHeld'
    BY <2>1, ThreadsAssumption DEF IdsHeld, TypeOK, Callers
  <2>3. IdsAnswered'
    BY <2>1 DEF IdsAnswered, OnItsWay, TypeOK, Callers
  <2>4. GoesOn'
    <3>1. Append(queue, "retry") # <<>>
      BY DEF TypeOK
    <3> QED BY <2>1, <3>1 DEF GoesOn, Going, TypeOK, Callers
  <2> QED BY <2>2, <2>3, <2>4
<1>5. CASE RemoveDownload
  <2>1. /\ dlPc = "finally" /\ dlPc' = "idle" /\ dlId' = 0
        /\ dm' = [dm EXCEPT ![downloadRef] = "none"]
        /\ causes' = IF downloadRef # dlId THEN causes \cup {"removed"} ELSE causes
        /\ UNCHANGED <<files, announced, alive, downloadRef, calls, isPythonInitialized>>
    BY <1>5 DEF RemoveDownload
  <2>2. IdsHeld'
    BY <2>1, IdsAssumption DEF IdsHeld, files, calls
  <2>3. IdsAnswered'
    BY <2>1 DEF IdsHeld, IdsAnswered, OnItsWay, TypeOK, calls
  <2>4. GoesOn'
    BY <2>1 DEF IdsHeld, IdsAnswered, GoesOn, Going, OnItsWay, TypeOK, DlBusy, DlWriting,
       files, calls
  <2> QED BY <2>2, <2>3, <2>4
<1> QED BY <1>1, <1>2, <1>3, <1>4, <1>5 DEF onReceive

\* Going on: all actors together.
LEMMA ChainedStep ==
  ASSUME TypeOK, Still, Chained, [Next]_vars
  PROVE  Chained'
<1>1. CASE UNCHANGED vars
  BY <1>1 DEF vars, files, platform, calls, receiver, history, Chained, IdsHeld, IdsAnswered,
     OnItsWay, GoesOn, Going
<1> QED BY <1>1, PlatformGoes, MainThreadGoes, DoInBackgroundGoes, DownloadAssetsGoes,
           CreationThreadGoes, OnReceiveGoes DEF Next

\* When nothing is left to happen in an enrolled agent, Python runs or a recorded
\* cause is to blame (EPCService.java:76-165, :304-337).
THEOREM NoSilentStallHolds == Spec => []NoSilentStall
<1>1. TypeOK /\ Chained => NoSilentStall
  <2> SUFFICES ASSUME TypeOK, Chained, Quiescent, settings = "valid"
               PROVE  isPythonInitialized \/ causes # {}
    BY DEF NoSilentStall
  <2>1. CASE downloadRef # 0 /\ OnItsWay(downloadRef)
    BY <2>1 DEF Quiescent, OnItsWay, TypeOK
  <2> QED BY <2>1 DEF Chained, GoesOn, Going, Quiescent, DlBusy, DlWriting
<1> QED BY <1>1, TypeCorrect, InitGoes, StillHolds, ChainedStep, PTL DEF Spec

=============================================================================
