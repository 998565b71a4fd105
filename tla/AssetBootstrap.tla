--------------------------- MODULE AssetBootstrap ---------------------------
(***************************************************************************)
(* How the EPControl service gets its Python program onto the device and   *)
(* starts it: enrolment writes user-settings.json, downloadAssets queues a *)
(* download with the platform's DownloadManager, the receiver on the       *)
(* DownloadThread decrypts and verifies assets.zip, and initPython unpacks *)
(* it and enters the interpreter.                                          *)
(*                                                                         *)
(* Threads: the main thread ("main"), the serial AsyncTask executor        *)
(* ("async"), the DownloadThread (dlPc), and one creation thread per       *)
(* initPython call (InitThreads).  The process may be killed between any   *)
(* two steps; files and the DownloadManager's table survive, everything    *)
(* else, the dynamically registered receiver included, does not.           *)
(***************************************************************************)
EXTENDS Naturals, FiniteSets, Sequences

CONSTANTS
  DownloadIds,  \* ids the DownloadManager hands out, never 0
  InitThreads,  \* creation threads
  MaxScans,     \* bound: presses of the enrolment button
  MaxKills      \* bound: process deaths in a behaviour

Callers == {"main", "async"} \cup InitThreads

ASSUME IdsAssumption     == 0 \notin DownloadIds
ASSUME ThreadsAssumption == {"main", "async"} \cap InitThreads = {}
ASSUME BoundsAssumption  == MaxScans \in Nat /\ MaxKills \in Nat

VARIABLES
  \* files
  settings,    \* user-settings.json
  zip,         \* assets.zip
  tree,        \* assets/
  config,      \* settings.json and trust.pem have been moved into place
  debug,       \* .debug exists
  \* the platform
  dm,          \* DownloadManager's table: status of every id
  announced,   \* ACTION_DOWNLOAD_COMPLETE broadcasts not yet handled
  alive,       \* the application process exists
  scanning,    \* scanner activities whose result is outstanding
  \* the process
  bound,       \* MainActivity.mEPCService # null
  downloadRef, \* EPCService.downloadRef, 0 before the first download
  queue,       \* DownloadAssetsTasks waiting for the AsyncTask executor
  task,        \* the task the executor is running
  pc,          \* control point of every caller of downloadAssets
  ref,         \* enqueue's result, before it is stored in downloadRef
  src,         \* assets.zip as a creation thread found it when opening it
  dlPc, dlId,  \* DownloadThread: control point and the broadcast's id
  isPythonInitialized,
  \* history, for the properties only
  scans, kills,
  roots,       \* downloads begun by onCreate or by a scan in this process
  torn,        \* assets.zip is what a killed process left behind
  causes       \* why this process may have stopped short of Python

files    == <<settings, zip, tree, config, debug>>
platform == <<dm, announced, alive, scanning>>
calls    == <<queue, task, pc, ref, src>>
receiver == <<dlPc, dlId>>
history  == <<scans, kills, roots, torn, causes>>
vars     == <<files, platform, bound, downloadRef, calls, receiver,
              isPythonInitialized, history>>

Tasks     == {"create", "createWithZip", "retry"}
NoTask    == "none"
Causes    == {"early", "removed", "unbound", "failed"}
InitBusy  == {"deleting", "unzipping", "moving", "initializing", "discarding"}
Labels    == {"idle", "writing", "calling", "enqueued"} \cup InitBusy
DlWriting == {"copying", "verifying", "discarding"}
DlBusy    == {"opening", "backoff", "retrying"} \cup DlWriting

TypeOK ==
  /\ settings \in {"absent", "partial", "valid", "invalid"}
  /\ zip \in {"absent", "partial", "corrupt", "good"}
  /\ tree \in {"none", "partial", "full"}
  /\ config \in BOOLEAN /\ debug \in BOOLEAN
  /\ dm \in [DownloadIds -> {"none", "running", "failed", "success"}]
  /\ announced \subseteq DownloadIds
  /\ alive \in BOOLEAN /\ bound \in BOOLEAN
  /\ downloadRef \in DownloadIds \cup {0}
  /\ queue \in Seq(Tasks) /\ task \in Tasks \cup {NoTask}
  /\ pc \in [Callers -> Labels]
  /\ ref \in [Callers -> DownloadIds \cup {0}]
  /\ src \in [InitThreads -> {"absent", "partial", "corrupt", "good"}]
  /\ dlPc \in {"idle", "finally"} \cup DlBusy
  /\ dlId \in DownloadIds \cup {0}
  /\ isPythonInitialized \in BOOLEAN
  /\ scanning \in Nat /\ scans \in Nat /\ kills \in Nat /\ roots \in Nat
  /\ torn \in BOOLEAN
  /\ causes \subseteq Causes

Goto(t, label) == pc' = [pc EXCEPT ![t] = label]

(***************************************************************************)
(* A freshly installed application that has never run.                     *)
(***************************************************************************)
Init ==
  /\ settings = "absent" /\ zip = "absent" /\ tree = "none"
  /\ config = FALSE /\ debug \in BOOLEAN
  /\ dm = [i \in DownloadIds |-> "none"] /\ announced = {}
  /\ alive = FALSE /\ bound = FALSE /\ downloadRef = 0
  /\ queue = <<>> /\ task = NoTask
  /\ pc = [t \in Callers |-> "idle"] /\ ref = [t \in Callers |-> 0]
  /\ src = [t \in InitThreads |-> "absent"]
  /\ dlPc = "idle" /\ dlId = 0 /\ isPythonInitialized = FALSE
  /\ scanning = 0 /\ scans = 0 /\ kills = 0 /\ roots = 0 /\ torn = FALSE /\ causes = {}

-----------------------------------------------------------------------------
(* Process life cycle.                                                     *)

\* The process starts and with it the service: onCreate registers the
\* receiver and queues a task, with the archive as argument when it exists.
onCreate_AlwaysPassesZip ==
  /\ ~alive
  /\ alive' = TRUE
  /\ queue' = <<"createWithZip">>
  /\ UNCHANGED <<files, dm, announced, scanning, bound, downloadRef, task, pc,
                 ref, src, receiver, isPythonInitialized, history>>

onCreate ==
  /\ ~alive
  /\ alive' = TRUE
  /\ queue' = <<IF zip # "absent" THEN "createWithZip" ELSE "create">>
  /\ UNCHANGED <<files, dm, announced, scanning, bound, downloadRef, task, pc,
                 ref, src, receiver, isPythonInitialized, history>>

\* The process dies: no callback runs, memory is lost, broadcasts sent to the
\* dynamically registered receiver are lost with it.
Die ==
  /\ alive' = FALSE /\ announced' = {} /\ bound' = FALSE /\ downloadRef' = 0
  /\ queue' = <<>> /\ task' = NoTask
  /\ pc' = [t \in Callers |-> "idle"] /\ ref' = [t \in Callers |-> 0]
  /\ src' = [t \in InitThreads |-> "absent"]
  /\ dlPc' = "idle" /\ dlId' = 0 /\ isPythonInitialized' = FALSE
  /\ roots' = 0 /\ causes' = {}
  /\ torn' = (torn \/ zip \in {"partial", "corrupt"})
  /\ UNCHANGED <<files, dm, scanning, scans>>

Kill == alive /\ kills < MaxKills /\ kills' = kills + 1 /\ Die

\* MainActivity.onServiceConnected.
onServiceConnected ==
  /\ alive /\ ~bound /\ pc["main"] = "idle"
  /\ bound' = TRUE
  /\ UNCHANGED <<files, platform, downloadRef, calls, receiver,
                 isPythonInitialized, history>>

-----------------------------------------------------------------------------
(* Enrolment, on the main thread.                                          *)

\* The button is pressed; it is hidden once the settings file exists.  The
\* scanner is another activity: its result may arrive in a later process.
enroll ==
  /\ alive /\ pc["main"] = "idle" /\ settings = "absent" /\ scans < MaxScans
  /\ scanning' = scanning + 1 /\ scans' = scans + 1
  /\ UNCHANGED <<files, dm, announced, alive, bound, downloadRef, calls,
                 receiver, isPythonInitialized, kills, roots, torn, causes>>

ResultArrives ==
  /\ alive /\ pc["main"] = "idle" /\ scanning > 0
  /\ scanning' = scanning - 1

EnrolmentCanceled_NoResult ==
  /\ alive /\ pc["main"] = "idle" /\ scanning' = scanning - 1
  /\ UNCHANGED <<files, dm, announced, alive, bound, downloadRef, calls,
                 receiver, isPythonInitialized, history>>

EnrolmentCanceled ==
  /\ ResultArrives
  /\ UNCHANGED <<files, dm, announced, alive, bound, downloadRef, calls,
                 receiver, isPythonInitialized, history>>

\* Any QR code, of the wrong scheme too, truncates user-settings.json ...
ScanResult ==
  /\ ResultArrives
  /\ settings' = "partial" /\ Goto("main", "writing")
  /\ UNCHANGED <<zip, tree, config, debug, dm, announced, alive, bound,
                 downloadRef, queue, task, ref, src, receiver,
                 isPythonInitialized, history>>

\* ... is written out, with an INSTANCE_ID ("valid") or without, and the
\* service is asked to download if the activity is bound to it ...
WriteSettings(s) ==
  /\ pc["main"] = "writing"
  /\ settings' = s
  /\ Goto("main", IF bound THEN "calling" ELSE "idle")
  /\ causes' = IF bound THEN causes ELSE causes \cup {"unbound"}
  /\ UNCHANGED <<zip, tree, config, debug, platform, bound, downloadRef, queue,
                 task, ref, src, receiver, isPythonInitialized, scans, kills,
                 roots, torn>>

\* ... unless writing throws.
EnrolmentFailed ==
  /\ pc["main"] = "writing"
  /\ Goto("main", "idle")
  /\ UNCHANGED <<files, platform, bound, downloadRef, queue, task, ref, src,
                 receiver, isPythonInitialized, history>>

-----------------------------------------------------------------------------
(* downloadAssets, called by the executor, the main thread or a creation   *)
(* thread.                                                                 *)

\* The AsyncTask executor takes the next DownloadAssetsTask.
doInBackground ==
  /\ pc["async"] = "idle" /\ queue # <<>>
  /\ task' = Head(queue) /\ queue' = Tail(queue)
  /\ Goto("async", "calling")
  /\ UNCHANGED <<files, platform, bound, downloadRef, ref, src, receiver,
                 isPythonInitialized, history>>

TaskAfter(t) == IF t = "async" THEN NoTask ELSE task

\* user-settings.json is missing, or has no INSTANCE_ID that parses.
NoSettings(t) ==
  /\ pc[t] = "calling" /\ settings # "valid"
  /\ Goto(t, "idle") /\ task' = TaskAfter(t)
  /\ UNCHANGED <<files, platform, bound, downloadRef, queue, ref, src,
                 receiver, isPythonInitialized, history>>

\* uri == Uri.parse(...): two objects, however equal the text they hold.
SameReference == FALSE
isDownloading ==
  SameReference /\ \E i \in DownloadIds : dm[i] \in {"running", "success"}

FreeIds == {i \in DownloadIds :
              /\ dm[i] # "running" /\ i \notin announced
              /\ i \notin {downloadRef, dlId} /\ \A t \in Callers : ref[t] # i}

\* sha256 of an archive that has gone is null, which bytesToHex cannot take.
WithZip(t)  == t = "async" /\ task = "createWithZip"
HashNull(t) == WithZip(t) /\ zip = "absent"
Roots(t)    == IF t = "main" \/ (t = "async" /\ task # "retry") THEN 1 ELSE 0

\* Formatting a null digest for If-None-Match kills the process.
HashFails(t) ==
  /\ pc[t] = "calling" /\ settings = "valid" /\ ~isDownloading
  /\ HashNull(t)
  /\ Die /\ UNCHANGED kills

\* The download starts inside the DownloadManager before ...
enqueue(t, i) ==
  /\ pc[t] = "calling" /\ settings = "valid" /\ ~isDownloading
  /\ ~HashNull(t)
  /\ i \in FreeIds
  /\ dm' = [dm EXCEPT ![i] = "running"] /\ ref' = [ref EXCEPT ![t] = i]
  /\ roots' = roots + Roots(t)
  /\ Goto(t, "enqueued")
  /\ UNCHANGED <<files, announced, alive, scanning, bound, downloadRef, queue,
                 task, src, receiver, isPythonInitialized, scans, kills, torn,
                 causes>>

\* ... its id is assigned to the field the receiver compares with.
AssignRef(t) ==
  /\ pc[t] = "enqueued"
  /\ downloadRef' = ref[t] /\ ref' = [ref EXCEPT ![t] = 0]
  /\ Goto(t, "idle") /\ task' = TaskAfter(t)
  /\ UNCHANGED <<files, platform, bound, queue, src, receiver,
                 isPythonInitialized, history>>

\* External: the DownloadManager ends a download, 304 and network errors as
\* "failed", and broadcasts its id to the receivers there are.
Finish(i, status) ==
  /\ dm[i] = "running"
  /\ dm' = [dm EXCEPT ![i] = status]
  /\ announced' = IF alive THEN announced \cup {i} ELSE announced
  /\ UNCHANGED <<files, alive, scanning, bound, downloadRef, calls, receiver,
                 isPythonInitialized, history>>

-----------------------------------------------------------------------------
(* initPython's creation thread.                                           *)

\* initPython(): a new thread t starts; the caller goes on.
initPython(t) == pc[t] = "idle" /\ Goto(t, "deleting")

\* Extractions under way are damaged by whoever deletes the tree under them
\* or truncates the archive they read.
Damaged == [t \in InitThreads |->
              IF pc[t] = "unzipping" THEN "partial" ELSE src[t]]

\* Without .debug: delete the tree, then open the archive.
DeleteTree(t) ==
  /\ pc[t] = "deleting"
  /\ IF debug
     THEN Goto(t, "moving") /\ UNCHANGED <<tree, src>>
     ELSE /\ tree' = IF zip = "absent" THEN "none" ELSE "partial"
          /\ Goto(t, IF zip = "absent" THEN "discarding" ELSE "unzipping")
          /\ src' = [Damaged EXCEPT ![t] = zip]
  /\ UNCHANGED <<settings, zip, config, debug, platform, bound, downloadRef,
                 queue, task, ref, receiver, isPythonInitialized, history>>

\* The stream is read to its end: of a damaged archive an early end of the
\* entries is not an error.
Unzipped(t) ==
  /\ pc[t] = "unzipping"
  /\ IF src[t] = "good" THEN tree' = "full" ELSE tree' \in {"partial", tree}
  /\ Goto(t, "moving")
  /\ UNCHANGED <<settings, zip, config, debug, platform, bound, downloadRef,
                 queue, task, ref, src, receiver, isPythonInitialized, history>>

UnzipFails(t) ==
  /\ pc[t] = "unzipping"
  /\ tree' \in {"partial", tree}
  /\ Goto(t, "discarding")
  /\ UNCHANGED <<settings, zip, config, debug, platform, bound, downloadRef,
                 queue, task, ref, src, receiver, isPythonInitialized, history>>

\* assetsZip.delete() and straight into downloadAssets().
DiscardUnreadable_NoRetry(t) ==
  /\ pc[t] = "discarding"
  /\ zip' = "absent" /\ torn' = FALSE /\ Goto(t, "idle")
  /\ UNCHANGED <<settings, tree, config, debug, platform, bound, downloadRef,
                 queue, task, ref, src, receiver, isPythonInitialized, scans,
                 kills, roots, causes>>

DiscardUnreadable(t) ==
  /\ pc[t] = "discarding"
  /\ zip' = "absent" /\ torn' = FALSE /\ Goto(t, "calling")
  /\ UNCHANGED <<settings, tree, config, debug, platform, bound, downloadRef,
                 queue, task, ref, src, receiver, isPythonInitialized, scans,
                 kills, roots, causes>>

\* The two renames: a failed one is only logged.
MoveConfig(t, moved) ==
  /\ pc[t] = "moving"
  /\ (tree = "full" => moved) /\ (tree = "none" => ~moved)
  /\ config' = (config \/ moved)
  /\ Goto(t, "initializing")
  /\ UNCHANGED <<settings, zip, tree, debug, platform, bound, downloadRef,
                 queue, task, ref, src, receiver, isPythonInitialized, history>>

initializePython(t, ok) ==
  /\ pc[t] = "initializing"
  /\ isPythonInitialized' = (isPythonInitialized \/ ok)
  /\ causes' = IF ok THEN causes ELSE causes \cup {"failed"}
  /\ Goto(t, "idle")
  /\ UNCHANGED <<files, platform, bound, downloadRef, queue, task, ref, src,
                 receiver, scans, kills, roots, torn>>

\* Entering the interpreter while another thread is in it, or once it runs and
\* without its lock, is undefined: it may work, as above, or kill the process.
InterpreterCrash(t) ==
  /\ pc[t] = "initializing"
  /\ isPythonInitialized \/ \E u \in InitThreads \ {t} : pc[u] = "initializing"
  /\ Die /\ UNCHANGED kills

-----------------------------------------------------------------------------
(* The receiver, on the DownloadThread.                                    *)

\* An id that is not downloadRef, e.g. because AssignRef has yet to run, is
\* dropped, and so is one the DownloadManager no longer knows.
ReceiveForeign(i) ==
  /\ dlPc = "idle" /\ i \in announced
  /\ i # downloadRef \/ dm[i] = "none"
  /\ announced' = announced \ {i}
  /\ causes' = IF \E t \in Callers : ref[t] = i
               THEN causes \cup {"early"} ELSE causes
  /\ UNCHANGED <<files, dm, alive, scanning, bound, downloadRef, calls,
                 receiver, isPythonInitialized, scans, kills, roots, torn>>

ReceiveFailed_InitAndRetry(i) ==
  /\ dlPc = "idle" /\ i \in announced /\ i = downloadRef /\ dm[i] = "failed"
  /\ announced' = announced \ {i}
  /\ dlPc' = "backoff"
  /\ IF zip # "absent" THEN \E t \in InitThreads : initPython(t)
     ELSE UNCHANGED pc
  /\ UNCHANGED <<files, dm, alive, scanning, bound, downloadRef, queue, task,
                 ref, src, dlId, isPythonInitialized, history>>

\* A failed download (a 304 is one) falls back on the archive there is.
ReceiveFailed(i) ==
  /\ dlPc = "idle" /\ i \in announced /\ i = downloadRef /\ dm[i] = "failed"
  /\ announced' = announced \ {i}
  /\ IF zip # "absent"
     THEN dlPc' = "idle" /\ \E t \in InitThreads : initPython(t)
     ELSE dlPc' = "backoff" /\ UNCHANGED pc
  /\ UNCHANGED <<files, dm, alive, scanning, bound, downloadRef, queue, task,
                 ref, src, dlId, isPythonInitialized, history>>

ReceiveSuccess(i) ==
  /\ dlPc = "idle" /\ i \in announced /\ i = downloadRef /\ dm[i] = "success"
  /\ announced' = announced \ {i} /\ dlPc' = "opening" /\ dlId' = i
  /\ UNCHANGED <<files, dm, alive, scanning, bound, downloadRef, calls,
                 isPythonInitialized, history>>

\* The steps below leave all but the receiver and the archive alone.
OnlyReceiver ==
  UNCHANGED <<settings, tree, config, debug, dm, announced, alive, scanning,
              bound, downloadRef, task, ref, isPythonInitialized, scans, kills,
              roots, causes>>

\* openDownloadedFile(downloadRef), the field and not the id received.
OpenDownload ==
  /\ dlPc = "opening" /\ dm[downloadRef] = "success"
  /\ zip' = "partial" /\ torn' = FALSE /\ dlPc' = "copying"
  /\ src' = IF zip = "absent" THEN src ELSE Damaged
  /\ UNCHANGED <<dlId, queue, pc>> /\ OnlyReceiver

OpenFails ==
  /\ dlPc = "opening" /\ dm[downloadRef] # "success"
  /\ dlPc' = "discarding"
  /\ UNCHANGED <<src, zip, torn, dlId, queue, pc>> /\ OnlyReceiver

\* Decrypting and copying ends; a file unlinked meanwhile has no name.
CopyEnds_InitBeforeVerify(result) ==
  /\ dlPc = "copying"
  /\ zip' = IF zip = "absent" THEN "absent" ELSE result
  /\ \E t \in InitThreads : initPython(t)
  /\ dlPc' = "verifying"
  /\ UNCHANGED <<src, torn, dlId, queue>> /\ OnlyReceiver

CopyEnds(result) ==
  /\ dlPc = "copying"
  /\ zip' = IF zip = "absent" THEN "absent" ELSE result
  /\ dlPc' = "verifying"
  /\ UNCHANGED <<src, torn, dlId, queue, pc>> /\ OnlyReceiver

CopyFails ==
  /\ dlPc = "copying"
  /\ dlPc' = "discarding"
  /\ UNCHANGED <<src, zip, torn, dlId, queue, pc>> /\ OnlyReceiver

\* The digest of the file decides; of a file that has gone it is null, which
\* equals no digest.
DigestMatches == zip = "good"

Verified_AnyDigest ==
  /\ dlPc = "verifying"
  /\ \E t \in InitThreads : initPython(t)
  /\ dlPc' = "finally"
  /\ UNCHANGED <<src, zip, torn, dlId, queue>> /\ OnlyReceiver

Verified ==
  /\ dlPc = "verifying" /\ DigestMatches
  /\ \E t \in InitThreads : initPython(t)
  /\ dlPc' = "finally"
  /\ UNCHANGED <<src, zip, torn, dlId, queue>> /\ OnlyReceiver

VerifyFails ==
  /\ dlPc = "verifying" /\ ~DigestMatches
  /\ dlPc' = "discarding"
  /\ UNCHANGED <<src, zip, torn, dlId, queue, pc>> /\ OnlyReceiver

\* assetsDest.delete() in both catch blocks, five seconds of sleep, and ...
DiscardDownload_KeepsFile ==
  /\ dlPc = "discarding"
  /\ dlPc' = "retrying"
  /\ UNCHANGED <<src, zip, torn, dlId, queue, pc>> /\ OnlyReceiver

DiscardDownload ==
  /\ dlPc = "discarding"
  /\ zip' = "absent" /\ torn' = FALSE /\ dlPc' = "retrying"
  /\ UNCHANGED <<src, dlId, queue, pc>> /\ OnlyReceiver

\* ... a new DownloadAssetsTask; finally still follows a caught exception.
ExecuteRetry_Forgotten ==
  /\ dlPc \in {"backoff", "retrying"}
  /\ dlPc' = IF dlPc = "backoff" THEN "idle" ELSE "finally"
  /\ UNCHANGED <<src, zip, torn, dlId, queue, pc>> /\ OnlyReceiver

ExecuteRetry ==
  /\ dlPc \in {"backoff", "retrying"}
  /\ queue' = Append(queue, "retry")
  /\ dlPc' = IF dlPc = "backoff" THEN "idle" ELSE "finally"
  /\ UNCHANGED <<src, zip, torn, dlId, pc>> /\ OnlyReceiver

\* downloadManager.remove(downloadRef): whatever the field holds by now.
RemoveDownload ==
  /\ dlPc = "finally"
  /\ dm' = [dm EXCEPT ![downloadRef] = "none"]
  /\ causes' = IF downloadRef # dlId THEN causes \cup {"removed"} ELSE causes
  /\ dlPc' = "idle" /\ dlId' = 0
  /\ UNCHANGED <<files, announced, alive, scanning, bound, downloadRef, calls,
                 isPythonInitialized, scans, kills, roots, torn>>

-----------------------------------------------------------------------------
(* The specification.                                                      *)

Platform ==
  \/ onCreate \/ Kill
  \/ \E i \in DownloadIds, status \in {"failed", "success"} : Finish(i, status)

MainThread ==
  \/ onServiceConnected \/ enroll \/ EnrolmentCanceled \/ ScanResult
  \/ \E s \in {"valid", "invalid"} : WriteSettings(s)
  \/ EnrolmentFailed

downloadAssets(t) ==
  \/ NoSettings(t) \/ HashFails(t) \/ AssignRef(t)
  \/ \E i \in DownloadIds : enqueue(t, i)

CreationThread(t) ==
  \/ DeleteTree(t) \/ Unzipped(t) \/ UnzipFails(t) \/ DiscardUnreadable(t)
  \/ \E moved \in BOOLEAN : MoveConfig(t, moved)
  \/ \E ok \in BOOLEAN : initializePython(t, ok)
  \/ InterpreterCrash(t)

onReceive ==
  \/ \E i \in DownloadIds : ReceiveForeign(i) \/ ReceiveFailed(i) \/ ReceiveSuccess(i)
  \/ OpenDownload \/ OpenFails
  \/ \E result \in {"corrupt", "good"} : CopyEnds(result)
  \/ CopyFails \/ Verified \/ VerifyFails
  \/ DiscardDownload \/ ExecuteRetry \/ RemoveDownload

Next ==
  \/ Platform \/ MainThread \/ doInBackground \/ onReceive
  \/ \E t \in Callers : downloadAssets(t)
  \/ \E t \in InitThreads : CreationThread(t)

Spec == Init /\ [][Next]_vars

\* Every thread that can run does, the system restarts a killed START_STICKY
\* service, and a download, a copy, an extraction or an initialisation that is
\* tried again and again succeeds in the end.  Nobody need press a button.
Fairness ==
  /\ WF_vars(onCreate)
  /\ WF_vars(\E s \in {"valid", "invalid"} : WriteSettings(s))
  /\ WF_vars(doInBackground) /\ WF_vars(onReceive)
  /\ \A t \in Callers : WF_vars(downloadAssets(t))
  /\ \A t \in InitThreads : WF_vars(CreationThread(t)) /\ SF_vars(Unzipped(t))
  /\ \A i \in DownloadIds :
       /\ WF_vars(\E status \in {"failed", "success"} : Finish(i, status))
       /\ SF_vars(Finish(i, "success"))
  /\ SF_vars(CopyEnds("good"))

FairSpec == Spec /\ Fairness

-----------------------------------------------------------------------------
(* Properties.                                                             *)

Number(S) == Cardinality(S)

\* What keeps the way to Python going: a download whose end the receiver will
\* recognise, a retry to be run, the receiver at work, a creation thread.
LiveDownloads == {i \in DownloadIds :
                    /\ dm[i] = "running" \/ i \in announced
                    /\ i = downloadRef \/ \E t \in Callers : ref[t] = i}
Retries == {k \in 1..Len(queue) : queue[k] = "retry"}
RetryRuns == IF task = "retry" /\ pc["async"] = "calling" THEN 1 ELSE 0
ReceiverWorks == IF dlPc \in DlBusy THEN 1 ELSE 0
ActiveInits == {t \in InitThreads : pc[t] \in InitBusy \cup {"calling"}}
Tokens == Number(LiveDownloads) + Number(Retries) + RetryRuns + ReceiverWorks
            + Number(ActiveInits)

\* However often a download, a check or an extraction fails and is retried,
\* the retries never multiply: each download begun by onCreate or by a scan
\* is followed by at most one activity at a time.
OneChain == Tokens <= roots

\* So, while only one download was begun in this process, nobody rewrites the
\* archive while a creation thread reads it, and no two threads unpack it or
\* enter the interpreter together.
ExclusiveArchive ==
  roots <= 1 =>
    /\ dlPc \in DlBusy => \A t \in InitThreads : pc[t] \notin InitBusy
    /\ \A t, u \in InitThreads :
         pc[t] \in InitBusy /\ pc[u] \in InitBusy => t = u

\* A damaged assets.zip is on disk only while the receiver is busy with it,
\* unless a process died writing it: initPython's fallback to the archive
\* there is relies on it.
ZipIntegrity ==
  zip \in {"partial", "corrupt"} => torn \/ dlPc \in DlWriting

\* assets.zip as the archive of VerifiedArchive, which is never trusted before it
\* has been verified.
archiveState ==
  IF zip = "absent" THEN "none"
  ELSE IF dlPc \in DlWriting THEN "suspect"
  ELSE IF zip = "good" THEN "sound"
  ELSE IF torn THEN "torn" ELSE "trusted though unfit"

Archive == INSTANCE VerifiedArchive WITH archive <- archiveState
\* As far as assets.zip goes, every step is a write of a suspect archive, its
\* acceptance, its discard, or a process death, through every retry and overlap
\* (EPCService.java:121-162).
ImplementsVerifiedArchive == Archive!Spec

\* Python counts as started only on a complete tree with its configuration in
\* place, with one download in this process and no torn archive.
VerifiedBoot ==
  roots <= 1 /\ ~debug /\ ~torn /\ isPythonInitialized
    => tree = "full" /\ config

Quiescent ==
  /\ alive /\ queue = <<>> /\ announced = {} /\ dlPc = "idle"
  /\ \A t \in Callers : pc[t] = "idle"
  /\ \A i \in DownloadIds : dm[i] # "running"

\* An enrolled agent does not just stop: when nothing is left to happen,
\* Python runs or one of the recorded causes is to blame.
NoSilentStall ==
  Quiescent /\ settings = "valid" => isPythonInitialized \/ causes # {}

\* The archive whose digest goes into If-None-Match is still there when the
\* task runs: a null digest kills the process.
HeaderHasArchive ==
  pc["async"] = "calling" /\ task = "createWithZip" /\ roots = 0
    => zip # "absent"

\* downloadAssets does not start what the DownloadManager is already
\* downloading ("Assets already downloading", EPCService.java:337).
NoDuplicateDownload ==
  \A i, j \in DownloadIds : dm[i] = "running" /\ dm[j] = "running" => i = j

\* An enrolled agent gets Python running in the end, through any number of
\* failed downloads, checks and extractions, unless a recorded cause stops it,
\* a scan rewrites its settings or a second download is begun: two chains can
\* delete each other's archive for ever.
EventuallyPython ==
  settings = "valid" ~>
    \/ isPythonInitialized \/ causes # {}
    \/ settings # "valid" \/ roots > 1

=============================================================================
