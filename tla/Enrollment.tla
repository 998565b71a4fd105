----------------------------- MODULE Enrollment -----------------------------
(***************************************************************************)
(* HomeFragment and EPCDeviceAdminReceiver: the button that starts a scan, *)
(* what the text of a QR code does to user-settings.json, and what becomes *)
(* of an enrolled device when its administrator is disabled.               *)
(* AssetBootstrap starts where this ends: with a scan's result.            *)
(***************************************************************************)
EXTENDS Naturals

CONSTANT MaxScans  \* bound: scanner activities open at a time

\* QR codes, by what the code can tell of them: scheme "none" is text that is
\* no absolute address; an address that is not hierarchical ("mailto:x") has
\* no query; id says that INSTANCE_ID is there.
Codes == [scheme : {"epcontrol", "other", "none"}, hierarchical : BOOLEAN, id : BOOLEAN]

NoCode == [scheme |-> "none", hierarchical |-> FALSE, id |-> FALSE]

VARIABLES
  userSettings,  \* user-settings.json: only "valid" has an INSTANCE_ID
  alive,         \* the process, and in it the activity with its fragment
  button,        \* the enrolment button of the present view
  resumed,       \* the activity is in the foreground and takes clicks
  scanners,      \* scanner activities whose result is outstanding
  writing,       \* the code onActivityResult is writing out, or NoCode
  admin          \* the device administrator is enabled

vars == <<userSettings, alive, button, resumed, scanners, writing, admin>>

TypeOK ==
  /\ userSettings \in {"absent", "partial", "noId", "valid"}
  /\ alive \in BOOLEAN /\ button \in {"visible", "gone"}
  /\ resumed \in BOOLEAN /\ scanners \in 0..MaxScans
  /\ writing \in Codes \cup {NoCode} /\ admin \in BOOLEAN

Init ==
  /\ userSettings = "absent" /\ alive = FALSE /\ button = "visible"
  /\ resumed = FALSE /\ scanners = 0 /\ writing = NoCode /\ admin = FALSE

-----------------------------------------------------------------------------
(* The view, on the main thread.                                           *)

\* The button is hidden and never shown again in the same view.
updateEnrollButtonVisibility(b) == IF userSettings = "absent" THEN b ELSE "gone"

\* The process starts, or the system brings its activity back.
onCreateView ==
  /\ ~alive
  /\ alive' = TRUE /\ button' = updateEnrollButtonVisibility("visible")
  /\ UNCHANGED <<userSettings, resumed, scanners, writing, admin>>

\* External: results are delivered before the activity is resumed.
onResume_NoUpdate ==
  /\ alive /\ ~resumed /\ scanners = 0 /\ writing = NoCode
  /\ resumed' = TRUE
  /\ UNCHANGED <<userSettings, alive, button, scanners, writing, admin>>

onResume ==
  /\ alive /\ ~resumed /\ scanners = 0 /\ writing = NoCode
  /\ resumed' = TRUE /\ button' = updateEnrollButtonVisibility(button)
  /\ UNCHANGED <<userSettings, alive, scanners, writing, admin>>

\* A click; a second one may come before the scanner covers the button.
enroll ==
  /\ resumed /\ button = "visible" /\ scanners < MaxScans
  /\ scanners' = scanners + 1 /\ button' = updateEnrollButtonVisibility(button)
  /\ UNCHANGED <<userSettings, alive, resumed, writing, admin>>

\* External: another activity comes to the front.
Pause ==
  /\ resumed /\ resumed' = FALSE
  /\ UNCHANGED <<userSettings, alive, button, scanners, writing, admin>>

-----------------------------------------------------------------------------
(* The result of a scan.                                                   *)

Result == alive /\ ~resumed /\ writing = NoCode /\ scanners > 0 /\ scanners' = scanners - 1

Canceled == Result /\ UNCHANGED <<userSettings, alive, button, resumed, writing, admin>>

\* The process is gone, and with it the view.
Die == /\ alive' = FALSE /\ button' = "visible" /\ resumed' = FALSE /\ writing' = NoCode

\* getScheme() is null: an exception nobody catches, before anything is written.
NoScheme(c) ==
  /\ Result /\ c.scheme = "none"
  /\ Die /\ UNCHANGED <<userSettings, admin>>

\* The file is truncated; a wrong scheme only shows a message.
OpenSettings(c) ==
  /\ Result /\ c.scheme # "none"
  /\ userSettings' = "partial" /\ writing' = c
  /\ UNCHANGED <<alive, button, resumed, admin>>

\* getQueryParameterNames() of an address that is not hierarchical: another
\* exception nobody catches, and nothing has left the writer's buffer.
NotHierarchical ==
  /\ writing # NoCode /\ ~writing.hierarchical
  /\ Die /\ UNCHANGED <<userSettings, scanners, admin>>

CloseSettings ==
  /\ writing # NoCode /\ writing.hierarchical
  /\ userSettings' = IF writing.id THEN "valid" ELSE "noId"
  /\ writing' = NoCode
  /\ UNCHANGED <<alive, button, resumed, scanners, admin>>

\* An IOException is caught: "Enrollment failed".
EnrollmentFailed ==
  /\ writing # NoCode /\ writing' = NoCode
  /\ UNCHANGED <<userSettings, alive, button, resumed, scanners, admin>>

onActivityResult ==
  \/ Canceled \/ NotHierarchical \/ CloseSettings \/ EnrollmentFailed
  \/ \E c \in Codes : NoScheme(c) \/ OpenSettings(c)

\* External: the system kills the process; the scanners are restored with
\* the task.
Kill == alive /\ Die /\ UNCHANGED <<userSettings, scanners, admin>>

-----------------------------------------------------------------------------
(* The device administrator.                                               *)

onEnabled ==
  /\ ~admin /\ admin' = TRUE
  /\ UNCHANGED <<userSettings, alive, button, resumed, scanners, writing>>

\* The file deleted is user_settings.json, which nothing writes.
onDisabled ==
  /\ admin /\ admin' = FALSE
  /\ UNCHANGED <<userSettings, alive, button, resumed, scanners, writing>>

Next ==
  \/ onCreateView \/ onResume \/ enroll \/ Pause \/ onActivityResult \/ Kill
  \/ onEnabled \/ onDisabled

Spec == Init /\ [][Next]_vars

-----------------------------------------------------------------------------
(* Properties.                                                             *)

\* Settings without an INSTANCE_ID, with no scan under way.
Unusable == userSettings \in {"partial", "noId"} /\ scanners = 0 /\ writing = NoCode

\* Settings without an INSTANCE_ID stay: once the scans begun so far are over,
\* a wrong QR code, a crash or an error half way has locked the device out of
\* enrolment for as long as the application's data last.
BadScanIsForEver == [][Unusable => Unusable']_vars

=============================================================================
