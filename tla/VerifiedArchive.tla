--------------------------- MODULE VerifiedArchive ---------------------------
(***************************************************************************)
(* What the rest of the service relies on about assets.zip, and all of it: *)
(* an archive that is being written is suspect until it has been verified  *)
(* or deleted, and nothing unverified comes to rest under that name, but   *)
(* for what a process leaves that dies in between.                         *)
(***************************************************************************)
VARIABLE archive

Init == archive = "none"

\* A download is copied over whatever there is, or put in doubt.
Write == archive' = "suspect"

\* The digest is the expected one.
Accept == archive = "suspect" /\ archive' = "sound"

Discard == archive' = "none"

\* The process dies while the archive is suspect; what is left may be whole.
Die == archive = "suspect" /\ archive' \in {"sound", "torn"}

Next == Write \/ Accept \/ Discard \/ Die

Spec == Init /\ [][Next]_archive

=============================================================================
