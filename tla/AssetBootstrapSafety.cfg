\* Two scans, the second result of which may arrive in a later process, one
\* process death and two creation threads; with one scan, the three ids leave
\* room for a download that outlives its process beside two of the next one.
CONSTANTS
  DownloadIds = {d1, d2, d3}
  InitThreads = {t1, t2}
  MaxScans = 2
  MaxKills = 1
SPECIFICATION Spec
SYMMETRY Symmetry
CONSTRAINT FewDownloads
\* An idle service waits for an event.
CHECK_DEADLOCK FALSE
INVARIANTS
  TypeOK
  OneChain
  ExclusiveArchive
  ZipIntegrity
  VerifiedBoot
  NoSilentStall
  HeaderHasArchive
PROPERTIES
  ImplementsVerifiedArchive
