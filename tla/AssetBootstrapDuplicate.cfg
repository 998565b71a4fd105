CONSTANTS
  DownloadIds = {d1, d2}
  InitThreads = {t1}
  MaxScans = 1
  MaxKills = 0
SPECIFICATION Spec
CHECK_DEADLOCK FALSE
INVARIANTS
  NoDuplicateDownload
