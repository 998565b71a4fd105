CONSTANTS
  DownloadIds = {d1, d2}
  InitThreads = {t1}
  MaxScans = 1
  MaxKills = 1
SPECIFICATION FairSpec
CHECK_DEADLOCK FALSE
PROPERTIES
  EventuallyPython
