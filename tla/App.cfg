\* Two services one after the other in one process, three creation threads, one
\* event; three scanners at a time.
CONSTANTS
  MaxInstances = 2
  Creators = {c1, c2, c3}
  Workers = {w1}
  NoThread = NoThread
  MaxScans = 3
SPECIFICATION MCSpec
\* A process that has ended stops.
CHECK_DEADLOCK FALSE
INVARIANTS
  InitializedMeansUp
PROPERTIES
  EntersNewInterpreter
  EventuallyInitialized
  BadScanIsForEver
