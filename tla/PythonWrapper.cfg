CONSTANTS
  Threads = {p1, p2, p3, p4}
  NoThread = NoThread
SPECIFICATION Spec
\* The calls end, or wait for a leaked GIL.
CHECK_DEADLOCK FALSE
INVARIANTS
  RunsWithGil
  GilLostOnlyByRaise
  OneRaiseIsFatal
