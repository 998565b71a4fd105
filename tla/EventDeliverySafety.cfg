\* Two broadcasts on the main thread, a message on its own, the activity's
\* start and one refresh; no wake lock number comes round.
CONSTANTS
  Intents = {b1, b2, f1}
  MainIntents = {b1, b2}
  PlainIntents = {a1}
  Refreshes = {r1}
  CreationThread = CreationThread
  NoThread = NoThread
  NoIntent = NoIntent
  MaxInt = 3
SPECIFICATION Spec
SYMMETRY Symmetry
\* The events end, or wait for a leaked GIL.
CHECK_DEADLOCK FALSE
INVARIANTS
  AwakeInPython
  PythonReady
  EntryUntilServed
PROPERTIES
  UsesWakeLocks
  UsesPython
