\* A broadcast on the main thread and a message on its own: two workers that
\* contend for the GIL and, with the second call, for the monitor.
CONSTANTS
  Intents = {b1, f1}
  MainIntents = {b1}
  PlainIntents = {}
  Refreshes = {}
  CreationThread = CreationThread
  NoThread = NoThread
  NoIntent = NoIntent
  MaxInt = 4
SPECIFICATION FairSpec
\* The events end, or wait for a leaked GIL.
CHECK_DEADLOCK FALSE
PROPERTIES
  EventsHandled
