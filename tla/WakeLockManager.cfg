\* Four calls and an int that overflows after three: one number comes round.
CONSTANTS
  Intents = {e1, e2, e3, e4}
  MaxInt = 3
  NoIntent = NoIntent
SPECIFICATION Spec
\* The calls end.
CHECK_DEADLOCK FALSE
INVARIANTS
  LockStaysUntilCompleted
  CompletedGivesBack
  UsableNumber
