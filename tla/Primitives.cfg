CONSTANT MaxLevel = 2
SPECIFICATION Spec
\* A process whose assertion failed stops.
CHECK_DEADLOCK FALSE
INVARIANTS ReturnsToText KnownAnswers
PROPERTIES RoundsAreFips
