\* Two Java threads and three of the Python program.
CONSTANTS
  JavaThreads = {j1, j2}
  NativeThreads = {n1, n2, n3}
SPECIFICATION Spec
\* The threads end.
CHECK_DEADLOCK FALSE
INVARIANTS
  EnvIsAttached
  KeyedEndDetached
