SPECIFICATION Spec
CHECK_DEADLOCK FALSE
CONSTANTS
  Path = {a, b}
  Stroke = {s1}
  Foreign = {f1}
  MaxTurns = 5
  None = none
  Gone = gone
INVARIANT CleanIsWritten
