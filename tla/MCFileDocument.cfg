SPECIFICATION FairSpec
CHECK_DEADLOCK FALSE
CONSTANTS
  Path = {a, b}
  Stroke = {s1, s2}
  Foreign = {f1}
  MaxTurns = 5
  None = none
  Gone = gone
INVARIANTS WorkIsSomewhere CleanMeansSaved
PROPERTIES ChangesAreShown
