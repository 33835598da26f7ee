SPECIFICATION FairSpec
CHECK_DEADLOCK FALSE
CONSTANTS
  Peer = {p1}
  MaxJoins = 2
  MaxAttempts = 1
  MaxLosses = 2
INVARIANTS OneSession ShownIsTrue
PROPERTIES QuietAfterEnd EverythingSettles
