SPECIFICATION FairSpec
CHECK_DEADLOCK FALSE
CONSTANTS
  Peer = {p1, p2}
  Id = {x, y}
  Nonce <- MCNonce
  NonceAfter <- StringAfter
  Absent = Absent
  Snapshot <- MCSnapshot
  MaxDepth = 2
  MaxVersion = 2
  MaxEdits = 3
  MaxSteps = 2
  Undoer = {p1}
  Touches <- MCTouches
  x = x
  y = y
INVARIANT OwnWorkSurvives
PROPERTIES OnlyUndoGoesBack KeepsThePromise PeersAgreeAtLast
