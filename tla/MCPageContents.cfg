SPECIFICATION MCSpec
CHECK_DEADLOCK FALSE
CONSTANTS
  p1 = p1 p2 = p2 l1 = l1 l2 = l2 l3 = l3
  Peer = {p1, p2}
  Nonce <- MCNonce
  NonceAfter <- StringAfter
  Absent = Absent
  MaxThreads = 1
  MaxMessages = 2
  MaxPerThread = 1
  MaxVersion = 3
  MaxChanges = 5
  LayerId = {l1, l2, l3}
  LayerNonce = {1, 2}
  MAX_LAYERS = 2
  MaxLayerVersion = 3
  MaxReloads = 1
  Drawn = {1, 2, 3}
  DrawnNonce = {1, 2, 3}
  SomeNonce = 2
  Place = {1, 2}
  Unit = 64
  MaxDrawn = 2
  MaxMoves = 2
SYMMETRY Interchangeable
INVARIANTS PageIsWhole SettledPeersAgree OrderStackingKeepsOrder
PROPERTIES EachIsARegister LayersDeletedStaysDead
