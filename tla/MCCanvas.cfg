SPECIFICATION MCSpec
CHECK_DEADLOCK FALSE
CONSTANTS
  pen = pen palm = palm mouse = mouse e1 = e1 e2 = e2
  Pen = {pen}
  Finger = {palm}
  Mouse = {mouse}
  Element = {e1, e2}
  Snapshot <- Scenes
  MaxDepth = 3
  NoPointer = NoPointer NoElement = NoElement NoTool = NoTool
  Tools = {"line", "shape", "select", "pan"}
  MaxGestures = 3
  p1 = p1 p2 = p2 s1 = s1 s2 = s2 a1 = a1 here = here t1 = t1
  Peer = {p1, p2}
  Shape = {s1, s2}
  Arrow = {a1}
  NoShape = NoShape NoRefs = NoRefs
  Absent = Absent
  Nonce = {1, 2}
  NonceAfter <- Greater
  MaxTurns = 2
  Text = {t1, t2}
  Box = {b1}
  Word = {hi, hello}
  Long = {hello}
  Spot = {here, there}
  NoWords = blank
  Deleted = deleted
  None = none
  MaxTyped = 3
INVARIANTS HandIsFree BatchHasAnOwner NothingUnrecorded
           ArrowsTurnsKeepBindings ArrowsQuietPeersAgree
           TextsLabelsAreGlued TextsShownIsRecorded
PROPERTIES GestureIsOneStep TextsEditIsOneStep
