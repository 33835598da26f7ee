CONSTANTS
  Editor = {e1,e2}
  Viewer = {}
  Element = {x}
  Comment = {}
  Nonce = {1}
  NonceAfter <- Later
  Absent = Absent
  NoSnapshot = NoSnapshot
  Periodic = {e1,e2}
  MaxEdits = 1
  MaxBreaks = 1
SPECIFICATION FairSpec
PROPERTIES
  EditorsWorkReachesEverybody
CHECK_DEADLOCK FALSE
