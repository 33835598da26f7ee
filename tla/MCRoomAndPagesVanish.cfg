SPECIFICATION MCSpec
CHECK_DEADLOCK FALSE
CONSTANTS
  Editor = {e1}
  Viewer = {v1}
  Element = {}
  Comment = {c}
  Nonce = {1, 2}
  NonceAfter <- Later
  Absent = Absent
  NoSnapshot = NoSnapshot
  Periodic = {}
  MaxEdits = 2
  MaxBreaks = 1
  p1 = p1 p2 = p2
  Author = {p1, p2}
  Page = {1, 2, 3}
  NotJoining = NotJoining
  MaxChanges = 4
  MaxPublished = 2
INVARIANT PagesNobodyElsesPageVanishes
