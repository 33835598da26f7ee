SPECIFICATION MCSpec
CHECK_DEADLOCK FALSE
CONSTANTS
  e1 = e1  e2 = e2  v1 = v1
  Editor = {e1, e2}
  Viewer = {v1}
  None = None
  MaxSnapshots = 2
  MaxHibernations = 1
  MaxFailures = 1
  MaxReadErrors = 1
  Capacity = 1
  MaxConnections = 2
  MaxFrames = 2
SYMMETRY Interchangeable
INVARIANTS TypeOK RolesSurvive EverySnapshotIsWritten StaysWarm NoEcho
           LanRoomIsItsMembers
