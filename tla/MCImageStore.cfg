SPECIFICATION Spec
CHECK_DEADLOCK FALSE
CONSTANTS
  i1 = i1 i2 = i2
  Image = {i1, i2}
  Room = 1
  MaxAutomatic = 1
  MaxWriters = 2
  MaxPasses = 2
  MaxTurns = 3
  None = none
SYMMETRY Interchangeable
INVARIANT ImagesAreKept
PROPERTY CollectionSparesTheBoard
