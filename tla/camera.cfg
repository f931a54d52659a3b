SPECIFICATION Spec
CONSTANTS
  Rows = 2
  Cols = 1
  MaxPictures = 2
INVARIANTS
  RowsInPlace
  CopyInBounds
  NoFalseAlarm
PROPERTIES
  CopyIsStable
  DriverKeepsContract
  WaitEnds
