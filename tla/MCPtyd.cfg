CONSTANTS
  Ids = {i1, i2}
  MaxPane = 2
  MaxConn = 2
SPECIFICATION Spec
INVARIANTS
  TypeOK
  OwnerServes
  DroppedIffUnheld
PROPERTIES
  LivesByTheBook
  LeavesMapRightfully
  Reaped
  ExitPublished
