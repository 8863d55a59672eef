CONSTANTS
  Tasks = {t1, t2}
  MaxPane = 2
  MaxConn = 2
  MaxCmd = 3
SPECIFICATION Spec
SYMMETRY Symmetry
INVARIANTS
  WindowsOfMirror
  
  MirrorTruth
  BlobFollows
PROPERTIES
  FreshIds
