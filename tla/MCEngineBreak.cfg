CONSTANTS
  Tasks = {t1}
  MaxPane = 2
  MaxConn = 1
  MaxCmd = 3
SPECIFICATION Spec
INVARIANT BreakKeepsPanes
