CONSTANTS
    r1 = r1
    r2 = r2
    Slots = {r1, r2}
    MaxWin = 2
    MaxPane = 3
    MaxOps = 4
    None = None
SPECIFICATION Spec
INVARIANTS OneClient 
PROPERTIES Appears Forgotten
CHECK_DEADLOCK FALSE
