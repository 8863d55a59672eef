CONSTANTS
    p1 = p1
    p2 = p2
    v1 = v1
    v2 = v2
    Procs = {p1, p2}
    Versions = {v1, v2}
    None = None
    Partial = Partial
    MaxCmd = 3
SPECIFICATION Spec
INVARIANTS TypeOK  
PROPERTIES ClaimEnds
CHECK_DEADLOCK FALSE
