CONSTANTS
    p1 = p1
    p2 = p2
    h1 = h1
    Panes = {p1, p2}
    Handlers = {h1}
    None = None
    Writing = {p1}
    MaxOut = 2
    Cap = 2
    MaxCmds = 2
    MaxConns = 2
    MaxFails = 1
SPECIFICATION Spec
CHECK_DEADLOCK FALSE
INVARIANTS  Lossless LiveIsCurrent
