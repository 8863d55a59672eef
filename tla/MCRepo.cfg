CONSTANTS
    t1 = t1
    t2 = t2
    r1 = r1
    Tasks = {t1, t2}
    Roots = {r1}
    Sequencers = {"rebase", "cherry-pick"}
    None = None
SPECIFICATION Spec
INVARIANTS TypeOK   
PROPERTIES Answered
CHECK_DEADLOCK FALSE
