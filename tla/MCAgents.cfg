CONSTANTS
    p1 = p1
    p2 = p2
    Panes = {p1, p2}
    NoEntry = NoEntry
    Talking = {p1}
    MaxChunk = 1
SPECIFICATION AgentsSpec
INVARIANTS Hushed
PROPERTIES KeepsPlace SeenFades
