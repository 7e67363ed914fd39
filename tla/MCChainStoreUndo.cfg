SPECIFICATION StoreSpec
CONSTANTS
    a1 = a1
    b2 = b2
    c2 = c2
    c3 = c3
    Genesis = g
    NoBlock = none
    Blocks = {g, a1, b2, c2, c3}
    Prev <- MCPrev
    Ancestors <- MCAncestors
    ChainWork <- MCChainWork
    Faults = {}
    MaxStops = 0
    MaxFiles = 2
INVARIANTS
    UndoRecoverable
CHECK_DEADLOCK FALSE
