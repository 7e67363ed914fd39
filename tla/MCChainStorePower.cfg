SPECIFICATION StoreSpec
CONSTANTS
    a1 = a1
    b2 = b2
    c2 = c2
    c3 = c3
    Genesis = g
    NoBlock = none
    Blocks = {g, a1, b2, c2, c3}
    Prev <- MCPrev
    Ancestors <- MCAncestors
    ChainWork <- MCChainWork
    Faults = {"disk"}
    MaxStops = 0
    MaxFiles = 2
INVARIANTS
    TipRecoverable
    BlocksRecoverable
CHECK_DEADLOCK FALSE
