SPECIFICATION MCSpec
CONSTANTS
    a1 = a1
    b2 = b2
    c2 = c2
    c3 = c3
    Genesis = g
    NoBlock = none
    Blocks = {g, a1, b2, c2, c3}
    Prev <- MCPrev
    Ancestors <- MCAncestors
    ChainWork <- MCChainWork
    Faults = {"power", "shutdown", "disk"}
    MaxStops = 2
    MaxFiles = 1
INVARIANTS
    StoreTypeOK
    RestartFindsCandidates
    BestHasMostWork
CHECK_DEADLOCK FALSE
