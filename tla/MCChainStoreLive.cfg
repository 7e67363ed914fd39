SPECIFICATION StoreLiveSpec
CONSTANTS
    a1 = a1
    b2 = b2
    c2 = c2
    c3 = c3
    Genesis = g
    NoBlock = none
    Blocks = {g, a1, b2, c2, c3}
    Prev <- MCPrev
    Ancestors <- MCAncestors
    ChainWork <- MCChainWork
    Faults = {"crash", "shutdown"}
    MaxStops = 2
    MaxFiles = 1
PROPERTIES
    NodeComesUp
CHECK_DEADLOCK FALSE
