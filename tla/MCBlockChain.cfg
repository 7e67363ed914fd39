SPECIFICATION LiveSpec
CONSTANTS
    a1 = a1
    b3 = b3
    b2 = b2
    c2 = c2
    c3 = c3
    Genesis = g
    NoBlock = none
    Blocks = {g, a1, b2, b3, c2, c3}
    Prev <- MCPrev
    Ancestors <- MCAncestors
    ChainWork <- MCChainWork
INVARIANTS
    TypeOK
    BestHasMostWork
    BestChainIsValid
    OnlyInvalidMarkedFailed
    PnextLinksUnlessError
    OrphansResolved
PROPERTIES
    WorkIncreases
    ProcessBlockReturns
CHECK_DEADLOCK FALSE
