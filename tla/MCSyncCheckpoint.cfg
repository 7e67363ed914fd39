SPECIFICATION MCSpec
CONSTANTS
    a1 = a1
    b2 = b2
    c2 = c2
    c3 = c3
    Genesis = g
    NoBlock = none
    Blocks = {g, a1, b2, c2, c3}
    Prev <- MCPrev
    Ancestors <- MCAncestors
    ChainWork <- MCChainWork
    Hardened = a1
    MasterKeys = {k1, k2}
INVARIANTS
    CheckpointAccepted
    CheckpointKeepsLinks
    CheckpointLeftForMoreWork
CHECK_DEADLOCK FALSE
