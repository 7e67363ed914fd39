SPECIFICATION Spec
CONSTANTS
    Workers = {w1, w2}
    Master = m
    NoThread = none
    Checks = {c1, c2, c3, c4}
    nBatchSize = 2
SYMMETRY Symmetry
INVARIANTS
    TypeOK
    QueueFinished
    TodoCountsPending
    IdleWhenUnlocked
PROPERTIES
    ImplementsVerifier
