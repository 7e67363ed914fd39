SPECIFICATION Spec
CONSTANTS
    Workers = {w1, w2}
    Master = m
    NoThread = none
    Checks = {c1, c2}
    nBatchSize = 2
INVARIANTS
    ControlAssertionsHold
