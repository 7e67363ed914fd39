SPECIFICATION LiveSpec
CONSTANTS
    Workers = {w1, w2}
    Master = m
    NoThread = none
    Checks = {c1, c2}
    nBatchSize = 1
PROPERTIES
    WaitReturns
