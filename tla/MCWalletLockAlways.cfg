CONSTANTS
    Threads = {k1, k2}
    Timeouts = {0, 1, 3}
    MaxTime = 4
SPECIFICATION Spec
PROPERTIES

    WalletAlwaysRelocks
