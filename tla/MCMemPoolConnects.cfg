SPECIFICATION PoolSpec
CONSTANTS
    g = g
    a1 = a1
    b2 = b2
    c2 = c2
    c3 = c3
    tk = tk
    tj = tj
    tn = tn
    tm = tm
    tp = tp
    tr = tr
    tc = tc
    td = td
    te = te
    Genesis = g
    Blocks = {g, a1, b2, c2, c3}
    Prev <- MCPrev
    Ancestors <- MCAncestors
    ChainWork <- MCChainWork
    VtxChoices <- MCVtxChoices
    Txs = {tk, tj, tn, tm, tp, tr, tc, td, te}
    CoinBases = {tk, tj, tn, tm}
    Vin <- MCVin
    VoutValue <- MCVoutValue
    ScriptFails = {}
    BlockValue = 10
    MinFee = 1
    CoinbaseMaturity = 1
    VtxPrev <- MCVtxPrev
    CheckpointHeight = 0
    MaxOrphans = 1
    PeerTxs = {tp}
    WalletTxs = {tc}
INVARIANTS
    PoolConnects
CHECK_DEADLOCK FALSE
