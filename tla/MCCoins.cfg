SPECIFICATION Spec
CONSTANTS
    g = g
    a1 = a1
    b2 = b2
    b3 = b3
    c2 = c2
    c3 = c3
    tk = tk
    tj = tj
    tn = tn
    tq = tq
    ts = ts
    tt = tt
    tu = tu
    tx = tx
    Genesis = g
    Blocks = {g, a1, b2, b3, c2, c3}
    Prev <- MCPrev
    Ancestors <- MCAncestors
    ChainWork <- MCChainWork
    VtxChoices <- MCVtxChoices
    Txs = {tk, tj, tn, tq, ts, tt, tu, tx}
    CoinBases = {tk, tj, tn, tq}
    Vin <- MCVin
    VoutValue <- MCVoutValue
    ScriptFails = {tx}
    BlockValue = 10
    MinFee = 1
    CoinbaseMaturity = 1
INVARIANTS
    DatabaseMatchesItsBest
    CoinsMatchChain
    UndoRestoresAncestors
    SupplyIsUnspentSum
    NoBlockMintsMore
    WalletFindsConfirmed
CHECK_DEADLOCK FALSE
