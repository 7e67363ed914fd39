------------------------------- MODULE Coins -------------------------------
(***************************************************************************)
(* The unspent transaction outputs and their undo data (main.h CCoins,     *)
(* CTxInUndo, CCoinsViewCache; main.cpp UpdateCoins, CheckInputs,          *)
(* ConnectBlock, DisconnectBlock and the part of SetBestChain that drives  *)
(* them; txdb.cpp CCoinsViewDB).                                           *)
(*                                                                         *)
(* BlockChain says which block is attached next; here a block has          *)
(* contents.  The rigid variable vtx holds the transactions of every       *)
(* block, so that one run covers every way to fill the tree.  An output is *)
(* its number; its script is left out, but for the transactions whose      *)
(* scripts do not verify.                                                  *)
(***************************************************************************)
EXTENDS Integers, SequencesExt, FiniteSetsExt, TLC

CONSTANTS
    Blocks, Genesis,
    Prev,               \* hashPrevBlock
    Ancestors,          \* the blocks met when pprev is followed, the block itself too
    ChainWork,          \* nChainWork
    VtxChoices,         \* the contents that the blocks may have: functions from
                        \* Blocks to sequences of transactions, the coinbase first
    Txs,
    CoinBases,          \* the transactions t with t.IsCoinBase()
    Vin,                \* the outputs that each transaction spends, in order
    VoutValue,          \* the value of each output of each transaction
    ScriptFails,        \* the transactions with a script that does not verify
    BlockValue,         \* GetBlockValue(nBits, 0)
    MinFee,             \* GetMinFee(), the same for every transaction here
    CoinbaseMaturity    \* COINBASE_MATURITY

VARIABLES
    vtx,                \* the transactions of each block (rigid)
    pindexBest,
    cacheCoins,         \* pcoinsTip->cacheCoins: what the database does not have yet
    coinsDB,            \* the coin database; a record that is not there is NoCoins
    hashBestDB,         \* its best block
    undo,               \* the undo data of the blocks that have some
    nMoneySupply,
    hashBlock,          \* the block that the wallet has for each of its transactions
                        \* (all are its own here); Genesis stands for 0
    fDropped            \* history: connected blocks were dropped, because the rest of
                        \* their branch was refused or the node stopped

coinVars == <<vtx, pindexBest, cacheCoins, coinsDB, hashBestDB, undo, nMoneySupply,
              hashBlock, fDropped>>

Height(b)   == Cardinality(Ancestors[b]) - 1
Outputs(t)  == DOMAIN VoutValue[t]
ValueOut(t) == FoldLeft(LAMBDA x, y : x + y, 0, VoutValue[t])

-----------------------------------------------------------------------------
(* CCoins: where the transaction is, and which outputs are unspent. *)
NoCoins      == [fCoinBase |-> FALSE, nHeight |-> 0, vout |-> {}]
CCoins(t, h) == [fCoinBase |-> t \in CoinBases, nHeight |-> h, vout |-> Outputs(t)]
IsPruned(c)  == c.vout = {}

(* CTxInUndo: the metadata is kept only with the last output to be spent; *)
(* nHeight = 0 says that there is none.                                   *)
NoMetadata == [fCoinBase |-> FALSE, nHeight |-> 0]

(* CCoins::Spend, of an output that is available. *)
Spend(c, n) ==
    [coins |-> [c EXCEPT !.vout = @ \ {n}],
     undo  |-> IF c.vout = {n} THEN [fCoinBase |-> c.fCoinBase, nHeight |-> c.nHeight]
                               ELSE NoMetadata]

(* Mutant of GetCoins: the database is asked before the cache. *)
GetCoinsDatabaseFirst(t) ==
    IF ~IsPruned(coinsDB[t]) \/ t \notin DOMAIN cacheCoins THEN coinsDB[t] ELSE cacheCoins[t]

(* The entries that pcoinsTip answers with. *)
GetCoins(t) == IF t \in DOMAIN cacheCoins THEN cacheCoins[t] ELSE coinsDB[t]
(* A record that has lost its last output stays in the cache until a flush. *)
HaveCoins(t) == t \in DOMAIN cacheCoins \/ ~IsPruned(coinsDB[t])
coinsTip     == [t \in Txs |-> GetCoins(t)]

(* CTransaction::UpdateCoins, on a view that is a function from Txs. *)
UpdateCoins(view, t, h) ==
    LET SpendInput(acc, in) ==
            LET s == Spend(acc.view[in.hash], in.n)
            IN  [view |-> [acc.view EXCEPT ![in.hash] = s.coins],
                 txundo |-> Append(acc.txundo, s.undo)]
        spent == FoldLeft(SpendInput, [view |-> view, txundo |-> << >>], Vin[t])
    IN  [spent EXCEPT !.view[t] = CCoins(t, h)]

HaveInputs(view, t) == \A in \in ToSet(Vin[t]) : in.n \in view[in.hash].vout
ValueIn(t) == FoldLeft(LAMBDA sum, in : sum + VoutValue[in.hash][in.n], 0, Vin[t])

Matured(c, nSpendHeight) ==
    c.fCoinBase => nSpendHeight - c.nHeight >= CoinbaseMaturity

(* CTransaction::CheckInputs but for the scripts, which ConnectBlock's     *)
(* check queue verifies.                                                   *)
CheckInputs(view, t, nSpendHeight) ==
    /\ HaveInputs(view, t)
    /\ \A in \in ToSet(Vin[t]) : Matured(view[in.hash], nSpendHeight)
    /\ ValueIn(t) - ValueOut(t) >= MinFee

-----------------------------------------------------------------------------
(* Mutant of Minted: the fees do not leave the supply. *)
MintedByCoinbase(t) == IF t \in CoinBases THEN ValueOut(t) ELSE 0

(* nValueOut - nValueIn *)
Minted(t) == ValueOut(t) - ValueIn(t)

(* A transaction in ConnectBlock's loop over vtx. *)
ConnectTx(acc, t) ==
    LET h == acc.nHeight
        c == UpdateCoins(acc.view, t, h)
    IN  IF ~acc.ok \/ (t \notin CoinBases /\ ~CheckInputs(acc.view, t, h))
        THEN [acc EXCEPT !.ok = FALSE]
        ELSE [acc EXCEPT !.view = c.view,
                         !.vtxundo = IF t \in CoinBases THEN @ ELSE Append(@, c.txundo),
                         !.nFees = IF t \in CoinBases THEN @
                                                      ELSE @ + ValueIn(t) - ValueOut(t),
                         !.nMinted = @ + Minted(t)]

(* BIP30: a transaction of b is there already, and not completely spent. *)
Overwrites(view, b) == \E t \in ToSet(vtx[b]) : ~IsPruned(view[t])

(* Mutant of PaysTooMuch: the coinbase may claim the fees twice. *)
PaysTooMuchTwice(b, nFees) == ValueOut(vtx[b][1]) > BlockValue + 2 * nFees

(* The coinbase's own minimal fee and MIN_TX_FEE cancel for one of this size. *)
PaysTooMuch(b, nFees) == ValueOut(vtx[b][1]) > BlockValue + nFees

(* How far ConnectBlock(b) comes when its loop over vtx ends with end:     *)
(* "refused" before nMoneySupply is written, "late" after that.            *)
Verdict(b, end) ==
    CASE ~end.ok -> "refused"
      [] end.ok /\ (PaysTooMuch(b, end.nFees) \/ ToSet(vtx[b]) \cap ScriptFails # {}) -> "late"
      [] OTHER -> "connected"

(* ConnectBlock(b) on a view, to the end of its loop over vtx. *)
ConnectBlock(view, b) ==
    LET start == [ok |-> ~Overwrites(view, b), view |-> view, vtxundo |-> << >>,
                  nFees |-> 0, nMinted |-> 0, nHeight |-> Height(b)]
    IN  FoldLeft(ConnectTx, start, vtx[b])

(* Mutant of RestoreOrder: the inputs are restored first to last. *)
RestoreOrderForward(t) == [j \in DOMAIN Vin[t] |-> j]

(* for (unsigned int j = tx.vin.size(); j-- > 0;) *)
RestoreOrder(t) == Reverse([j \in DOMAIN Vin[t] |-> j])

(* DisconnectBlock(b): a view, and whether the undo data fitted (fClean). *)
DisconnectTx(acc, i, b) ==
    LET t == vtx[b][i]
        outs == [acc.view EXCEPT ![t] = NoCoins]
        clean == acc.fClean /\ acc.view[t] = CCoins(t, Height(b))
        RestoreInput(a, j) ==
            LET in == Vin[t][j]
                u  == undo[b][i - 1][j]
                old == a.view[in.hash]
                coins == IF u.nHeight # 0
                         THEN [fCoinBase |-> u.fCoinBase, nHeight |-> u.nHeight, vout |-> {}]
                         ELSE old
            IN  [view |-> [a.view EXCEPT ![in.hash] =
                               [coins EXCEPT !.vout = @ \cup {in.n}]],
                 fClean |-> /\ a.fClean
                            /\ (u.nHeight # 0) = IsPruned(old)
                            /\ in.n \notin coins.vout]
    IN  FoldLeft(RestoreInput, [view |-> outs, fClean |-> clean],
                 IF i = 1 THEN << >> ELSE RestoreOrder(t))

DisconnectBlock(acc, b) ==
    FoldLeft(LAMBDA a, i : DisconnectTx(a, i, b), acc,
             Reverse([i \in DOMAIN vtx[b] |-> i]))

Fork(b) == CHOOSE x \in Ancestors[b] \cap Ancestors[pindexBest] :
               \A y \in Ancestors[b] \cap Ancestors[pindexBest] : Height(y) <= Height(x)

(* SetBestChain's vDisconnect: from the best block down to a child of fork. *)
vDisconnect(fork) ==
    SetToSortSeq(Ancestors[pindexBest] \ Ancestors[fork],
                 LAMBDA x, y : Height(x) > Height(y))

(* vConnect: from there up to b. *)
vConnect(b) ==
    SetToSortSeq(Ancestors[b] \ Ancestors[pindexBest],
                 LAMBDA x, y : Height(x) < Height(y))

DisconnectTo(fork) ==
    FoldLeft(DisconnectBlock, [view |-> coinsTip, fClean |-> TRUE], vDisconnect(fork))

Merge(f, g) == [t \in DOMAIN f \cup DOMAIN g |-> IF t \in DOMAIN f THEN f[t] ELSE g[t]]

(* Mutant of SyncWithWallets: the wallet keeps the first block it was told. *)
SyncWithWalletsOnce(f, b) ==
    [t \in Txs |-> IF t \in ToSet(vtx[b]) /\ f[t] = Genesis THEN b ELSE f[t]]

(* The wallet records b for the transactions of b (AddToWallet's merge). *)
SyncWithWallets(f, b) == [t \in Txs |-> IF t \in ToSet(vtx[b]) THEN b ELSE f[t]]

(* What ConnectBlock(b) writes to the block index and tells the wallet.    *)
(* Undo data that is there is kept.                                        *)
RecordBlock(acc, b, c) ==
    LET supply == [acc.nMoneySupply EXCEPT ![b] = acc.nMoneySupply[Prev[b]] + c.nMinted]
    IN  IF Verdict(b, c) # "connected"
        THEN [acc EXCEPT !.ok = FALSE,
                         !.nMoneySupply = IF Verdict(b, c) = "late" THEN supply ELSE @]
        ELSE [ok |-> TRUE, view |-> c.view,
              undo |-> Merge(acc.undo, b :> c.vtxundo),
              nMoneySupply |-> supply,
              hashBlock |-> SyncWithWallets(acc.hashBlock, b)]

(* ConnectBlock(b) in the loop over vConnect. *)
ConnectNext(acc, b) == IF acc.ok THEN RecordBlock(acc, b, ConnectBlock(acc.view, b)) ELSE acc

(* What the loop over vConnect makes of the view that is left at the fork. *)
SwitchTo(b, view) ==
    FoldLeft(ConnectNext,
             [ok |-> TRUE, view |-> view, undo |-> undo,
              nMoneySupply |-> nMoneySupply, hashBlock |-> hashBlock],
             vConnect(b))

-----------------------------------------------------------------------------
Init ==
    /\ vtx \in VtxChoices
    /\ pindexBest = Genesis
    /\ cacheCoins = << >>
    /\ coinsDB = [t \in Txs |-> NoCoins]
    /\ hashBestDB = Genesis
    /\ undo = << >>
    /\ nMoneySupply = [b \in Blocks |-> 0]
    /\ hashBlock = [t \in Txs |-> Genesis]
    /\ fDropped = FALSE

(* ConnectBestBlock calls SetBestChain with the first block of a branch    *)
(* that has more work than the best block, then with the next ones.        *)
ToAttach(b) ==
    /\ ChainWork[b] > ChainWork[pindexBest]
    /\ ChainWork[Prev[b]] <= ChainWork[pindexBest]

(* The transactions whose records the view of SetBestChain(b) has loaded. *)
Touched(b) ==
    LET blocks == (Ancestors[pindexBest] \cup Ancestors[b]) \ Ancestors[Fork(b)]
        txs == UNION {ToSet(vtx[x]) : x \in blocks}
    IN  txs \cup UNION {{in.hash : in \in ToSet(Vin[t])} : t \in txs}

(* Mutant of BatchWrite: a record without outputs is not erased. *)
BatchWriteKeeping(coins) ==
    [t \in Txs |-> IF t \in DOMAIN coins /\ ~IsPruned(coins[t]) THEN coins[t] ELSE coinsDB[t]]

(* CCoinsViewDB::BatchWrite, one atomic batch. *)
BatchWrite(coins) ==
    [t \in Txs |-> IF t \in DOMAIN coins
                   THEN IF IsPruned(coins[t]) THEN NoCoins ELSE coins[t]
                   ELSE coinsDB[t]]

(* SetBestChain(b).  fFlush: not in the initial download, or the cache is  *)
(* full.                                                                   *)
SetBestChain(b, fFlush) ==
    LET d == DisconnectTo(Fork(b))
        c == SwitchTo(b, d.view)
        cache == Merge([t \in Touched(b) |-> c.view[t]], cacheCoins)
    IN  /\ ToAttach(b)
        /\ d.fClean
        /\ c.ok
        /\ pindexBest' = b
        /\ undo' = c.undo
        /\ nMoneySupply' = c.nMoneySupply
        /\ hashBlock' = c.hashBlock
        /\ cacheCoins' = IF fFlush THEN << >> ELSE cache
        /\ coinsDB' = IF fFlush THEN BatchWrite(cache) ELSE coinsDB
        /\ hashBestDB' = IF fFlush THEN b ELSE hashBestDB
        /\ UNCHANGED <<vtx, fDropped>>

(* SetBestChain(b) refused by ConnectBlock for a block of vConnect: the    *)
(* view is dropped.                                                        *)
ConnectRefused(b) ==
    LET c == SwitchTo(b, DisconnectTo(Fork(b)).view)
    IN  /\ ToAttach(b)
        /\ ~c.ok
        /\ undo' = c.undo
        /\ nMoneySupply' = c.nMoneySupply
        /\ hashBlock' = c.hashBlock
        /\ fDropped' = TRUE
        /\ UNCHANGED <<vtx, pindexBest, cacheCoins, coinsDB, hashBestDB>>

(* A restart: only the database survives, and the wallet. *)
Restart ==
    /\ pindexBest' = hashBestDB
    /\ cacheCoins' = << >>
    /\ fDropped' = (fDropped \/ pindexBest # hashBestDB)
    /\ UNCHANGED <<vtx, coinsDB, hashBestDB, undo, nMoneySupply, hashBlock>>

Next ==
    \/ \E b \in Blocks \ {Genesis}, fFlush \in BOOLEAN : SetBestChain(b, fFlush)
    \/ \E b \in Blocks \ {Genesis} : ConnectRefused(b)
    \/ Restart

Spec == Init /\ [][Next]_coinVars

-----------------------------------------------------------------------------
(* What a chain leaves unspent, whatever the way that led to it: the       *)
(* outputs that its transactions create but for the ones that they spend.  *)
RefCoins(tip) ==
    LET SpentBy(b, t) == {in.n : in \in {in \in UNION {ToSet(Vin[s]) : s \in ToSet(vtx[b])} :
                                             in.hash = t}}
        C[b \in Blocks] ==
            [t \in Txs |->
                LET old == IF b = Genesis THEN NoCoins
                           ELSE IF t \in ToSet(vtx[b]) THEN CCoins(t, Height(b))
                           ELSE C[Prev[b]][t]
                    left == old.vout \ SpentBy(b, t)
                IN  IF left = {} THEN NoCoins ELSE [old EXCEPT !.vout = left]]
    IN  C[tip]

Normal(view) == [t \in Txs |-> IF IsPruned(view[t]) THEN NoCoins ELSE view[t]]

(* The coins are those of the best chain: no reorganisation, refused block *)
(* or restart leaves an output behind, loses one, or changes the height or *)
(* the coinbase flag that its maturity depends on (main.cpp:1421-1506).    *)
CoinsMatchChain == Normal(coinsTip) = RefCoins(pindexBest)

(* At any moment a stop leaves a database that holds exactly the coins of  *)
(* the best block that it names (txdb.cpp:59-69).                          *)
DatabaseMatchesItsBest == coinsDB = RefCoins(hashBestDB)

(* DisconnectBlock finds what it expects (fClean) and restores the coins   *)
(* of every earlier block of the best chain, although the undo data of a   *)
(* block is written only the first time it is connected (main.cpp:1675).   *)
UndoRestoresAncestors ==
    \A b \in Ancestors[pindexBest] :
        LET d == DisconnectTo(b) IN d.fClean /\ Normal(d.view) = RefCoins(b)

UnspentSum ==
    MapThenSumSet(LAMBDA t : MapThenSumSet(LAMBDA n : VoutValue[t][n], coinsTip[t].vout), Txs)

(* The money supply that the block index records for the best block is the *)
(* sum of the unspent outputs, although ConnectBlock writes it before its  *)
(* last checks (main.cpp:1652).                                            *)
SupplyIsUnspentSum == nMoneySupply[pindexBest] = UnspentSum

(* No block of the best chain adds more to the money supply than its block *)
(* value: what its coinbase claims above that, its transactions paid as    *)
(* fees (main.cpp:1662).                                                   *)
NoBlockMintsMore ==
    \A b \in Ancestors[pindexBest] \ {Genesis} :
        nMoneySupply[b] - nMoneySupply[Prev[b]] <= BlockValue

(* No branch has t in two blocks; the height in the coinbase sees to that  *)
(* once IsSuperMajority holds.                                             *)
MinedOnce(t) ==
    \A b \in Blocks : Cardinality({a \in Ancestors[b] : t \in ToSet(vtx[a])}) <= 1

(* The wallet finds each of its transactions that the best chain has in    *)
(* the best chain (GetDepthInMainChain > 0), unless connected blocks were  *)
(* dropped: ConnectBlock tells the wallet before the rest of the branch is *)
(* known to be valid, and nothing tells it otherwise (main.cpp:1705).      *)
WalletFindsConfirmed ==
    ~fDropped => \A b \in Ancestors[pindexBest] : \A t \in ToSet(vtx[b]) :
                    MinedOnce(t) => hashBlock[t] \in Ancestors[pindexBest] \ {Genesis}
=============================================================================
