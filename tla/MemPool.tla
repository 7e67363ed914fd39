------------------------------ MODULE MemPool ------------------------------
(***************************************************************************)
(* The memory pool and the orphan transactions (main.cpp: CTxMemPool,      *)
(* AddOrphanTx, EraseOrphanTx, LimitOrphanTxSize, the "tx" message), and   *)
(* what a change of the best chain does to them (SetBestChain).  All of it *)
(* runs under cs_main.                                                     *)
(*                                                                         *)
(* A pool is a record of the two maps of CTxMemPool.  mapNextTx maps an    *)
(* output to the transaction of the pool that spends it.                   *)
(***************************************************************************)
EXTENDS Coins

CONSTANTS
    PeerTxs,            \* the transactions that peers send
    WalletTxs,          \* the wallet's own transactions
    VtxPrev,            \* the supporting transactions that the wallet keeps with each
    CheckpointHeight,   \* Checkpoints::GetTotalBlocksEstimate()
    MaxOrphans          \* MAX_ORPHAN_TRANSACTIONS

VARIABLES
    pool,                           \* [mapTx, mapNextTx]
    mapOrphanTransactions,
    mapOrphanTransactionsByPrev,
    fUnchecked                      \* history: the transactions of the pool that
                                    \* entered it with fCheckInputs = false
orphans  == <<mapOrphanTransactions, mapOrphanTransactionsByPrev>>
poolVars == <<coinVars, pool, orphans, fUnchecked>>

MEMPOOL_HEIGHT == 2147483647

PrevHashes(t) == {in.hash : in \in ToSet(Vin[t])}

-----------------------------------------------------------------------------
(* CTxMemPool::addUnchecked *)
AddUnchecked(p, t) ==
    [mapTx |-> p.mapTx \cup {t},
     mapNextTx |-> [in \in ToSet(Vin[t]) |-> t] @@ p.mapNextTx]

(* The pool's spenders of the outputs of the transactions of S. *)
Spenders(p, S) == {p.mapNextTx[in] : in \in {in \in DOMAIN p.mapNextTx : in.hash \in S}}

(* What remove(tx, true) visits: tx, and through mapNextTx all that        *)
(* depends on it.                                                          *)
Dependents(p, t) ==
    LET D[i \in 0..Cardinality(Txs)] ==
            IF i = 0 THEN {t} ELSE D[i - 1] \cup Spenders(p, D[i - 1])
    IN  D[Cardinality(Txs)]

(* Mutant of Erase: mapNextTx keeps the inputs. *)
EraseFromMapTx(p, S) == [p EXCEPT !.mapTx = @ \ S]

(* The transactions of S that are in the pool leave it with their inputs. *)
Erase(p, S) ==
    LET gone == UNION {ToSet(Vin[t]) : t \in S \cap p.mapTx}
    IN  [mapTx |-> p.mapTx \ S, mapNextTx |-> [in \in DOMAIN p.mapNextTx \ gone |-> p.mapNextTx[in]]]

(* CTxMemPool::remove *)
RemoveRecursive(p, t) == Erase(p, Dependents(p, t))

(* Mutant of RemoveTx: a mined transaction stays. *)
RemoveTxNever(p, t) == p
(* Mutant of RemoveTx: what depends on a mined transaction leaves with it. *)
RemoveWithDependents(p, t) == RemoveRecursive(p, t)
RemoveTx(p, t) == Erase(p, {t})

(* Mutant of RemoveConflicts: what depends on a conflict stays. *)
RemoveConflictsOnly(p, t) ==
    Erase(p, {p.mapNextTx[in] : in \in ToSet(Vin[t]) \cap DOMAIN p.mapNextTx} \ {t})

(* CTxMemPool::removeConflicts *)
RemoveConflicts(p, t) ==
    FoldLeft(LAMBDA q, in : IF in \in DOMAIN q.mapNextTx /\ q.mapNextTx[in] # t
                            THEN RemoveRecursive(q, q.mapNextTx[in]) ELSE q,
             p, Vin[t])

(* CCoinsViewMemPool, over the records (have, coins) of pcoinsTip: an      *)
(* output of the pool counts as available.                                 *)
PoolView(p, have, coins) ==
    [t \in Txs |-> IF t \in have THEN coins[t]
                   ELSE IF t \in p.mapTx THEN CCoins(t, MEMPOOL_HEIGHT) ELSE NoCoins]

Conflicts(p, t) == \E in \in ToSet(Vin[t]) : in \in DOMAIN p.mapNextTx

(* CTxMemPool::accept with the best block at nHeight.  "missing" is        *)
(* fMissingInputs.  A transaction that is refused for its own form (not    *)
(* standard, not final) or by the limiter of free transactions changes     *)
(* nothing, and is one that was not sent.                                  *)
Accept(p, have, coins, nHeight, t, fCheckInputs) ==
    LET view == PoolView(p, have, coins)
    IN  CASE t \in CoinBases \/ t \in p.mapTx \/ Conflicts(p, t) -> "refused"
          [] ~fCheckInputs -> "accepted"
          [] t \in have -> "refused"
          [] ~(PrevHashes(t) \subseteq have \cup p.mapTx) -> "missing"
          [] CheckInputs(view, t, nHeight + 1) /\ t \notin ScriptFails -> "accepted"
          [] OTHER -> "refused"

Have == {t \in Txs : HaveCoins(t)}

(* AcceptToMemoryPool(fCheckInputs) on the present state. *)
AcceptNow(p, t, fCheckInputs) ==
    Accept(p, Have, coinsTip, Height(pindexBest), t, fCheckInputs)

-----------------------------------------------------------------------------
ByPrev(f, h) == IF h \in DOMAIN f THEN f[h] ELSE {}

(* mapOrphanTransactionsByPrev after EraseOrphanTx of each of S: a set     *)
(* that has lost its last member goes with it.                             *)
EraseOrphans(S, f) ==
    LET touched == UNION {PrevHashes(o) : o \in S}
    IN  [h \in {h \in DOMAIN f : h \in touched => ~(f[h] \subseteq S)} |-> f[h] \ S]

(* Mutant of AddOrphanTx: only the first input is indexed. *)
AddOrphanTxFirstInput(t) ==
    LET o == mapOrphanTransactions \cup {t}
        h == Vin[t][1].hash
        f == (h :> ByPrev(mapOrphanTransactionsByPrev, h) \cup {t})
                 @@ mapOrphanTransactionsByPrev
    IN  /\ Cardinality(o) <= MaxOrphans
        /\ mapOrphanTransactions' = o
        /\ mapOrphanTransactionsByPrev' = f

(* AddOrphanTx(t), then LimitOrphanTxSize, which evicts at random. *)
AddOrphanTx(t) ==
    LET o == mapOrphanTransactions \cup {t}
        f == [h \in PrevHashes(t) |-> ByPrev(mapOrphanTransactionsByPrev, h) \cup {t}]
                 @@ mapOrphanTransactionsByPrev
    IN  \E S \in SUBSET o :
            /\ Cardinality(S) = IF Cardinality(o) > MaxOrphans
                                THEN Cardinality(o) - MaxOrphans ELSE 0
            /\ mapOrphanTransactions' = o \ S
            /\ mapOrphanTransactionsByPrev' = EraseOrphans(S, f)

(* The loop over the orphans that waited for t, which is in the pool q.    *)
(* It tries t again, not the orphan, so that none is ever accepted, and    *)
(* the look-up leaves an empty set behind.                                 *)
ReleaseOrphans(t, q) ==
    LET f == (t :> ByPrev(mapOrphanTransactionsByPrev, t)) @@ mapOrphanTransactionsByPrev
        tried == IF AcceptNow(q, t, TRUE) = "missing" THEN {} ELSE f[t]
        S == mapOrphanTransactions \cap ({t} \cup tried)
    IN  /\ mapOrphanTransactions' = mapOrphanTransactions \ S
        /\ mapOrphanTransactionsByPrev' = EraseOrphans(S, f)

(* The "tx" message. *)
ReceiveTx(t) ==
    LET q == AddUnchecked(pool, t)
        r == AcceptNow(pool, t, TRUE)
    IN  /\ \/ /\ r = "accepted"
              /\ pool' = q
              /\ ReleaseOrphans(t, q)
           \/ /\ r = "missing"
              /\ t \notin mapOrphanTransactions
              /\ AddOrphanTx(t)
              /\ UNCHANGED pool
        /\ UNCHANGED <<coinVars, fUnchecked>>

(* CommitTransaction or sendrawtransaction. *)
SubmitTx(t) ==
    /\ AcceptNow(pool, t, TRUE) = "accepted"
    /\ pool' = AddUnchecked(pool, t)
    /\ UNCHANGED <<coinVars, orphans, fUnchecked>>

(* ReacceptWalletTransactions, for a wallet transaction that no block of   *)
(* the best chain has: AcceptWalletTransaction(false).                     *)
AcceptWalletTransaction(t) ==
    LET Try(p, s) == IF AcceptNow(p, s, FALSE) = "accepted" THEN AddUnchecked(p, s) ELSE p
        support == FoldLeft(LAMBDA p, s : IF s \notin p.mapTx /\ HaveCoins(s)
                                          THEN Try(p, s) ELSE p,
                            pool, VtxPrev[t])
    IN  /\ ~HaveCoins(t)
        /\ \A b \in Ancestors[pindexBest] : t \notin ToSet(vtx[b])
        /\ pool' = Try(support, t)
        /\ fUnchecked' = fUnchecked \cup (pool'.mapTx \ pool.mapTx)
        /\ UNCHANGED <<coinVars, orphans>>

(* Mutant of vResurrect: the last disconnected block comes first. *)
vResurrectTipFirst(b) ==
    LET blocks == vDisconnect(Fork(b))
        txs == FlattenSeq([i \in DOMAIN blocks |-> Reverse(vtx[blocks[i]])])
    IN  SelectSeq(txs, LAMBDA t : t \notin CoinBases)

(* SetBestChain's vResurrect: the transactions of the disconnected blocks, *)
(* in the order of the chain.                                              *)
vResurrect(b) ==
    LET blocks == Reverse(vDisconnect(Fork(b)))
        txs == FlattenSeq([i \in DOMAIN blocks |->
                   IF Height(blocks[i]) > CheckpointHeight THEN vtx[blocks[i]] ELSE << >>])
    IN  SelectSeq(txs, LAMBDA t : t \notin CoinBases)

(* vDelete: the transactions of the connected blocks. *)
vDelete(b) ==
    LET blocks == vConnect(b) IN FlattenSeq([i \in DOMAIN blocks |-> vtx[blocks[i]]])

Resurrect(p, t, have, coins, nHeight) ==
    IF Accept(p, have, coins, nHeight, t, TRUE) = "accepted"
    THEN AddUnchecked(p, t) ELSE RemoveRecursive(p, t)

(* SetBestChain(b), with what it does to the pool at its end. *)
SetBestChainPool(b, fFlush) ==
    /\ SetBestChain(b, fFlush)
    /\ LET have == Have'
           coins == coinsTip'
           raised == FoldLeft(LAMBDA p, t : Resurrect(p, t, have, coins, Height(b)),
                              pool, vResurrect(b))
       IN  pool' = FoldLeft(LAMBDA p, t : RemoveConflicts(RemoveTx(p, t), t), raised, vDelete(b))
    /\ fUnchecked' = fUnchecked \cap pool'.mapTx
    /\ UNCHANGED orphans

(* A restart: the pool and the orphans are only in memory. *)
PoolRestart ==
    /\ Restart
    /\ pool' = [mapTx |-> {}, mapNextTx |-> << >>]
    /\ mapOrphanTransactions' = {}
    /\ mapOrphanTransactionsByPrev' = << >>
    /\ fUnchecked' = {}

PoolInit ==
    /\ Init
    /\ pool = [mapTx |-> {}, mapNextTx |-> << >>]
    /\ mapOrphanTransactions = {}
    /\ mapOrphanTransactionsByPrev = << >>
    /\ fUnchecked = {}

PoolNext ==
    \/ \E b \in Blocks \ {Genesis}, fFlush \in BOOLEAN : SetBestChainPool(b, fFlush)
    \/ \E t \in PeerTxs : ReceiveTx(t)
    \/ \E t \in WalletTxs : SubmitTx(t) \/ AcceptWalletTransaction(t)
    \/ PoolRestart

PoolSpec == PoolInit /\ [][PoolNext]_poolVars

-----------------------------------------------------------------------------
(* mapNextTx holds exactly the inputs of the transactions in mapTx, each   *)
(* with its one spender, so that no two of them spend the same output      *)
(* (main.cpp:692-718, 834-885).                                            *)
SpendersMatchPool ==
    /\ DOMAIN pool.mapNextTx = UNION {ToSet(Vin[t]) : t \in pool.mapTx}
    /\ \A t \in pool.mapTx : \A in \in ToSet(Vin[t]) : pool.mapNextTx[in] = t

(* Every output that is unspent in the best chain and free in the pool. *)
Unspent(in) == in.n \in coinsTip[in.hash].vout
(* An input is connected to the chain or to the pool. *)
Connected(in) == Unspent(in) \/ in.hash \in pool.mapTx

(* "all transactions in the memory pool should connect to either           *)
(* transactions in the chain or other transactions in the memory pool"     *)
(* (CreateNewBlock, main.cpp:4266).                                        *)
PoolConnects == \A t \in pool.mapTx : \A in \in ToSet(Vin[t]) : Connected(in)

InChain(t) == \E b \in Ancestors[pindexBest] : t \in ToSet(vtx[b])

(* What does hold: a transaction whose inputs were checked loses an input  *)
(* only with a coinbase that a reorganisation took out of the chain        *)
(* (main.cpp:1826-1838).                                                   *)
PoolConnectsUnlessMintedAway ==
    \A t \in pool.mapTx \ fUnchecked : \A in \in ToSet(Vin[t]) :
        Connected(in) \/ (in.hash \in CoinBases /\ ~InChain(in.hash))

(* "AcceptToMemoryPool already refuses previously-known transaction ids    *)
(* entirely" (ConnectBlock, main.cpp:1565).                                *)
PoolNotInChain == \A t \in pool.mapTx : IsPruned(coinsTip[t])

(* It does for the transactions whose inputs are checked. *)
CheckedPoolNotInChain == \A t \in pool.mapTx \ fUnchecked : IsPruned(coinsTip[t])

(* mapOrphanTransactionsByPrev finds exactly the orphans that wait for a   *)
(* transaction, also after the random evictions that keep them within      *)
(* MAX_ORPHAN_TRANSACTIONS (main.cpp:290-347, 3604).                       *)
OrphanIndexExact ==
    /\ Cardinality(mapOrphanTransactions) <= MaxOrphans
    /\ \A h \in Txs : ByPrev(mapOrphanTransactionsByPrev, h) =
                           {o \in mapOrphanTransactions : h \in PrevHashes(o)}

(* "BOOST_CHECK(mapOrphanTransactionsByPrev.empty())" once                 *)
(* mapOrphanTransactions is (test/DoS_tests.cpp:213).                      *)
NoOrphansNoIndex ==
    mapOrphanTransactions = {} => DOMAIN mapOrphanTransactionsByPrev = {}

(* "Recursively process any orphan transactions that depended on this one" *)
(* (main.cpp:3564): an orphan that the pool would now accept is not just   *)
(* dropped when the transaction it waited for arrives.                     *)
OrphansProcessed ==
    [][\A t \in PeerTxs : (t \in pool'.mapTx \ pool.mapTx /\ pindexBest' = pindexBest) =>
          \A o \in mapOrphanTransactions \ mapOrphanTransactions' :
              t \in PrevHashes(o) => AcceptNow(pool, o, TRUE)' # "accepted"]_poolVars

(* A block that extends the best chain takes from the pool only what it    *)
(* confirms and what can no longer be confirmed, because it or something   *)
(* it depends on spends an output that the block spends                    *)
(* (main.cpp:1834-1838).                                                   *)
ExtensionKeepsPool ==
    [][(pindexBest' # pindexBest /\ pindexBest \in Ancestors[pindexBest']) =>
          \A t \in pool.mapTx \ pool'.mapTx :
              \/ InChain(t)'
              \/ \E in \in ToSet(Vin[t]) : ~Connected(in)']_poolVars

(* A restart goes back to a block with no more work, and disconnects nothing. *)
Disconnected ==
    IF ChainWork[pindexBest'] > ChainWork[pindexBest]
    THEN UNION {ToSet(vtx[b]) : b \in Ancestors[pindexBest] \ Ancestors[pindexBest']}
    ELSE {}

(* A disconnected transaction is in the new chain, or back in the pool, or *)
(* an input of it is gone, or its coinbase is not mature again, or another *)
(* transaction of the pool spends its input.                               *)
ResurrectedOrDead(t) ==
    \/ t \in CoinBases
    \/ ~IsPruned(coinsTip[t]) \/ t \in pool.mapTx
    \/ Conflicts(pool, t)
    \/ \E in \in ToSet(Vin[t]) :
          ~Connected(in) \/ ~Matured(coinsTip[in.hash], Height(pindexBest) + 1)

(* "Resurrect memory transactions that were in the disconnected branch"    *)
(* (main.cpp:1826).                                                        *)
BranchResurrected ==
    [][\A t \in Disconnected : InChain(t)' \/ ResurrectedOrDead(t)']_poolVars

(* They are, whenever the coins were written to the database before, and   *)
(* the transaction was not in the pool already.                            *)
BranchResurrectedAfterFlush ==
    [][cacheCoins' = << >> =>
          \A t \in Disconnected \ fUnchecked : InChain(t)' \/ ResurrectedOrDead(t)']_poolVars
=============================================================================
