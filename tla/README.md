# Primecoin: TLA+ specifications and proofs

This directory specifies the stateful core of the Primecoin node in `src/src/`
in TLA+, model-checks it with TLC on small instances, and proves its main
safety properties with TLAPS for every value of the constants.

Primecoin is a Bitcoin 0.8 node with PPCoin's synchronized checkpoints and a
proof of work made of chains of primes. It is one process with many threads.
The chain is changed only under `cs_main`; the script checks of a block run in
a pool of threads; everything the node has to remember is in four places on
disk that are written at different times; and the wallet hands out keys and is
locked and unlocked by several threads. The specifications below are about
these things, since each of them goes wrong in ways that a unit test does not
reach.

## Modules

| module | models | properties |
|---|---|---|
| `CheckQueue` | `checkqueue.h`: the pool that checks the scripts of a block | checked and proved |
| `BlockVerifier` | what `ConnectBlock` may expect of that pool, without threads | implemented by `CheckQueue`, checked and proved |
| `BlockChain` | `main.cpp`: the block index, orphan blocks, the choice of the best chain | checked and proved |
| `ChainStore` | extends `BlockChain` with the files, crashes, shutdown and start-up | checked |
| `SyncCheckpoint` | extends `BlockChain` with `checkpointsync.cpp` | checked |
| `Coins` | `main.cpp`, `main.h`, `txdb.cpp`: coins, undo data, connecting and disconnecting blocks | checked |
| `MemPool` | extends `Coins` with the memory pool and the orphan transactions | checked |
| `KeyPool` | `wallet.cpp`: the key pool, encryption of the wallet, restarts | checked and proved |
| `WalletLock` | `rpcwallet.cpp`, `wallet.cpp`: locking and unlocking an encrypted wallet | checked |
| `CheckQueueProofs`, `BlockChainProofs`, `KeyPoolProofs` | the theorems and their proofs | |
| `MC...` | the instances for TLC | |

`PROJECT.json` maps every definition to the lines it models, and lists the
runs, the mutants that show each property can fail, the hazards and the
theorems.

### CheckQueue

Threads are `Workers` and one `Master`, the thread in `ConnectBlock`. The
variables are those of `CCheckQueue` (`queue`, `nIdle`, `nTotal`, `fAllOk`,
`nTodo`) and of each call of `Loop` (`batch`, `fOk`, a program counter). An
action is one critical section, or what happens between two of them: `Add`,
`FirstIteration`, `CleanUp`, `Return`, `Sleep`, `Take`, `Execute`, `Reacquire`,
`WakeUp`. The mutex is a variable of its own because the constructor of
`CCheckQueueControl` reads the counters without it: `CtorReadTotal` and
`CtorAsserts` are two reads at two moments. A condition variable may wake up
spuriously. `InterruptAll` is the shutdown of the thread group; `Interrupted`
is the exception it raises in a `wait`, after which `nIdle` and `nTotal` still
count the thread, and after which the destructor of the control calls `Wait`
again if it was the master's.

A check is an element of `Checks` and fails if it is in `bad`. The order of the
queue is abstracted: a batch is any subset of the right size.

`BlockVerifier` is the promise: a control object is opened, checks are added,
finish in any order and any groups, and `Return` comes after all of them with
the conjunction. The refinement mapping takes the phase from the master's
program counter, the unfinished checks from `Pending` (the queue and all
batches), and the verdict from `fRet`. A master that is interrupted and calls
`Wait` again from the destructor is still "joining". A failed assertion of the
constructor is a control object that was never opened.

### BlockChain

The blocks and their tree (`Prev`, `ChainWork`) are constants; a behaviour
delivers them in any order. Each block has a `verdict` chosen at the start:
valid, refused by `AcceptBlock` (never stored), or refused by `ConnectBlock`
(stored, indexed, found out when it is connected). So the model covers every
assignment of verdicts, and does not say what makes a block invalid.

State and actions follow the code: `mapBlockIndex`, `setBlockIndexValid`, the
two failure bits, `pindexBest`, `coinsTip` (the best block of `pcoinsTip`),
`pnext`, `mapOrphanBlocks`, and the locals of a call in progress (`vAttach`,
`vWorkQueue`, the index into it). All of it happens under `cs_main`, so there
is one call at a time; it is split in steps where the code can fail. `Receive`
is `ProcessBlock`, `ConnectBestBlock` the search for a candidate, `Attach` one
call of `SetBestChain`, `ResolveOrphans` the loop at the end of `ProcessBlock`,
and `SystemError` a read or write that fails at any of these points.
`fSystemError` records that this happened. After such an error the node has
asked itself to stop, but more blocks may be processed before it does, and the
model processes them.

`InvalidBlockFound` calls `ConnectBestBlock` recursively if the block has a
`pnext`. The model leaves the call out; theorem `DeadCall` proves that it is
never made.

### ChainStore

Adds the disk: `dbIndex`, the states of `blocks/index` since the last sync, of
which a power failure leaves any one; `coinsDB` and `coinsOld`, the best block
of `chainstate` and the ones that may come back; the file of each block; and
what is committed or lost of the blocks and the undo data. Every action of
`BlockChain` is joined with what it writes, in the order it writes it, one
element of `dbIndex` for each write. `AddToBlockIndex` puts a block into memory
before it writes the entry: `StoreBlock` may leave the entry unwritten, and
`StoreIndexFails` is the return that follows, after which memory is ahead of the
disk until a later write of the same entry. `Crash` loses the memory between two
steps, `CrashMarking` and `CrashConnecting` between two writes of one step,
`PowerFailure` also what is not synced. `Shutdown` is the clean exit. `Restart`
is `LoadBlockIndexDB` with `VerifyDB`, after which the node runs
`ConnectBestBlock` as `AppInit2` does and gives up if it fails. A block whose
parent's entry was never written is the end of the model (`"gap"`).

LevelDB is external: its writes survive in order, a batch is atomic, `Sync`
makes what was written before safe. `Write` without sync may be lost with the
power, never with the process.

### SyncCheckpoint

A node with the checkpoint key, which is the only one that reaches
`ProcessSyncCheckpoint`: `sendcheckpoint` comes between two calls of
`ProcessBlock`, for a block that is unknown, on another branch or invalid.
`SetBestChain` is then called on it whatever its work, over the same state as
in `BlockChain`. Restarts follow a clean shutdown, with the same or another
master key compiled in.

### Coins

Blocks have contents here. `vtx`, chosen at the start, gives every block its
transactions, so one run covers many ways to fill the tree. `cacheCoins` is
`pcoinsTip`, `coinsDB` the database below it; `GetCoins` looks in the first and
then in the second, `BatchWrite` is the flush. `ConnectBlock` checks the inputs
of each transaction against the coins that the earlier ones left, writes undo
data if the block has none, and tells the wallet; `DisconnectBlock` applies the
undo data backwards. A branch is connected as a whole in a cache of its own or
not at all, as in `SetBestChain`. Scripts are a verdict per transaction.

### MemPool

Adds `CTxMemPool` (`mapTx`, `mapNextTx`) and the two maps of orphan
transactions. `AcceptToMemoryPool` with and without `fCheckInputs`, the "tx"
message with the loop over the orphans, `LimitOrphanTxSize`, the submission by
the wallet with its supporting transactions, and the end of `SetBestChain`,
which resurrects the transactions of the disconnected blocks and removes those
of the connected ones with what conflicts with them.

### KeyPool

`setKeyPool` and the reservations (`nIndex`, `vchPubKey` of each `CReserveKey`)
are in memory, `pool` is the records in `wallet.dat`. Keys are numbered as they
are generated. A reservation takes an index out of `setKeyPool` and leaves its
record; `KeepKey` erases the record, and is the only operation that does not
need `cs_wallet`, so it is also a step while `EncryptWallet` replaces the pool
(`EraseOld`, `ClearOld`, `WriteNew`, `Rewrite`). `Restart` may come at any
point and makes every record an index again. A write that fails throws out of
`TopUpKeyPool` with a part of the keys written; `NewKeyPool` does not look at
the result, so `WriteNew` may leave an index without a record. Every reservation
then fails with that index (`ReadFails`) and its destructor returns it, until
`getnewaddress` drops it (`GetKeyFails`). `NewKeyFails` is a key that cannot be
generated: the exception leaves `EncryptWallet` with the wallet unlocked.
`EncryptFails` is the return
after a `TxnBegin` that fails, which leaves a master key in `mapMasterKeys`; a
later `Unlock` may give up at it, and `NewKeyPool` then finds the wallet locked.

`NewKeyPool` and `TopUpKeyPool` number new records without looking at the
indices that are reserved: with the pool empty, the next record is 1 again, and
the owner of the reservation later erases or returns another key than its own.
The set `doubtful` records the indices that were last given out in this way, or
without a record. A statement without it, `ReservedOnce`, does not hold (see
below); `KeysHandedOutOnce` says that the harm is confined to the reservations
of these indices. `UsedKeysErased` and `PoolFlushed` hold without exception.

### WalletLock

The commands run under `cs_main` and `cs_wallet`, one after the other; the
threads that `walletpassphrase` starts take only `cs_nWalletUnlockTime`, and
each of their critical sections is an action (`Start`, `Enter`, `Wake`).
`ChangeWalletPassphrase` is cut where a relocking thread can come in: it reads
`fWasLocked`, locks, unlocks, and locks again. The clock counts the units in
which timeouts are given.

## Runs

| run | instance | result |
|---|---|---|
| `checkqueue` | 2 workers, 4 checks, batches of at most 2 | holds |
| `checkqueue_live` | 2 workers, 2 checks, batches of 1 | holds |
| `blockchain` | 5 blocks above genesis in two branches, all verdicts; safety and liveness | holds |
| `chainstore` | 4 blocks above genesis, valid or refused by `ConnectBlock`, two power failures or shutdowns, disk errors, one file | holds |
| `chainstore_power` | two files, disk errors; quantifies over what could be lost | holds |
| `chainstore_undo` | two files | violated: finding |
| `chainstore_live` | two crashes, also between two writes of a step, or shutdowns | holds |
| `coins` | 5 blocks above genesis, 8 transactions, 120 ways to fill the blocks | holds |
| `mempool` | 4 blocks above genesis, 9 transactions, at most 1 orphan | holds |
| `synccheckpoint` | 4 blocks above genesis, 2 master keys | holds |
| `keypool` | 2 reservations, a pool of 1 key (and 1 more), at most 6 keys | holds |
| `walletlock` | 2 relocking threads, timeouts 0, 1 and 3 | holds |

What they show:

- **checkqueue.** `ImplementsVerifier`: the queue is a `BlockVerifier`, so that
  `Wait()` returns the conjunction of exactly the checks added, although a
  failure makes later batches skip theirs. `QueueFinished`,
  `TodoCountsPending`: nothing is left over when it returns.
  `IdleWhenUnlocked`: under the mutex the constructor's first assertion would
  be right. `WaitReturns`: no wake-up is lost.
- **blockchain.** `BestHasMostWork`: between calls the node is on the valid
  chain with the most work. `BestChainIsValid`, `OnlyInvalidMarkedFailed`:
  no invalid block is ever connected, no valid branch is ever condemned.
  `PnextLinksUnlessError`: `pnext` is exactly the best chain at every step.
  `OrphansResolved`: an orphan left behind has an invalid ancestor.
  `WorkIncreases`: the best block is only replaced by one with more work.
  `ProcessBlockReturns`: the nested loops end.
- **chainstore.** `BestHasMostWork` survives power failures, shutdowns and
  restarts, and `RestartFindsCandidates` says why: at every step the candidates
  that `LoadBlockIndexDB` would compute from the disk are those the node has
  kept up to date in memory, unless a write failed since it started.
  `TipRecoverable` and `BlocksRecoverable` say that the order block file, index,
  coins is right for the blocks of a running node (a clean shutdown breaks it,
  see `ShutdownSyncs` below); `chainstore_undo` that it is not for undo data in
  an earlier file. `NodeComesUp`: start-up succeeds after finitely many attempts,
  wherever between two writes the process was killed.
- **coins.** `CoinsMatchChain`, `DatabaseMatchesItsBest`: the coins in memory
  and on disk are those of their best block, computed from the contents of its
  chain. `UndoRestoresAncestors`: disconnecting leads back to every earlier
  block, although undo data is written once. `SupplyIsUnspentSum`,
  `NoBlockMintsMore`: the recorded money supply. `WalletFindsConfirmed`: what the
  wallet is told, unless connected blocks were dropped again.
- **mempool.** `SpendersMatchPool`: no conflicts, and an exact index of
  spenders. `CheckedPoolNotInChain`, `PoolConnectsUnlessMintedAway`: what was
  checked is not confirmed, and has its inputs unless a coinbase went away.
  `ExtensionKeepsPool`: a block takes out no more than it must.
  `BranchResurrectedAfterFlush`: a reorganisation brings transactions back.
  `OrphanIndexExact`: the index of the orphans follows the evictions.
- **synccheckpoint.** `CheckpointAccepted`: the recorded checkpoint has a valid
  chain and has arrived. `CheckpointKeepsLinks`: `pnext` stays exact although the
  best chain moves to less work. `CheckpointLeftForMoreWork`: the node is on the
  chain of the checkpoint, or has left it for more work, which is all that
  becomes of "checkpoints are enforced".
- **keypool.** `KeysHandedOutOnce`: a reservation has its key alone, unless its
  own index was given out again. `UsedKeysErased`, `PoolFlushed`: see above.
- **walletlock.** `RelockNotEarly`: no thread locks before the time that a call
  has entered. `WalletRelocks`: an unlocked wallet is locked again, except after
  the three ways in which a command leaves it unlocked with no thread to lock it:
  a relocking thread that comes between the read of `fWasLocked` and the
  `Unlock` of a passphrase change, a cipher that fails after it, and a timeout
  that is not a number, which is found after the `Unlock`.

### Statements that do not hold

Comments, tests and assertions of the repository say more than the code does.
The statements below are definitions of the modules; TLC refutes each under the
configuration named. `chainstore_undo` is a run of the project, the others can
be repeated with the command
`tlc -config <configuration> <MC module>`.

| definition | configuration | what is said | what happens |
|---|---|---|---|
| `UndoRecoverable` | `MCChainStoreUndo.cfg` | "Make sure it's successfully written to disk before changing memory structure" (`main.cpp:1797`) | the undo data of a block in an earlier file is not committed before the coins |
| `ControlAssertionsHold` | `MCCheckQueueAssert.cfg` | "passed queue is supposed to be unused, or NULL" (`checkqueue.h:165`) | the assertion reads the counters without the mutex and fails while a worker is between two updates |
| `PnextLinksBestChain` | `MCBlockChainPnext.cfg` | "pnext will only point forward to the longest branch" (`main.h:1635`) | after a disk error `pcoinsTip` is ahead of `pindexBest`, and the next block leaves `pnext` unset |
| `OrphansLackParent` | `MCBlockChainOrphans.cfg` | "shunt it off to holding area until we get it" (`main.cpp:2274`) | an orphan whose parent is stored but not connected stays |
| `ShutdownSyncs` | `MCChainStoreShutdown.cfg` | "Failed to sync block index" (`main.cpp:1937`) | `CLevelDB::Flush()`, on which `Shutdown()` relies too, does nothing |
| `PoolConnects` | `MCMemPoolConnects.cfg` | "all transactions in the memory pool should connect" (`main.cpp:4266`) | wallet transactions are accepted again without a check of their inputs |
| `PoolNotInChain` | `MCMemPoolInChain.cfg` | "already refuses previously-known transaction ids entirely" (`main.cpp:1565`) | supporting transactions that are confirmed enter the pool |
| `NoOrphansNoIndex` | `MCMemPoolIndex.cfg` | `mapOrphanTransactionsByPrev.empty()` (`test/DoS_tests.cpp:213`) | the "tx" message inserts empty sets |
| `OrphansProcessed` | `MCMemPoolRelease.cfg` | "Recursively process any orphan transactions that depended on this one" (`main.cpp:3564`) | the loop offers `tx`, not `orphanTx`, to the pool |
| `BranchResurrected` | `MCMemPoolResurrect.cfg` | "Resurrect memory transactions that were in the disconnected branch" (`main.cpp:1826`) | not before a flush, as the cache still has an empty record |
| `CheckpointEnforced` | `MCSyncCheckpointEnforce.cfg` | "checkpoints are enforced" (`checkpointsync.cpp:58`) | the next block on a branch with more work leaves the checkpoint |
| `KeyChangeNoticed` | `MCSyncCheckpointKey.cfg` | "if checkpoint master key changed must reset sync-checkpoint" (`main.cpp:2818`) | the code is behind the early return for an existing database |
| `PendingTakenUp` | `MCSyncCheckpointPending.cfg` | "keep the checkpoint as pending" (`checkpointsync.cpp:408`) | nothing takes it up |
| `ReservedOnce` | `MCKeyPoolRenumber.cfg` | "Take key pair from key pool so it won't be used again" (`wallet.cpp:1332`) | a key numbered with a reserved index is reserved, the first owner returns the index, and it is reserved again |
| `WalletAlwaysRelocks` | `MCWalletLockAlways.cfg` | "Stores the wallet decryption key in memory for <timeout> seconds." (`rpcwallet.cpp:1329`) | the three ways above |

### Bounds

Two workers and a master are the least number at which two threads work while a
third sleeps; four checks with batches of two make batches of one and of two,
and leave a thread without work. The tree is `a1` on the genesis block and two branches
of two blocks on `a1`. The first blocks of the branches have equal work, so
there is a tie; the branches as a whole differ. That is enough for an invalid
block below, at and above the fork, for a reorganisation in either direction,
and for orphans that release orphans. `ChainStore` leaves out the last block of
the branch with less work, which keeps the reorganisations, and `MCChainStore.cfg`
the blocks that `AcceptBlock` refuses, which are never stored. There a crash is left
to power failures, which may lose nothing; a crash between two writes and in
`"down"` is in `chainstore_live`. Two stops are the least number for an error that
a first restart prepares and a second meets. `MaxStops` is 0 in the runs that quantify over
losses: there the property itself looks at every possible power failure of
every state. Two files are what it takes to leave one.

The transactions of `MCCoins` include one that spends two outputs of another in
one block (so that only the last carries the metadata of the undo record), a
double spend across blocks and branches, a coinbase that is mined again, and one
that does not verify; the fork is such that either branch is connected first. In
`MCMemPool` the branches confirm the same transactions, conflicting ones, or
have nothing in common, with a chain of three dependent transactions. One
orphan is the least limit, and makes every further one evict. A key pool of size
1 runs empty and is topped up to 2; six keys are enough to reserve two, encrypt
the wallet, restart and go on, and to write a record at a reserved index. Two
relocking threads are enough for one to sleep while another moves the time, and
`MaxTime` for an old thread to meet a later call.

### Fairness

`checkqueue_live`: weak fairness for a thread that runs, strong fairness for
one that asks for the mutex, as the mutexes of the systems in use are not
starved for ever; none for spurious wake-ups and interruptions.
`blockchain`: weak fairness for the thread in `ProcessBlock`; no block has
to arrive. `chainstore_live`: the same, and somebody starts a stopped node.
`walletlock`: weak fairness for the clock, for a relocking thread that can run
and for a command that has begun; nobody has to issue a command.

Deadlock is not checked where the system may rest: a node that has received all
its blocks, or that has stopped for good.

## Proofs

`CheckQueueProofs` assumes only what `CheckQueue` states of its constants: a
finite set of workers, the master and `NoThread` outside it, a finite set of
checks, and a positive batch size. The inductive invariant relates the counters
to the program counters: `nTodo` is the cardinality of the pending checks,
which are pairwise disjoint between the queue and the batches; `nTotal - nIdle`
is the number of threads awake in the loop (`BusyInv`); and `VerdictInv` says
what is known of the bad checks: as long as `fAllOk` holds no bad check has been
accounted for, a local or shared result is false only if some check is bad, and
a batch whose local result is true holds no bad check. The last is what makes
the verdict right: `fAllOk` alone says nothing while batches are running. Theorems: `Typing`, `TodoCorrect`,
`Finished`, `IdleAtRest`, `VerdictCorrect`, and `Refinement`: every step of the
queue is a step of `BlockVerifier` or changes nothing of it. The only steps that
are not stutters are the constructor, `Add`, `CleanUp` (a batch finishes),
`Wait` and `Return`; `VerdictInv` gives the value returned, and `RestInv` that
nothing finishes while the control object is closed.

`BlockChainProofs` assumes a finite set of blocks with a parent function whose
ancestor sets are given by `Ancestors`, and work that grows from parent to
child. `BestHasMostWork` is not inductive. `WorkInv` strengthens it: every block
with more work than the best one descends from a block marked as failed, except
the block being accepted, and in the middle of a call `vAttach` is exactly the
part of that block's chain above the best block. This needs `IndexInv` (the
candidates are the blocks not marked), `LinkInv` (the coins and `pnext` agree
with the best block, so the walk down the chain stops where the best chain
begins) and `CallInv`. `OrphanInv` says that an orphan whose parent is known
has its parent in the work queue, or is hopeless. `NoInvalidNext` gives
`DeadCall`. Theorems: `Typing`, `BestChainValidity`,
`BestWork`, `MarkingCorrect`, `PnextCorrect`, `OrphansTried`, `WorkGrows`,
`DeadCall`.

`KeyPoolProofs` assumes only that `TargetSize` and `MaxKeys` are natural numbers.
The inductive invariant says that records have distinct keys of those generated
and not used (`Records`), that what is reserved has its own record until it is
kept, unless its index is doubtful, and that every index without a record is
(`Reserved`, `NoClash`), and that the records not yet erased by `NewKeyPool` are those of `setKeyPool` or reserved when
encryption began (`Flushed`). `Good` collects what holds of a pool and of what
`TopUpKeyPool` makes of it, so that a reservation, which tops up first, is proved
from the lemma on topping up. Theorems: `Inductive`, `HandedOutOnce`, `Erased`,
`EncryptionFlushes`.

Only model-checked: liveness (`WaitReturns`, `ProcessBlockReturns`,
`NodeComesUp`, `WalletRelocks`), which the provers at hand do not handle;
`ChainStore`, `SyncCheckpoint` and `WalletLock`; and `Coins` and `MemPool`,
whose properties compare with folds over the contents of a chain and need
induction over it.

## Abstractions and what is not modelled

- Validity is a verdict: transactions, scripts, coins and the proof of work
  are not in `BlockChain`. A block that is refused once is refused always,
  which leaves out blocks refused only for their time stamp.
- `SetBestChain` is also called by the synchronized checkpoints, on a block
  that may have less work than the best one. `BlockChain` leaves them out, and
  its `BestHasMostWork` and `WorkIncreases` are about a node without them;
  `SyncCheckpoint` has them.
- `-reindex`, `-loadblock`, the transaction index and the creation of the
  genesis block are left out. `nBestInvalidWork` is kept; what
  `SetBestChain` does to the memory pool and the wallet is in `MemPool` and
  `Coins`.
- `VerifyDB` checks 288 blocks back by default; the chains of the model are
  shorter, so it checks all of them. Blocks are written as in an initial
  download, without a commit, which includes the outcomes of the other case. A
  `FindBlockPos` that fails after moving to the next file leaves
  `nLastBlockFile` in memory ahead of the disk; this is not followed. Nor is a
  node that finds no best block (`"nobest"`) or a block without its parent
  (`"gap"`) when it starts.
- The writes of failure bits and of the invalid work are taken to succeed in a
  running node (a stop may come between any two of them). One that fails throws
  out of `ConnectBestBlock` with the bit set in memory and, in
  `InvalidBlockFound`, the block still among the candidates.
- `Coins` and `MemPool` have no disk errors, `SyncCheckpoint` neither these nor
  crashes: those are in `BlockChain` and `ChainStore`. Amounts are small numbers,
  without the range checks; the fee is the same for all transactions.
- The free transaction limiter and the rules for standard transactions are left
  out of `MemPool`, and so is `CTxMemPool::clear`, which the node does not call.
- An erasure of a pool record, whose result `KeepKey` and `NewKeyPool` ignore, is
  taken to succeed; if it did not, the next start would find the record.
- `KeyPool` leaves out `CDB::Rewrite`'s replacement of the file, and the two
  `exit(1)` of `EncryptWallet`, after which the wallet on disk is as before.
- `WalletLock` is about the commands. The graphical interface locks and unlocks
  the wallet without a timeout, and is left out.

`PROJECT.json` lists every part of the system under `components`. In short:

| part | where | state |
|---|---|---|
| script check queue | `checkqueue.h` | modelled |
| block index, best chain, orphan blocks | `main.cpp` | modelled, verdicts abstract |
| block files, index and coin databases, start and stop | `main.cpp`, `txdb.cpp`, `init.cpp` | modelled in part |
| coins, connecting and disconnecting blocks | `main.cpp` | modelled in part, scripts abstract |
| memory pool, orphan transactions | `main.cpp` | modelled in part |
| synchronized checkpoints | `checkpointsync.cpp` | modelled in part: what is reachable |
| targets and rewards, sieve | `prime.cpp` | planned |
| miner | `main.cpp` | planned |
| connections, messages, inventory | `net.cpp`, `main.cpp` | planned |
| addresses, alerts | `addrman.cpp`, `alert.cpp` | planned |
| wallet: key pool, encryption, locking | `wallet.cpp`, `rpcwallet.cpp` | modelled in part |
| wallet: transactions, database | `wallet.cpp`, `db.cpp`, `walletdb.cpp` | planned |
| containers, semaphores | `limitedmap.h`, `mruset.h`, `sync.h` | planned |
| merkle trees, bloom filter, amounts | `main.cpp`, `bloom.cpp` | planned |
| script interpreter | `script.cpp` | perhaps, a subset |
| cryptography, big numbers, encodings | | out of TLC's reach |
| RPC, Qt, utilities | | I/O and presentation |
| LevelDB, JSON Spirit | | third party |

## Plan

1. **The wallet.** Its transactions, and `WalletDB` with crashes and the flush
   thread.
2. **The network.** `NodeLifecycle` with `Semaphore`, `Inventory`, `AddrMan`
   with its own consistency check as the invariant, `Alert`.
3. **Miner**, against a changing best block.
4. **Algorithms.** `PrimeTarget` with integer widths, `Sieve`, `MerkleTree`,
   `Compression`, `Containers`.
5. **Refinement and proofs.** An abstract ledger that moves to a chain with
   more work, implemented by `BlockChain`; the invariants of `ChainStore` and of
   `WalletLock`.
