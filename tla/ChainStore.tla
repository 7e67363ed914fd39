----------------------------- MODULE ChainStore -----------------------------
(***************************************************************************)
(* BlockChain together with what it keeps on disk, and the ways a node     *)
(* stops and starts again:                                                 *)
(*                                                                         *)
(*   blocks/index   the block index database; writes reach it in order and *)
(*                  are safe only after pblocktree->Sync();                *)
(*   blk/rev files  the blocks and their undo data; safe only after        *)
(*                  FlushBlockFile(), which commits the last file alone;   *)
(*   chainstate     the coin database; one atomic, unsynced batch per      *)
(*                  flush of pcoinsTip, which also records its best block. *)
(*                                                                         *)
(* The blocks are taken to be written as in an initial download, where     *)
(* WriteToDisk does not commit them: a power failure may lose any of them  *)
(* or none, which includes every outcome of a committed write.             *)
(***************************************************************************)
EXTENDS BlockChain, SequencesExt

CONSTANTS
    Faults,         \* the ways the node stops: "crash", "power", "shutdown", "disk"
    MaxStops,       \* bound: how often it stops
    MaxFiles        \* bound: how many block files there are

ASSUME StoreAssumption ==
    /\ Faults \subseteq {"crash", "power", "shutdown", "disk"}
    /\ MaxStops \in Nat /\ MaxFiles \in Nat \ {0}

VARIABLES
    dbIndex,        \* the states of blocks/index since the last Sync, oldest first
    coinsDB,        \* the best block that chainstate records
    coinsOld,       \* the ones that a power failure may bring back, coinsDB too
    nFile,          \* CBlockIndex::nFile
    blkSafe,        \* the blocks whose data is committed
    revSafe,        \* the blocks whose undo data is committed
    blkLost,        \* the blocks in the index whose data a power failure lost
    revLost,        \* the same for undo data
    nStops

disk  == <<dbIndex, coinsDB, coinsOld, nFile, blkSafe, revSafe>>
fault == <<blkLost, revLost, nStops>>
storeVars == <<vars, disk, fault>>

(* What blocks/index holds: the entries, the failure bits and              *)
(* BLOCK_HAVE_UNDO of their nStatus, nBestInvalidWork and nLastBlockFile.  *)
db == Last(dbIndex)

nLastBlockFile == db.file

(* A node that has created its genesis block, taken to be committed.  A    *)
(* coin database without a best block counts as one at Genesis: connecting *)
(* the genesis block adds no coins.                                        *)
StoreInit ==
    /\ Init
    /\ dbIndex = <<[have |-> {Genesis}, failedValid |-> {}, failedChild |-> {},
                    undo |-> {}, work |-> 0, file |-> 1]>>
    /\ coinsDB = Genesis /\ coinsOld = {Genesis}
    /\ nFile = [b \in Blocks |-> 1]
    /\ blkSafe = {Genesis} /\ revSafe = {}
    /\ blkLost = {} /\ revLost = {} /\ nStops = 0

-----------------------------------------------------------------------------
(* Mutant of FlushBlockFile: the undo file is committed alone. *)
FlushUndoFile(undo) ==
    /\ revSafe' = revSafe \cup {b \in undo \ revLost : nFile[b] = nLastBlockFile}
    /\ UNCHANGED blkSafe

(* FlushBlockFile(): commit the block file and the undo file in use. *)
FlushBlockFile(undo) ==
    /\ blkSafe' = blkSafe \cup {b \in mapBlockIndex \ blkLost : nFile[b] = nLastBlockFile}
    /\ revSafe' = revSafe \cup {b \in undo \ revLost : nFile[b] = nLastBlockFile}

(* FindBlockPos and WriteToDisk, where a full file is flushed before the   *)
(* next one is begun, and AddToBlockIndex up to its WriteBlockIndex: the   *)
(* block is in memory by then, and the write may fail.                     *)
StoreBlock(b) ==
    /\ ProcessBlock(b) \/ AcceptOrphan(b)
    /\ \E file \in {nLastBlockFile, nLastBlockFile + 1} \cap 1..MaxFiles :
          /\ IF file = nLastBlockFile THEN UNCHANGED <<blkSafe, revSafe>>
                                      ELSE FlushBlockFile(db.undo)
          /\ nFile' = [nFile EXCEPT ![b] = file]
          /\ \/ dbIndex' = Append(dbIndex, [db EXCEPT !.have = @ \cup {b}, !.file = file])
             \/ /\ "disk" \in Faults
                /\ dbIndex' = IF file = nLastBlockFile THEN dbIndex
                              ELSE Append(dbIndex, [db EXCEPT !.file = file])
    /\ UNCHANGED <<coinsDB, coinsOld, fault>>

(* AddToBlockIndex goes on to ConnectBestBlock once the entry is written. *)
EntryWritten == pblock = NoBlock \/ pblock \in db.have

(* It was not: "Failed to write block index".  The block stays in memory. *)
StoreIndexFails ==
    /\ ~EntryWritten
    /\ WriteIndexFails
    /\ UNCHANGED <<disk, fault>>

(* Steps that write nothing. *)
StoreNothing ==
    /\ \/ \E b \in Blocks \ {Genesis} : ShuntOrphan(b) \/ RejectOrphan(b)
       \/ EntryWritten /\ (NothingToDo \/ PlanAttach)
       \/ NextInQueue
    /\ UNCHANGED <<disk, fault>>

(* The first k blocks of S, from the tip down or from the root up. *)
FromTip(S, k)  == {a \in S : Cardinality({b \in S : ChainWork[b] > ChainWork[a]}) < k}
FromRoot(S, k) == {a \in S : Cardinality({b \in S : ChainWork[b] < ChainWork[a]}) < k}

(* WriteBestInvalidWork after the state d, if there is more than before. *)
WorkWrite(d, work) == IF work = d.work THEN << >> ELSE <<[d EXCEPT !.work = work]>>

(* Mutant of MarkWrites: the blocks are marked in memory alone. *)
NoMarkWrites(S, work) == << >>

(* One WriteBlockIndex for each block marked, the tip first, and then the  *)
(* work.  Every write of an entry writes all of it, so that it also makes  *)
(* up for one that failed before.                                          *)
MarkWrites(S, work) ==
    [k \in 1..Cardinality(S) |-> [db EXCEPT !.have = @ \cup FromTip(S, k),
                                            !.failedChild = @ \cup FromTip(S, k)]]
    \o WorkWrite([db EXCEPT !.have = @ \cup S, !.failedChild = @ \cup S], work)

StoreMarks ==
    /\ EntryWritten
    /\ MarkDescendantsFailed
    /\ dbIndex' = dbIndex \o MarkWrites(failedChild' \ failedChild, nBestInvalidWork')
    /\ UNCHANGED <<coinsDB, coinsOld, nFile, blkSafe, revSafe, fault>>

(* ConnectBlock of the blocks of S in order: the undo data is written once *)
(* and for all, and then the index entry with BLOCK_HAVE_UNDO.             *)
UndoWrites(S) ==
    LET T == S \ db.undo
    IN  [k \in 1..Cardinality(T) |-> [db EXCEPT !.have = @ \cup FromRoot(T, k),
                                                !.undo = @ \cup FromRoot(T, k)]]

(* Mutant of InvalidWrites: BLOCK_FAILED_VALID is set in memory alone. *)
NoInvalidWrites(S, p, work) == UndoWrites(S)

(* The blocks of S are connected, p is refused: InvalidChainFound records  *)
(* its work, InvalidBlockFound the failure.                                *)
InvalidWrites(S, p, work) ==
    UndoWrites(S)
    \o WorkWrite([db EXCEPT !.have = @ \cup S, !.undo = @ \cup S], work)
    \o <<[db EXCEPT !.have = @ \cup S \cup {p}, !.undo = @ \cup S, !.work = work,
                    !.failedValid = @ \cup {p}]>>

(* ConnectBlock gets as far as p, which it refuses. *)
FirstRefused(x, p) ==
    /\ p \in Refused(x)
    /\ \A a \in Refused(x) : p \in Ancestors[a]
    /\ (vConnect(x) \cap Ancestors[p]) \cap blkLost = {}
    /\ vDisconnect(x) \cap (blkLost \cup revLost) = {}

StoreInvalid(x, p) ==
    /\ InvalidBlockFound(x, p)
    /\ FirstRefused(x, p)
    /\ dbIndex' = dbIndex \o InvalidWrites(vConnect(x) \cap (Ancestors[p] \ {p}), p,
                                           nBestInvalidWork')
    /\ UNCHANGED <<coinsDB, coinsOld, nFile, blkSafe, revSafe, fault>>

-----------------------------------------------------------------------------
Readable(x) ==
    /\ vConnect(x) \cap blkLost = {}
    /\ vDisconnect(x) \cap (blkLost \cup revLost) = {}

(* SetBestChain in an initial download: the coins stay in pcoinsTip. *)
StoreChain(x) ==
    /\ SetBestChain(x)
    /\ Readable(x)
    /\ dbIndex' = dbIndex \o UndoWrites(vConnect(x))
    /\ UNCHANGED <<coinsDB, coinsOld, nFile, blkSafe, revSafe, fault>>

(* Mutant of Synced: the coins are written without a Sync() of the index. *)
NotSynced(x) == dbIndex \o UndoWrites(vConnect(x))

(* pblocktree->Sync() after the entries of vConnect were written. *)
Synced(x) == <<[db EXCEPT !.have = @ \cup vConnect(x), !.undo = @ \cup vConnect(x)]>>

(* SetBestChain otherwise, or with a full cache: FlushBlockFile, Sync and  *)
(* then pcoinsTip->Flush().                                                *)
StoreChainAndFlush(x) ==
    /\ SetBestChain(x)
    /\ Readable(x)
    /\ dbIndex' = Synced(x)
    /\ FlushBlockFile(db.undo \cup vConnect(x))
    /\ coinsDB' = x
    /\ coinsOld' = coinsOld \cup {x}
    /\ UNCHANGED <<nFile, fault>>

(* CheckDiskSpace fails before any of that. *)
StoreDiskFull(x) ==
    /\ "disk" \in Faults
    /\ FlushFails(x)
    /\ Readable(x)
    /\ dbIndex' = dbIndex \o UndoWrites(vConnect(x))
    /\ UNCHANGED <<coinsDB, coinsOld, nFile, blkSafe, revSafe, fault>>

(* FindBlockPos or WriteToDisk fails. *)
StoreBlockFails(b) ==
    /\ "disk" \in Faults
    /\ WriteBlockFails(b)
    /\ UNCHANGED <<disk, fault>>

(* A block or undo record that is needed was lost. *)
StoreUnreadable(x) ==
    /\ ~Readable(x)
    /\ AttachFails(x)
    /\ UNCHANGED <<disk, fault>>

-----------------------------------------------------------------------------
(* The node stops *)

Running == pc \notin {"off", "corrupt", "nobest", "gap"}

Stop(how) ==
    /\ how \in Faults
    /\ nStops < MaxStops
    /\ nStops' = nStops + 1

(* Memory is gone; it is read again from disk.  A block that no entry      *)
(* points to may be received and written again.                            *)
Forget ==
    /\ mapBlockIndex' = {Genesis} /\ failedValid' = {} /\ failedChild' = {}
    /\ setBlockIndexValid' = {Genesis} /\ nBestInvalidWork' = 0
    /\ pindexBest' = Genesis /\ coinsTip' = Genesis
    /\ pnext' = [b \in Blocks |-> NoBlock]
    /\ mapOrphanBlocks' = {} /\ vAttach' = {} /\ vWorkQueue' = << >>
    /\ pblock' = NoBlock /\ fSystemError' = FALSE
    /\ UNCHANGED verdict

(* Shutdown(), when the threads are done or interrupted in ConnectBestBlock, *)
(* and after a failed start: pblocktree->Flush() does nothing.               *)
Shutdown ==
    /\ \/ pc \in {"idle", "attach"} /\ Stop("shutdown")
       \/ pc = "down" /\ UNCHANGED nStops
    /\ coinsDB' = coinsTip
    /\ coinsOld' = coinsOld \cup {coinsTip}
    /\ Forget /\ pc' = "off"
    /\ blkSafe' = blkSafe \cap db.have
    /\ UNCHANGED <<dbIndex, nFile, revSafe, blkLost, revLost>>

Dies ==
    /\ Stop("crash")
    /\ Forget /\ pc' = "off"
    /\ blkSafe' = blkSafe \cap db'.have
    /\ UNCHANGED <<coinsDB, coinsOld, nFile, revSafe, blkLost, revLost>>

(* The process dies: what it wrote is with the operating system. *)
Crash ==
    /\ Running
    /\ UNCHANGED dbIndex
    /\ Dies

(* Only some of the writes w of a step were made. *)
CutShort(w) == \E k \in 1..Len(w) - 1 : dbIndex' = dbIndex \o SubSeq(w, 1, k)

(* nBestInvalidWork after InvalidChainFound(b). *)
WorkAfter(b) ==
    IF nBestInvalidWork < ChainWork[b] THEN ChainWork[b] ELSE nBestInvalidWork

(* The process dies between two writes: of the marks ... *)
CrashMarking ==
    /\ pc = "connect" /\ EntryWritten
    /\ \E c, f \in Blocks :
          /\ MostWork(c) /\ ChainWork[c] # ChainWork[pindexBest]
          /\ FirstFailed(c, f)
          /\ CutShort(MarkWrites(Marked(c, f), WorkAfter(c)))
    /\ Dies

(* ... or while SetBestChain connects blocks, the last of which may be     *)
(* refused.                                                                *)
CrashConnecting(x) ==
    /\ NextToAttach(x)
    /\ \/ /\ Refused(x) = {} /\ Readable(x)
          /\ CutShort(UndoWrites(vConnect(x)))
       \/ \E p \in Blocks :
             /\ FirstRefused(x, p)
             /\ CutShort(InvalidWrites(vConnect(x) \cap (Ancestors[p] \ {p}), p,
                                       WorkAfter(x)))
    /\ Dies

(* The machine dies: what is not synced or committed may be lost. *)
PowerFailure ==
    /\ Running \/ pc = "off"
    /\ Stop("power")
    /\ \E i \in DOMAIN dbIndex :
          /\ dbIndex' = <<dbIndex[i]>>
          /\ blkLost' \in SUBSET (dbIndex[i].have \ blkSafe)
          /\ revLost' \in SUBSET (dbIndex[i].undo \ revSafe)
          /\ blkLost \cap dbIndex[i].have \subseteq blkLost'
          /\ revLost \cap dbIndex[i].undo \subseteq revLost'
          /\ blkSafe' = dbIndex[i].have \ blkLost'
          /\ revSafe' = dbIndex[i].undo \ revLost'
    /\ coinsDB' \in coinsOld
    /\ coinsOld' = {coinsDB'}
    /\ Forget /\ pc' = "off"
    /\ UNCHANGED nFile

-----------------------------------------------------------------------------
(* The pnext pointers of the chain that ends in coinsDB. *)
LoadedNext ==
    [b \in Blocks |->
        IF \E c \in Ancestors[coinsDB] \ {Genesis} : Prev[c] = b
        THEN CHOOSE c \in Ancestors[coinsDB] \ {Genesis} : Prev[c] = b
        ELSE NoBlock]

(* A block is in the index and its parent is not: the write of the parent  *)
(* failed, and the block came before the node had stopped.                 *)
ParentMissing == \E b \in db.have \ {Genesis} : Prev[b] \notin db.have

(* Mutant of AfterLoad: start-up does not look for a better chain. *)
AfterLoadIdle ==
    IF coinsDB \notin db.have THEN "nobest"
    ELSE IF ParentMissing THEN "gap"
    ELSE IF Ancestors[coinsDB] \cap (blkLost \cup revLost) = {} THEN "idle"
    ELSE "corrupt"

(* Mutant of AfterLoad: the best block is used although it is unknown. *)
AfterLoadUnchecked ==
    IF ParentMissing THEN "gap"
    ELSE IF Ancestors[coinsDB] \cap (blkLost \cup revLost) = {} THEN "connect"
    ELSE "corrupt"

(* AppInit2: LoadBlockIndexDB and VerifyDB, up to the call of              *)
(* ConnectBestBlock.  "corrupt": VerifyDB cannot read the best chain, and  *)
(* the node offers to reindex.  "nobest": GetBestBlock() does not find the *)
(* best block in the index, pindexBest stays NULL, and the chain would be  *)
(* connected from the genesis block to coins that are already there.       *)
(* "gap": LoadBlockIndexGuts makes an entry without data or parent for a   *)
(* block that is missing, and the work of its descendants is too small.    *)
(* What such a node does is not followed any further.                      *)
AfterLoad ==
    IF coinsDB \notin db.have THEN "nobest"
    ELSE IF ParentMissing THEN "gap"
    ELSE IF Ancestors[coinsDB] \cap (blkLost \cup revLost) = {} THEN "connect"
    ELSE "corrupt"

Restart ==
    /\ pc = "off"
    /\ mapBlockIndex' = db.have
    /\ failedValid' = db.failedValid /\ failedChild' = db.failedChild
    /\ setBlockIndexValid' = db.have \ (db.failedValid \cup db.failedChild)
    /\ nBestInvalidWork' = db.work
    /\ coinsTip' = coinsDB /\ pindexBest' = coinsDB
    /\ pnext' = LoadedNext
    /\ pc' = AfterLoad
    /\ UNCHANGED <<verdict, mapOrphanBlocks, vAttach, vWorkQueue, pblock,
                   fSystemError, disk, fault>>

-----------------------------------------------------------------------------
StoreStep ==
    \/ \E o \in Blocks \ {Genesis} : pc = "resolve" /\ StoreBlock(o)
    \/ pc # "idle" /\ StoreNothing
    \/ StoreMarks
    \/ StoreIndexFails
    \/ \E x \in Blocks : \/ StoreChain(x) \/ StoreChainAndFlush(x) \/ StoreDiskFull(x)
                         \/ StoreUnreadable(x)
                         \/ \E p \in Blocks : StoreInvalid(x, p)
    \/ pc = "down" /\ Shutdown
    \/ Restart

StoreNext ==
    \/ StoreStep
    \/ pc = "idle" /\ (StoreNothing \/ \E b \in Blocks \ {Genesis} : StoreBlock(b))
    \/ \E b \in Blocks \ {Genesis} : StoreBlockFails(b)
    \/ pc # "down" /\ Shutdown
    \/ Crash \/ CrashMarking \/ \E x \in Blocks : CrashConnecting(x)
    \/ PowerFailure

StoreSpec == StoreInit /\ [][StoreNext]_storeVars

(* The thread that holds cs_main runs on, and somebody starts the node     *)
(* again whenever it is down.                                              *)
StoreLiveSpec == StoreSpec /\ WF_storeVars(StoreStep)

-----------------------------------------------------------------------------
StoreTypeOK ==
    /\ dbIndex # << >>
    /\ dbIndex \in Seq([have : SUBSET Blocks, failedValid : SUBSET Blocks,
                        failedChild : SUBSET Blocks, undo : SUBSET Blocks,
                        work : Nat, file : 1..MaxFiles])
    /\ coinsDB \in coinsOld /\ coinsOld \subseteq Blocks
    /\ nFile \in [Blocks -> 1..MaxFiles]
    /\ blkLost \cap blkSafe = {} /\ revLost \cap revSafe = {}
    /\ blkSafe \subseteq db.have \cup mapBlockIndex
    /\ blkLost \subseteq db.have /\ revSafe \cup revLost \subseteq db.undo
    /\ nStops \in 0..MaxStops
    /\ pc \in {"idle", "connect", "attach", "resolve", "down", "off", "corrupt", "nobest", "gap"}
    /\ pc # "nobest" => pindexBest \in mapBlockIndex /\ coinsTip \in mapBlockIndex

(* A restart at any step would find what the node goes by: the same blocks *)
(* but for one whose entry is not written yet, the same candidates, which  *)
(* LoadBlockIndexDB computes from the failure bits on disk and the running *)
(* node keeps up to date by itself, and the same invalid work; unless a    *)
(* write has failed since it was started.                                  *)
RestartFindsCandidates ==
    Running /\ ~fSystemError =>
        /\ mapBlockIndex = db.have \cup ({pblock} \cap mapBlockIndex)
        /\ setBlockIndexValid = mapBlockIndex \ (db.failedValid \cup db.failedChild)
        /\ nBestInvalidWork = db.work

(* Whatever a power failure takes, the coin database's best block is in    *)
(* the index with its whole chain, connected and not marked failed.        *)
TipRecoverable ==
    \A i \in DOMAIN dbIndex : \A t \in coinsOld :
        /\ Ancestors[t] \subseteq dbIndex[i].have
        /\ Ancestors[t] \ {Genesis} \subseteq dbIndex[i].undo
        /\ Ancestors[t] \cap (dbIndex[i].failedValid \cup dbIndex[i].failedChild) = {}

(* ... and the blocks of that chain can be read. *)
BlocksRecoverable == \A t \in coinsOld : Ancestors[t] \subseteq blkSafe

(* ... and so can their undo data ("Make sure it's successfully written to *)
(* disk before changing memory structure").                                *)
UndoRecoverable == \A t \in coinsOld : Ancestors[t] \ {Genesis} \subseteq revSafe

(* AddToBlockIndex takes pblocktree->Flush() to sync the block index       *)
(* ("Failed to sync block index"), and Shutdown calls it before it writes  *)
(* the coins: after a clean exit the tip can be recovered.                 *)
ShutdownSyncs == pc = "off" => TipRecoverable

(* A node that is started again whenever it stops gets through start-up,   *)
(* however many invalid blocks it has stored.                              *)
NodeComesUp == []<>(pc = "idle")
=============================================================================
