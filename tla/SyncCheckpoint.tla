--------------------------- MODULE SyncCheckpoint ---------------------------
(***************************************************************************)
(* Synchronized checkpoints (checkpointsync.cpp) on top of the choice of   *)
(* the best chain, on the node that issues them: sendcheckpoint runs under *)
(* cs_main, so it comes between two calls of ProcessBlock.  A node with    *)
(* the checkpoint key always enforces (IsSyncCheckpointEnforced).          *)
(*                                                                         *)
(* Nothing calls AcceptPendingSyncCheckpoint or CheckSyncCheckpoint, and   *)
(* no message reaches ProcessSyncCheckpoint.  ResetSyncCheckpoint is       *)
(* reached from InitBlockIndex only when the block database is new: its    *)
(* effect is part of the initial state.                                    *)
(*                                                                         *)
(* Disk errors, crashes and -reindex are left to ChainStore: a restart     *)
(* here follows a clean shutdown.                                          *)
(***************************************************************************)
EXTENDS BlockChain

CONSTANTS
    Hardened,           \* Checkpoints::GetLatestHardenedCheckpoint()
    MasterKeys          \* the master public keys that releases are built with

ASSUME HardenedAssumption == Hardened \in Blocks

VARIABLES
    hashSyncCheckpoint, \* written through to the database
    hashPendingCheckpoint,
    hashInvalidCheckpoint,
    strPubKey,          \* the master key stored in the database
    strMasterPubKey     \* the master key of the program that runs

hashes         == <<hashSyncCheckpoint, hashPendingCheckpoint, hashInvalidCheckpoint>>
checkpoints    == <<hashes, strPubKey, strMasterPubKey>>
checkpointVars == <<vars, checkpoints>>

Height(b)        == Cardinality(Ancestors[b]) - 1
IsInMainChain(b) == pnext[b] # NoBlock \/ b = pindexBest

-----------------------------------------------------------------------------
(* InitBlockIndex on a new database, with CheckCheckpointPubKey: the key is *)
(* stored, and ResetSyncCheckpoint finds no block but the genesis block.    *)
CheckpointInit ==
    /\ Init
    /\ strMasterPubKey \in MasterKeys
    /\ strPubKey = strMasterPubKey
    /\ hashSyncCheckpoint = Genesis
    /\ hashPendingCheckpoint = IF Hardened = Genesis THEN NoBlock ELSE Hardened
    /\ hashInvalidCheckpoint = NoBlock

(* "older" is ignored, and a "conflict" is reported. *)
ValidateSyncCheckpoint(h) ==
    IF Height(h) <= Height(hashSyncCheckpoint)
    THEN IF h \in Ancestors[hashSyncCheckpoint] THEN "older" ELSE "conflict"
    ELSE IF hashSyncCheckpoint \in Ancestors[h] THEN "accept" ELSE "conflict"

(* Mutant of KeepPending: it becomes the checkpoint at once. *)
KeepPendingAtOnce(h) ==
    /\ pc = "idle"
    /\ h \notin mapBlockIndex
    /\ hashSyncCheckpoint' = h
    /\ UNCHANGED <<vars, hashPendingCheckpoint, hashInvalidCheckpoint, strPubKey,
                   strMasterPubKey>>

(* ProcessSyncCheckpoint(h): the block is not in the index. *)
KeepPending(h) ==
    /\ pc = "idle"
    /\ h \notin mapBlockIndex
    /\ hashPendingCheckpoint' = h
    /\ UNCHANGED <<vars, hashSyncCheckpoint, hashInvalidCheckpoint, strPubKey,
                   strMasterPubKey>>

(* ProcessSyncCheckpoint(h): it conflicts with the current one. *)
Conflict(h) ==
    /\ pc = "idle"
    /\ h \in mapBlockIndex
    /\ ValidateSyncCheckpoint(h) = "conflict"
    /\ hashInvalidCheckpoint' = h
    /\ UNCHANGED <<vars, hashSyncCheckpoint, hashPendingCheckpoint, strPubKey,
                   strMasterPubKey>>

(* ProcessSyncCheckpoint(h): SetBestChain meets p, which is invalid. *)
SwitchRefused(h, p) ==
    /\ pc = "idle"
    /\ h \in mapBlockIndex
    /\ ValidateSyncCheckpoint(h) = "accept"
    /\ ~IsInMainChain(h)
    /\ p \in Refused(h)
    /\ \A a \in Refused(h) : p \in Ancestors[a]
    /\ failedValid' = failedValid \cup {p}
    /\ setBlockIndexValid' = setBlockIndexValid \ {p}
    /\ InvalidChainFound({h, p})
    /\ hashInvalidCheckpoint' = h
    /\ UNCHANGED <<verdict, mapBlockIndex, failedChild, chain, mapOrphanBlocks, pc,
                   pblock, vAttach, vWorkQueue, fSystemError, hashSyncCheckpoint,
                   hashPendingCheckpoint, strPubKey, strMasterPubKey>>

(* ProcessSyncCheckpoint(h): h is recorded, once it is in the best chain.  *)
(* SetBestChain is called whatever the work of h is.                       *)
Record(h) ==
    /\ pc = "idle"
    /\ h \in mapBlockIndex
    /\ ValidateSyncCheckpoint(h) = "accept"
    /\ \/ IsInMainChain(h) /\ UNCHANGED chain
       \/ /\ ~IsInMainChain(h) /\ Refused(h) = {}
          /\ coinsTip' = h
          /\ pnext' = Relinked(h)
          /\ pindexBest' = h
    /\ hashSyncCheckpoint' = h
    /\ hashPendingCheckpoint' = NoBlock
    /\ UNCHANGED <<verdict, index, mapOrphanBlocks, pc, pblock, vAttach, vWorkQueue,
                   fSystemError, hashInvalidCheckpoint, strPubKey, strMasterPubKey>>

(* A clean shutdown, and a start of the release built with key k.          *)
(* LoadBlockIndexDB reads the checkpoint; InitBlockIndex returns at once,  *)
(* since the genesis block is loaded; then ConnectBestBlock runs.          *)
Restart(k) ==
    /\ pc \in {"idle", "down"}
    /\ strMasterPubKey' = k
    /\ hashPendingCheckpoint' = NoBlock
    /\ hashInvalidCheckpoint' = NoBlock
    /\ setBlockIndexValid' = mapBlockIndex \ Failed
    /\ mapOrphanBlocks' = {}
    /\ pc' = "connect"
    /\ UNCHANGED <<verdict, mapBlockIndex, failedValid, failedChild, nBestInvalidWork,
                   chain, pblock, vAttach, vWorkQueue, fSystemError,
                   hashSyncCheckpoint, strPubKey>>

ProcessSyncCheckpoint ==
    \E h \in Blocks : \/ KeepPending(h) \/ Conflict(h) \/ Record(h)
                      \/ \E p \in Blocks : SwitchRefused(h, p)

CheckpointNext ==
    \/ (Receive \/ Step) /\ UNCHANGED checkpoints
    \/ ProcessSyncCheckpoint
    \/ \E k \in MasterKeys : Restart(k)

CheckpointSpec == CheckpointInit /\ [][CheckpointNext]_checkpointVars

(* The thread that holds cs_main runs on; nothing makes a peer send a      *)
(* block, or the operator issue a checkpoint or stop the node.             *)
CheckpointLiveSpec ==
    CheckpointSpec /\ WF_checkpointVars(Step /\ UNCHANGED checkpoints)

-----------------------------------------------------------------------------
(* IsMatureSyncCheckpoint: "sync-checkpoint should always be accepted      *)
(* block".  It is in the index with a valid chain, whatever order blocks,  *)
(* checkpoints and restarts come in.                                       *)
CheckpointAccepted == hashSyncCheckpoint \in mapBlockIndex /\ ValidChain(hashSyncCheckpoint)

(* pnext, by which IsInMainChain decides whether a checkpoint needs a      *)
(* switch, links exactly the best chain although checkpoints move it to    *)
(* chains with less work, between calls of ProcessBlock.                   *)
CheckpointKeepsLinks == LinkedToBest

(* The best chain contains the checkpoint, or has more work than it: what  *)
(* ConnectBestBlock leaves the checkpoint for is never a chain with the    *)
(* same or less work, although the switch to the checkpoint may have made  *)
(* the best chain lighter than other candidates, and whatever is refused   *)
(* on the way to them.                                                     *)
CheckpointLeftForMoreWork ==
    \/ hashSyncCheckpoint \in Ancestors[pindexBest]
    \/ ChainWork[hashSyncCheckpoint] < ChainWork[pindexBest]

(* checkpointsync.cpp: "The 'enforce' mode of subscribemode means          *)
(* checkpoints are enforced": the best chain contains the checkpoint.      *)
CheckpointEnforced == pc = "idle" => hashSyncCheckpoint \in Ancestors[pindexBest]

(* ProcessSyncCheckpoint: "We haven't received the checkpoint chain, keep  *)
(* the checkpoint as pending": once received, it is pending no longer.     *)
PendingTakenUp ==
    (hashPendingCheckpoint \in mapBlockIndex) ~> (hashPendingCheckpoint \notin mapBlockIndex)

(* InitBlockIndex: "if checkpoint master key changed must reset            *)
(* sync-checkpoint", which starts by storing the new key.                  *)
KeyChangeNoticed == pc = "idle" => strPubKey = strMasterPubKey
=============================================================================
