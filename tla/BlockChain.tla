----------------------------- MODULE BlockChain -----------------------------
(***************************************************************************)
(* The block index and the choice of the best chain (main.cpp):            *)
(* ProcessBlock, AcceptBlock, AddToBlockIndex, ConnectBestBlock,           *)
(* SetBestChain, InvalidBlockFound, InvalidChainFound.                     *)
(*                                                                         *)
(* All of it runs under cs_main, so one call of ProcessBlock is one        *)
(* critical section.  It is cut into the steps that its loops take, so     *)
(* that what each loop relies on can be stated, and so that ChainStore can *)
(* stop the node between any two of them.                                  *)
(*                                                                         *)
(* A block is a node of a fixed tree.  What the node will find out about a *)
(* block when it validates it is fixed by its contents and its ancestors:  *)
(* the rigid variable verdict holds it, so that one run covers every case. *)
(***************************************************************************)
EXTENDS Integers, Sequences, FiniteSets

CONSTANTS
    Blocks,         \* every block that may be received, the genesis block too
    Genesis,
    NoBlock,        \* NULL
    Prev,           \* hashPrevBlock
    Ancestors,      \* the blocks met when pprev is followed, the block itself too
    ChainWork       \* nChainWork

ASSUME BlocksAssumption == IsFiniteSet(Blocks) /\ Genesis \in Blocks
                           /\ NoBlock \notin Blocks
ASSUME PrevAssumption == Prev \in [Blocks \ {Genesis} -> Blocks]
ASSUME AncestorsAssumption ==
    /\ Ancestors \in [Blocks -> SUBSET Blocks]
    /\ Ancestors[Genesis] = {Genesis}
    /\ \A b \in Blocks \ {Genesis} :
          /\ b \notin Ancestors[Prev[b]]
          /\ Ancestors[b] = Ancestors[Prev[b]] \cup {b}
    /\ \A b \in Blocks : \A a \in Ancestors[b] : Ancestors[a] \subseteq Ancestors[b]
    /\ \A b \in Blocks : \A x, y \in Ancestors[b] :
          x \in Ancestors[y] \/ y \in Ancestors[x]
(* GetBlockWork() is positive, so work grows along every chain. *)
ASSUME WorkAssumption ==
    /\ ChainWork \in [Blocks -> Nat]
    /\ \A b \in Blocks \ {Genesis} : ChainWork[Prev[b]] < ChainWork[b]
    /\ \A b \in Blocks : \A a \in Ancestors[b] : a # b => ChainWork[a] < ChainWork[b]

VARIABLES
    verdict,                \* what validation says of each block (rigid)
    mapBlockIndex,          \* the blocks in the index
    failedValid,            \* those with BLOCK_FAILED_VALID in nStatus
    failedChild,            \* those with BLOCK_FAILED_CHILD in nStatus
    setBlockIndexValid,     \* the candidates for the best chain
    pindexBest,
    pnext,
    coinsTip,               \* pcoinsTip->GetBestBlock()
    nBestInvalidWork,
    mapOrphanBlocks,        \* the blocks whose parent is missing
    pc,                     \* where cs_main's holder is
    pblock,                 \* the block AcceptBlock is working on, or NoBlock
    vAttach,                \* what ConnectBestBlock still has to attach
    vWorkQueue,             \* the accepted blocks whose orphans are to be tried
    fSystemError            \* history: a read from or a write to the disk has failed

index == <<mapBlockIndex, failedValid, failedChild, setBlockIndexValid, nBestInvalidWork>>
chain == <<pindexBest, pnext, coinsTip>>
vars  == <<verdict, index, chain, mapOrphanBlocks, pc, pblock, vAttach,
           vWorkQueue, fSystemError>>

(* "reject": AcceptBlock refuses it (work, time, checkpoint, version).     *)
(* "invalid": it is stored, and ConnectBlock refuses it.                   *)
Verdicts == {"valid", "invalid", "reject"}

Failed        == failedValid \cup failedChild
Invalid       == {b \in Blocks : verdict[b] = "invalid"}
ValidChain(b) == Ancestors[b] \cap Invalid = {}

-----------------------------------------------------------------------------
(* A new data directory: InitBlockIndex has connected the genesis block. *)
Init ==
    /\ verdict \in {v \in [Blocks -> Verdicts] : v[Genesis] = "valid"}
    /\ mapBlockIndex = {Genesis}
    /\ failedValid = {} /\ failedChild = {}
    /\ setBlockIndexValid = {Genesis}
    /\ pindexBest = Genesis
    /\ pnext = [b \in Blocks |-> NoBlock]
    /\ coinsTip = Genesis
    /\ nBestInvalidWork = 0
    /\ mapOrphanBlocks = {}
    /\ pc = "idle" /\ pblock = NoBlock /\ vAttach = {} /\ vWorkQueue = << >>
    /\ fSystemError = FALSE

(* InvalidChainFound(pindexNew) for the blocks of S. *)
InvalidChainFound(S) ==
    LET works == {nBestInvalidWork} \cup {ChainWork[b] : b \in S}
    IN  nBestInvalidWork' \in {w \in works : \A v \in works : v <= w}

-----------------------------------------------------------------------------
(* ProcessBlock(b), from a peer, with the parent unknown: b is set aside. *)
ShuntOrphan(b) ==
    /\ pc = "idle"
    /\ b \notin mapBlockIndex \cup mapOrphanBlocks
    /\ Prev[b] \notin mapBlockIndex
    /\ mapOrphanBlocks' = mapOrphanBlocks \cup {b}
    /\ UNCHANGED <<verdict, index, chain, pc, pblock, vAttach, vWorkQueue,
                   fSystemError>>

(* AcceptBlock(b) up to AddToBlockIndex's call of ConnectBestBlock. *)
AddToBlockIndex(b) ==
    /\ b \notin mapBlockIndex
    /\ Prev[b] \in mapBlockIndex
    /\ verdict[b] # "reject"
    /\ mapBlockIndex' = mapBlockIndex \cup {b}
    /\ setBlockIndexValid' = setBlockIndexValid \cup {b}
    /\ pblock' = b
    /\ pc' = "connect"
    /\ UNCHANGED <<verdict, failedValid, failedChild, nBestInvalidWork, chain,
                   mapOrphanBlocks, vAttach, vWorkQueue, fSystemError>>

(* ProcessBlock(b) with the parent known. *)
ProcessBlock(b) ==
    /\ pc = "idle"
    /\ b \notin mapOrphanBlocks
    /\ AddToBlockIndex(b)

(* Mutant of Return: an accepted orphan's own orphans are not tried. *)
ReturnShallow(ok) ==
    /\ vAttach' = {}
    /\ pblock' = NoBlock
    /\ \/ /\ pblock = NoBlock
          /\ pc' = IF ok THEN "idle" ELSE "down"
          /\ UNCHANGED <<vWorkQueue, mapOrphanBlocks>>
       \/ /\ pblock # NoBlock /\ vWorkQueue = << >>
          /\ pc' = IF ok THEN "resolve" ELSE "idle"
          /\ vWorkQueue' = IF ok THEN <<pblock>> ELSE << >>
          /\ UNCHANGED mapOrphanBlocks
       \/ /\ pblock # NoBlock /\ vWorkQueue # << >>
          /\ pc' = "resolve"
          /\ UNCHANGED vWorkQueue
          /\ mapOrphanBlocks' = mapOrphanBlocks \ {pblock}

(* ConnectBestBlock returned ok, and with it AddToBlockIndex and           *)
(* AcceptBlock: to ProcessBlock, to its loop over the orphans, or, when    *)
(* there is no block, to the start-up code, which gives up if it failed.   *)
Return(ok) ==
    /\ vAttach' = {}
    /\ pblock' = NoBlock
    /\ \/ /\ pblock = NoBlock
          /\ pc' = IF ok THEN "idle" ELSE "down"
          /\ UNCHANGED <<vWorkQueue, mapOrphanBlocks>>
       \/ /\ pblock # NoBlock /\ vWorkQueue = << >>
          /\ pc' = IF ok THEN "resolve" ELSE "idle"
          /\ vWorkQueue' = IF ok THEN <<pblock>> ELSE << >>
          /\ UNCHANGED mapOrphanBlocks
       \/ /\ pblock # NoBlock /\ vWorkQueue # << >>
          /\ pc' = "resolve"
          /\ vWorkQueue' = IF ok THEN Append(vWorkQueue, pblock) ELSE vWorkQueue
          /\ mapOrphanBlocks' = mapOrphanBlocks \ {pblock}

(* AddToBlockIndex could not write the index entry, and aborts. *)
WriteIndexFails ==
    /\ pc = "connect" /\ pblock # NoBlock
    /\ fSystemError' = TRUE
    /\ Return(FALSE)
    /\ UNCHANGED <<verdict, index, chain>>

-----------------------------------------------------------------------------
(* ConnectBestBlock *)

(* setBlockIndexValid.rbegin().  Equal work is ordered by hash, which is   *)
(* arbitrary: any of the blocks with the most work may be the last one.    *)
MostWork(c) ==
    /\ c \in setBlockIndexValid
    /\ \A b \in setBlockIndexValid : ChainWork[b] <= ChainWork[c]

(* The blocks the ancestry check visits when it meets no failed one: from  *)
(* c down to the first that has a pnext, or to the genesis block.          *)
Walk(c) ==
    {a \in Ancestors[c] :
        \A s \in Ancestors[c] : a \in Ancestors[s] /\ pnext[s] # NoBlock => a = s}

(* The first failed block that the check meets. *)
FirstFailed(c, f) ==
    /\ f \in Walk(c) \cap Failed
    /\ \A a \in Walk(c) \cap Failed : a \in Ancestors[f]

(* Mutants of Marked: the blocks below the failed one too; all but the tip. *)
MarkedWalk(c, f)  == Walk(c)
MarkedNoTip(c, f) == Ancestors[c] \ (Ancestors[f] \cup {c})

(* The blocks between the failed one and the candidate, which inherit it. *)
Marked(c, f) == Ancestors[c] \ Ancestors[f]

(* Mutant of ToAttach: blocks with less work than the best are attached. *)
ToAttachAll(c) == {a \in Walk(c) : a # Genesis}

(* What is to be attached: only what has more work than the best block. *)
ToAttach(c) == {a \in Walk(c) : ChainWork[a] > ChainWork[pindexBest]}

(* "nothing to do" *)
NothingToDo ==
    /\ pc = "connect"
    /\ \/ setBlockIndexValid = {}
       \/ \E c \in Blocks : MostWork(c) /\ ChainWork[c] = ChainWork[pindexBest]
    /\ Return(TRUE)
    /\ UNCHANGED <<verdict, index, chain, fSystemError>>

(* Mutant of MarkDescendantsFailed: the other candidates are not tried. *)
MarkAndGiveUp ==
    /\ pc = "connect"
    /\ \E c, f \in Blocks :
          /\ MostWork(c) /\ ChainWork[c] # ChainWork[pindexBest]
          /\ FirstFailed(c, f)
          /\ failedChild' = failedChild \cup Marked(c, f)
          /\ setBlockIndexValid' = setBlockIndexValid \ Marked(c, f)
          /\ InvalidChainFound({c})
    /\ Return(FALSE)
    /\ UNCHANGED <<verdict, mapBlockIndex, failedValid, chain, fSystemError>>

(* "mark descendants failed", and look again *)
MarkDescendantsFailed ==
    /\ pc = "connect"
    /\ \E c, f \in Blocks :
          /\ MostWork(c) /\ ChainWork[c] # ChainWork[pindexBest]
          /\ FirstFailed(c, f)
          /\ failedChild' = failedChild \cup Marked(c, f)
          /\ setBlockIndexValid' = setBlockIndexValid \ Marked(c, f)
          /\ InvalidChainFound({c})
    /\ UNCHANGED <<verdict, mapBlockIndex, failedValid, chain, mapOrphanBlocks, pc,
                   pblock, vAttach, vWorkQueue, fSystemError>>

(* The ancestry holds no failed block: the list of what to attach is made. *)
PlanAttach ==
    /\ pc = "connect"
    /\ \E c \in Blocks :
          /\ MostWork(c) /\ ChainWork[c] # ChainWork[pindexBest]
          /\ Walk(c) \cap Failed = {}
          /\ vAttach' = ToAttach(c)
    /\ pc' = "attach"
    /\ UNCHANGED <<verdict, index, chain, mapOrphanBlocks, pblock, vWorkQueue,
                   fSystemError>>

-----------------------------------------------------------------------------
(* SetBestChain(x), one turn of the loop over vAttach *)

(* vAttach is attached in the order of the chain. *)
NextToAttach(x) ==
    /\ pc = "attach"
    /\ x \in vAttach
    /\ \A a \in vAttach : ChainWork[x] <= ChainWork[a]

vDisconnect(x) == Ancestors[coinsTip] \ Ancestors[x]
vConnect(x)    == Ancestors[x] \ Ancestors[coinsTip]

(* Mutant of Refused: the blocks between the fork and x are not validated. *)
RefusedTip(x) == {x} \cap Invalid

(* The blocks to connect that ConnectBlock would refuse. *)
Refused(x) == vConnect(x) \cap Invalid

(* ConnectBlock refuses p, the first invalid block of vConnect.  The call  *)
(* "reorganise away from the failed block" is left out: it needs a block   *)
(* with a pnext, and no invalid block has one (BlockChainProofs!DeadCall). *)
InvalidBlockFound(x, p) ==
    /\ NextToAttach(x)
    /\ p \in Refused(x)
    /\ \A a \in Refused(x) : p \in Ancestors[a]
    /\ failedValid' = failedValid \cup {p}
    /\ setBlockIndexValid' = setBlockIndexValid \ {p}
    /\ InvalidChainFound({x, p})
    /\ Return(FALSE)
    /\ UNCHANGED <<verdict, mapBlockIndex, failedChild, chain, fSystemError>>

(* Mutant of Relinked: the disconnected branch keeps its pointers. *)
RelinkedOnly(x) ==
    [b \in Blocks |->
        IF \E c \in vConnect(x) \ {Genesis} : Prev[c] = b
        THEN CHOOSE c \in vConnect(x) \ {Genesis} : Prev[c] = b
        ELSE pnext[b]]

(* The pnext pointers once vDisconnect and then vConnect are gone through. *)
Relinked(x) ==
    [b \in Blocks |->
        IF \E c \in vConnect(x) \ {Genesis} : Prev[c] = b
        THEN CHOOSE c \in vConnect(x) \ {Genesis} : Prev[c] = b
        ELSE IF \E d \in vDisconnect(x) \ {Genesis} : Prev[d] = b
        THEN NoBlock ELSE pnext[b]]

SetBestChain(x) ==
    /\ NextToAttach(x)
    /\ Refused(x) = {}
    /\ coinsTip' = x
    /\ pnext' = Relinked(x)
    /\ pindexBest' = x
    /\ IF vAttach = {x}
       THEN Return(TRUE)
       ELSE /\ vAttach' = vAttach \ {x}
            /\ UNCHANGED <<pc, pblock, vWorkQueue, mapOrphanBlocks>>
    /\ UNCHANGED <<verdict, index, fSystemError>>

(* A block or its undo data cannot be read or written.  Nothing is changed *)
(* here; the node is asked to shut down, except by DisconnectBlock.        *)
AttachFails(x) ==
    /\ NextToAttach(x)
    /\ fSystemError' = TRUE
    /\ Return(FALSE)
    /\ UNCHANGED <<verdict, index, chain>>

(* The coins of the new chain are in pcoinsTip, and then there is no disk  *)
(* space to write them, or the write fails: the rest is left undone.       *)
FlushFails(x) ==
    /\ NextToAttach(x)
    /\ Refused(x) = {}
    /\ coinsTip' = x
    /\ fSystemError' = TRUE
    /\ Return(FALSE)
    /\ UNCHANGED <<verdict, index, pindexBest, pnext>>

-----------------------------------------------------------------------------
(* ProcessBlock's loop over the orphans of what was accepted *)

Waiting == {o \in mapOrphanBlocks : Prev[o] = Head(vWorkQueue)}

(* An orphan is accepted: it goes through the steps above, then Return. *)
AcceptOrphan(o) ==
    /\ pc = "resolve" /\ vWorkQueue # << >>
    /\ o \in Waiting
    /\ AddToBlockIndex(o)

(* AcceptBlock cannot store b, from a peer or from the orphans. *)
WriteBlockFails(b) ==
    /\ \/ pc = "idle" /\ b \notin mapOrphanBlocks
       \/ pc = "resolve" /\ vWorkQueue # << >> /\ b \in Waiting
    /\ b \notin mapBlockIndex /\ Prev[b] \in mapBlockIndex
    /\ verdict[b] # "reject"
    /\ mapOrphanBlocks' = mapOrphanBlocks \ {b}
    /\ fSystemError' = TRUE
    /\ UNCHANGED <<verdict, index, chain, pc, pblock, vAttach, vWorkQueue>>

(* An orphan is refused: it is dropped. *)
RejectOrphan(o) ==
    /\ pc = "resolve" /\ vWorkQueue # << >>
    /\ o \in Waiting
    /\ ~(verdict[o] # "reject" /\ o \notin mapBlockIndex)
    /\ mapOrphanBlocks' = mapOrphanBlocks \ {o}
    /\ UNCHANGED <<verdict, index, chain, pc, pblock, vAttach, vWorkQueue,
                   fSystemError>>

(* Mutant of NextInQueue: the loop runs past the end of the queue. *)
NextInQueueOffByOne ==
    /\ pc = "resolve" /\ vWorkQueue # << >>
    /\ Waiting = {}
    /\ vWorkQueue' = Tail(vWorkQueue)
    /\ pc' = IF vWorkQueue = << >> THEN "idle" ELSE "resolve"
    /\ UNCHANGED <<verdict, index, chain, mapOrphanBlocks, pblock, vAttach,
                   fSystemError>>

(* The next accepted block, or the end of ProcessBlock. *)
NextInQueue ==
    /\ pc = "resolve" /\ vWorkQueue # << >>
    /\ Waiting = {}
    /\ vWorkQueue' = Tail(vWorkQueue)
    /\ pc' = IF Tail(vWorkQueue) = << >> THEN "idle" ELSE "resolve"
    /\ UNCHANGED <<verdict, index, chain, mapOrphanBlocks, pblock, vAttach,
                   fSystemError>>

-----------------------------------------------------------------------------
Receive == \E b \in Blocks \ {Genesis} : ShuntOrphan(b) \/ ProcessBlock(b)

ConnectBestBlock == NothingToDo \/ MarkDescendantsFailed \/ PlanAttach

Attach ==
    \E x \in Blocks : \/ SetBestChain(x)
                      \/ \E p \in Blocks : InvalidBlockFound(x, p)

ResolveOrphans ==
    \/ \E o \in Blocks \ {Genesis} : AcceptOrphan(o) \/ RejectOrphan(o)
    \/ NextInQueue

SystemError ==
    \/ WriteIndexFails
    \/ \E b \in Blocks \ {Genesis} : WriteBlockFails(b)
    \/ \E x \in Blocks : AttachFails(x) \/ FlushFails(x)

Step == ConnectBestBlock \/ Attach \/ ResolveOrphans

Next == Receive \/ Step \/ SystemError

Spec == Init /\ [][Next]_vars

(* The thread that holds cs_main runs on; nothing makes a peer send. *)
LiveSpec == Spec /\ WF_vars(Step)

-----------------------------------------------------------------------------
TypeOK ==
    /\ verdict \in [Blocks -> Verdicts]
    /\ mapBlockIndex \subseteq Blocks
    /\ failedValid \subseteq Blocks /\ failedChild \subseteq Blocks
    /\ setBlockIndexValid \subseteq Blocks
    /\ pindexBest \in Blocks /\ coinsTip \in Blocks
    /\ pnext \in [Blocks -> Blocks \cup {NoBlock}]
    /\ nBestInvalidWork \in Nat
    /\ mapOrphanBlocks \subseteq Blocks \ {Genesis}
    /\ pc \in {"idle", "connect", "attach", "resolve", "down"}
    /\ pblock \in (Blocks \ {Genesis}) \cup {NoBlock}
    /\ vAttach \subseteq Blocks
    /\ vWorkQueue \in Seq(Blocks)
    /\ pc = "resolve" => vWorkQueue # << >>
    /\ pc = "attach" => vAttach # {}
    /\ pc \in {"idle", "resolve", "down"} => pblock = NoBlock /\ vAttach = {}
    /\ fSystemError \in BOOLEAN

(* When no call is in progress and no system error occurred, no block in   *)
(* the index whose whole chain is valid has more work than pindexBest:     *)
(* ConnectBestBlock may stop at its first failure without missing one.     *)
BestHasMostWork ==
    pc = "idle" /\ ~fSystemError =>
        \A b \in mapBlockIndex :
            ValidChain(b) => ChainWork[b] <= ChainWork[pindexBest]

(* No block that ConnectBlock would refuse is ever part of the best chain, *)
(* nor of the chain whose coins pcoinsTip holds, system errors or not.     *)
BestChainIsValid == ValidChain(pindexBest) /\ ValidChain(coinsTip)

(* BLOCK_FAILED_MASK is never set on a block whose chain is valid: marking *)
(* the descendants of a failed block condemns no other block.              *)
OnlyInvalidMarkedFailed == \A b \in Failed : ~ValidChain(b)

(* pnext leads along the best chain, and from no other block. *)
LinkedToBest ==
    /\ \A c \in Ancestors[pindexBest] \ {Genesis} : pnext[Prev[c]] = c
    /\ \A b \in Blocks : pnext[b] # NoBlock =>
          pnext[b] \in Ancestors[pindexBest] \ {Genesis} /\ Prev[pnext[b]] = b

(* The pnext pointers, which IsInMainChain and ConnectBestBlock rely on,   *)
(* link exactly the best chain at every step, unless an error occurred.    *)
PnextLinksUnlessError == ~fSystemError => LinkedToBest

(* CBlockIndex: "pnext will only point forward to the longest branch, or   *)
(* will be null if the block is not part of the longest chain", also when  *)
(* a read or a write has failed.                                           *)
PnextLinksBestChain == pc = "idle" => LinkedToBest

(* When no call is in progress, an orphan whose parent is in the index has *)
(* an invalid block among its ancestors: the loop of ProcessBlock leaves   *)
(* no block behind that could be connected.                                *)
OrphansResolved ==
    pc = "idle" /\ ~fSystemError =>
        \A o \in mapOrphanBlocks :
            Prev[o] \in mapBlockIndex => ~ValidChain(Prev[o])

(* A block is held as an orphan "until we get" its parent (ProcessBlock).  *)
OrphansLackParent ==
    pc = "idle" /\ ~fSystemError =>
        \A o \in mapOrphanBlocks : Prev[o] \notin mapBlockIndex

(* The best chain is only ever replaced by one with strictly more work.    *)
WorkIncreases ==
    [][pindexBest' # pindexBest => ChainWork[pindexBest] < ChainWork[pindexBest']]_vars

(* ProcessBlock returns: its nested "while(true)" loops and its work queue *)
(* come to an end, whatever was received and found invalid.                *)
ProcessBlockReturns == []<>(pc = "idle")
=============================================================================
