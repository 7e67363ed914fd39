-------------------------- MODULE BlockChainProofs --------------------------
(***************************************************************************)
(* Proofs about BlockChain, for every block tree and every choice of       *)
(* invalid blocks.                                                         *)
(***************************************************************************)
EXTENDS BlockChain, TLAPS

-----------------------------------------------------------------------------
(* The inductive invariant *)

(* The index is closed under pprev; the candidates are its unfailed blocks. *)
IndexInv ==
    /\ Genesis \in mapBlockIndex
    /\ \A b \in mapBlockIndex : Ancestors[b] \subseteq mapBlockIndex
    /\ Failed \subseteq mapBlockIndex
    /\ setBlockIndexValid = mapBlockIndex \ Failed
    /\ pindexBest \in mapBlockIndex /\ coinsTip \in mapBlockIndex

ValidInv == BestChainIsValid /\ OnlyInvalidMarkedFailed

LinkInv == ~fSystemError => coinsTip = pindexBest /\ LinkedToBest

(* Even after an error, pnext leads from blocks of valid chains only. *)
NoInvalidNext == \A b \in Blocks : pnext[b] # NoBlock => ValidChain(b)

(* A call in progress works on a block of the index, and attaches part of  *)
(* one chain, above the best block.                                        *)
CallInv ==
    /\ pc # "down"
    /\ pc \in {"connect", "attach"} => pblock \in mapBlockIndex
    /\ pc = "idle" => vWorkQueue = << >>
    /\ \E t \in mapBlockIndex : vAttach \subseteq Ancestors[t]
    /\ \A x \in vAttach : ChainWork[pindexBest] < ChainWork[x]

(* A block with more work than the best one is known to descend from a     *)
(* failed one; only the block being accepted may be an exception.          *)
KnownBad(b) == Ancestors[b] \cap Failed # {}

WorkInv ==
    ~fSystemError =>
        /\ \A b \in mapBlockIndex :
              ChainWork[pindexBest] < ChainWork[b] =>
                  KnownBad(b) \/ (pc \in {"connect", "attach"} /\ b = pblock)
        /\ pc = "attach" =>
              vAttach = {a \in Ancestors[pblock] : ChainWork[pindexBest] < ChainWork[a]}

(* An orphan whose parent is in the index will be tried, or is hopeless. *)
InQueue(b, q) == \E i \in 1..Len(q) : q[i] = b
Queued(b) == InQueue(b, vWorkQueue)

OrphanInv ==
    ~fSystemError =>
        \A o \in mapOrphanBlocks :
            Prev[o] \in mapBlockIndex =>
                ~ValidChain(Prev[o]) \/ Queued(Prev[o]) \/ Prev[o] = pblock

IInv ==
    /\ TypeOK /\ IndexInv /\ ValidInv /\ LinkInv /\ NoInvalidNext
    /\ CallInv /\ WorkInv /\ OrphanInv

-----------------------------------------------------------------------------
(* Facts about the tree *)

(* pprev is followed from the block itself, and never to more work. *)
LEMMA AncestorFacts ==
    ASSUME NEW b \in Blocks
    PROVE  /\ b \in Ancestors[b]
           /\ Ancestors[b] \subseteq Blocks
           /\ \A a \in Ancestors[b] :
                 Ancestors[a] \subseteq Ancestors[b] /\ ChainWork[a] <= ChainWork[b]
<1>1. b \in Ancestors[b]
    <2>1. CASE b = Genesis
        BY <2>1, AncestorsAssumption
    <2>2. CASE b # Genesis
        BY <2>2, AncestorsAssumption
    <2> QED BY <2>1, <2>2
<1>2. Ancestors[b] \subseteq Blocks
    BY AncestorsAssumption
<1>3. ASSUME NEW a \in Ancestors[b]
      PROVE  Ancestors[a] \subseteq Ancestors[b] /\ ChainWork[a] <= ChainWork[b]
    BY <1>2, AncestorsAssumption, WorkAssumption
<1> QED BY <1>1, <1>2, <1>3

(* Two blocks of one chain with the same parent are the same block, so     *)
(* that the child that Relinked chooses is the only one.                   *)
LEMMA ChildUnique ==
    ASSUME NEW x \in Blocks, NEW c \in Ancestors[x] \ {Genesis},
           NEW d \in Ancestors[x] \ {Genesis}, Prev[c] = Prev[d]
    PROVE  c = d
<1>1. c \in Blocks /\ d \in Blocks
    BY AncestorFacts
<1>2. c \in Ancestors[d] \/ d \in Ancestors[c]
    BY AncestorsAssumption
<1>3. /\ c \notin Ancestors[Prev[c]] /\ Ancestors[c] = Ancestors[Prev[c]] \cup {c}
      /\ d \notin Ancestors[Prev[d]] /\ Ancestors[d] = Ancestors[Prev[d]] \cup {d}
    BY <1>1, AncestorsAssumption
<1> QED BY <1>2, <1>3

(* Where the walk of ConnectBestBlock stops short, the best chain begins. *)
LEMMA BelowWalk ==
    ASSUME TypeOK, LinkedToBest, NEW c \in Blocks, NEW a \in Ancestors[c] \ Walk(c)
    PROVE  a \in Ancestors[pindexBest]
<1>1. PICK s \in Ancestors[c] : a \in Ancestors[s] /\ pnext[s] # NoBlock
    BY DEF Walk
<1>2. s \in Blocks /\ pindexBest \in Blocks
    BY AncestorFacts DEF TypeOK
<1>3. PICK n \in Ancestors[pindexBest] \ {Genesis} : Prev[n] = s
    BY <1>1, <1>2 DEF LinkedToBest
<1>4. n \in Blocks /\ s \in Ancestors[n]
    BY <1>2, <1>3, AncestorFacts, AncestorsAssumption
<1> QED BY <1>1, <1>2, <1>3, <1>4, AncestorFacts

-----------------------------------------------------------------------------
(* Init *)

LEMMA InitIInv == Init => IInv
<1> SUFFICES ASSUME Init PROVE IInv
    OBVIOUS
<1> USE DEF Init
<1>1. Genesis \in Blocks /\ Ancestors[Genesis] = {Genesis}
    BY BlocksAssumption, AncestorsAssumption
<1>2. TypeOK
    <2>1. pnext \in [Blocks -> Blocks \cup {NoBlock}]
        OBVIOUS
    <2>2. vWorkQueue \in Seq(Blocks)
        OBVIOUS
    <2> QED BY <1>1, <2>1, <2>2 DEF TypeOK
<1>3. IndexInv
    BY <1>1 DEF IndexInv, Failed
<1>4. ValidInv
    BY <1>1 DEF ValidInv, BestChainIsValid, OnlyInvalidMarkedFailed, ValidChain,
                Invalid, Failed
<1>5. LinkInv /\ NoInvalidNext
    BY <1>1 DEF LinkInv, LinkedToBest, NoInvalidNext
<1>6. CallInv
    BY <1>1 DEF CallInv
<1>7. WorkInv
    BY <1>1, WorkAssumption DEF WorkInv
<1>8. OrphanInv
    BY DEF OrphanInv
<1> QED BY <1>2, <1>3, <1>4, <1>5, <1>6, <1>7, <1>8 DEF IInv

-----------------------------------------------------------------------------
(* Return *)

(* Return leaves the call, keeps what is queued, and queues pblock when    *)
(* all went well.                                                          *)
LEMMA ReturnFacts ==
    ASSUME TypeOK, NEW ok \in BOOLEAN, Return(ok), pblock # NoBlock
    PROVE  /\ vAttach' = {} /\ pblock' = NoBlock
           /\ pc' \in {"idle", "resolve"}
           /\ mapOrphanBlocks' \subseteq mapOrphanBlocks
           /\ vWorkQueue' \in Seq(Blocks)
           /\ pc' = "idle" <=> vWorkQueue' = << >>
           /\ \A b : InQueue(b, vWorkQueue) => InQueue(b, vWorkQueue')
           /\ ok => InQueue(pblock, vWorkQueue')
<1>1. pblock \in Blocks /\ vWorkQueue \in Seq(Blocks)
    BY DEF TypeOK
<1>2. CASE vWorkQueue = << >>
    <2>1. /\ vAttach' = {} /\ pblock' = NoBlock
          /\ pc' = IF ok THEN "resolve" ELSE "idle"
          /\ mapOrphanBlocks' = mapOrphanBlocks
          /\ vWorkQueue' = IF ok THEN <<pblock>> ELSE << >>
        BY <1>2 DEF Return
    <2>2. CASE ok
        <3>1. vWorkQueue' = <<pblock>> /\ pc' = "resolve"
            BY <2>1, <2>2
        <3>2. InQueue(pblock, vWorkQueue')
            BY <3>1 DEF InQueue
        <3>3. vWorkQueue' # << >> /\ vWorkQueue' \in Seq(Blocks)
            BY <1>1, <3>1
        <3> QED BY <1>2, <2>1, <3>1, <3>2, <3>3 DEF InQueue
    <2>3. CASE ~ok
        BY <1>2, <2>1, <2>3
    <2> QED BY <2>2, <2>3
<1>3. CASE vWorkQueue # << >>
    <2>1. /\ vAttach' = {} /\ pblock' = NoBlock /\ pc' = "resolve"
          /\ mapOrphanBlocks' \subseteq mapOrphanBlocks
          /\ vWorkQueue' = IF ok THEN Append(vWorkQueue, pblock) ELSE vWorkQueue
        BY <1>3 DEF Return
    <2>2. CASE ok
        <3>1. vWorkQueue' = Append(vWorkQueue, pblock)
            BY <2>1, <2>2
        <3> QED BY <1>1, <2>1, <3>1 DEF InQueue
    <2>3. CASE ~ok
        BY <1>1, <1>3, <2>1, <2>3
    <2> QED BY <2>2, <2>3
<1> QED BY <1>2, <1>3

(* After a system error only the parts that outlive it have to be shown. *)
LEMMA ErrorIInv ==
    ASSUME fSystemError'
    PROVE  LinkInv' /\ WorkInv' /\ OrphanInv'
BY DEF LinkInv, WorkInv, OrphanInv

-----------------------------------------------------------------------------
(* Receiving blocks *)

LEMMA ShuntOrphanIInv ==
    ASSUME IInv, NEW b \in Blocks \ {Genesis}, ShuntOrphan(b)
    PROVE  IInv'
<1> USE DEF IInv, ShuntOrphan, index, chain
<1>1. TypeOK'
    BY DEF TypeOK
<1>2. IndexInv'
    BY DEF IndexInv, Failed
<1>3. ValidInv'
    BY DEF ValidInv, BestChainIsValid, OnlyInvalidMarkedFailed, ValidChain, Invalid, Failed
<1>4. LinkInv'
    BY DEF LinkInv, LinkedToBest
<1>5. CallInv'
    BY DEF CallInv
<1>6. WorkInv'
    BY DEF WorkInv, KnownBad, Failed
<1>7. OrphanInv'
    BY DEF OrphanInv, Queued, InQueue, ValidChain, Invalid
<1>n. NoInvalidNext'
    BY DEF NoInvalidNext, ValidChain, Invalid
<1> QED BY <1>1, <1>2, <1>3, <1>4, <1>n, <1>5, <1>6, <1>7 DEF IInv

(* AddToBlockIndex: the new block is the only candidate not yet looked at. *)
LEMMA AddToBlockIndexIInv ==
    ASSUME IInv, NEW b \in Blocks \ {Genesis}, AddToBlockIndex(b),
           pc \in {"idle", "resolve"}
    PROVE  IInv'
<1> USE DEF IInv, AddToBlockIndex, index, chain
<1>0. Ancestors[b] = Ancestors[Prev[b]] \cup {b}
    BY AncestorsAssumption
<1>1. TypeOK'
    BY DEF TypeOK
<1>2. IndexInv'
    BY <1>0 DEF IndexInv, Failed
<1>3. ValidInv'
    BY DEF ValidInv, BestChainIsValid, OnlyInvalidMarkedFailed, ValidChain, Invalid, Failed
<1>4. LinkInv'
    BY DEF LinkInv, LinkedToBest
<1>5. CallInv'
    BY DEF CallInv
<1>6. WorkInv'
    BY DEF WorkInv, KnownBad, Failed
<1>7. OrphanInv'
    <2> SUFFICES ASSUME ~fSystemError, NEW o \in mapOrphanBlocks,
                        Prev[o] \in mapBlockIndex, Prev[o] # b
                 PROVE  ~ValidChain(Prev[o])' \/ Queued(Prev[o])'
        BY DEF OrphanInv
    <2>1. pblock = NoBlock /\ Prev[o] # NoBlock
        BY BlocksAssumption DEF TypeOK
    <2> QED BY <2>1 DEF OrphanInv, Queued, ValidChain, Invalid
<1>n. NoInvalidNext'
    BY DEF NoInvalidNext, ValidChain, Invalid
<1> QED BY <1>1, <1>2, <1>3, <1>4, <1>n, <1>5, <1>6, <1>7 DEF IInv

(* AcceptBlock gives up before the block is in the index. *)
LEMMA WriteBlockFailsIInv ==
    ASSUME IInv, NEW b \in Blocks \ {Genesis}, WriteBlockFails(b)
    PROVE  IInv'
<1> USE DEF IInv, WriteBlockFails, index, chain
<1>1. TypeOK'
    BY DEF TypeOK
<1>2. IndexInv'
    BY DEF IndexInv, Failed
<1>3. ValidInv'
    BY DEF ValidInv, BestChainIsValid, OnlyInvalidMarkedFailed, ValidChain, Invalid, Failed
<1>4. CallInv'
    BY DEF CallInv
<1>n. NoInvalidNext'
    BY DEF NoInvalidNext, ValidChain, Invalid
<1> QED BY <1>1, <1>2, <1>3, <1>4, <1>n, ErrorIInv DEF IInv

(* AddToBlockIndex gives up: the block stays in the index, unexplored. *)
LEMMA WriteIndexFailsIInv ==
    ASSUME IInv, WriteIndexFails
    PROVE  IInv'
<1> USE DEF IInv, WriteIndexFails, index, chain
<1>0. /\ vAttach' = {} /\ pblock' = NoBlock /\ pc' \in {"idle", "resolve"}
      /\ mapOrphanBlocks' \subseteq mapOrphanBlocks
      /\ vWorkQueue' \in Seq(Blocks)
      /\ pc' = "idle" <=> vWorkQueue' = << >>
    BY ReturnFacts
<1>1. TypeOK'
    BY <1>0 DEF TypeOK
<1>2. IndexInv'
    BY DEF IndexInv, Failed
<1>3. ValidInv'
    BY DEF ValidInv, BestChainIsValid, OnlyInvalidMarkedFailed, ValidChain, Invalid, Failed
<1>4. CallInv'
    BY <1>0 DEF CallInv, IndexInv
<1>n. NoInvalidNext'
    BY DEF NoInvalidNext, ValidChain, Invalid
<1> QED BY <1>1, <1>2, <1>3, <1>4, <1>n, ErrorIInv DEF IInv

-----------------------------------------------------------------------------
(* ConnectBestBlock *)

(* The best block is a candidate itself, so that the candidate with the    *)
(* most work has at least as much.                                         *)
LEMMA MostWorkFacts ==
    ASSUME TypeOK, IndexInv, ValidInv, NEW c \in Blocks, MostWork(c)
    PROVE  /\ c \in mapBlockIndex
           /\ pindexBest \in setBlockIndexValid
           /\ ChainWork[pindexBest] <= ChainWork[c]
<1>1. pindexBest \notin Failed
    BY DEF ValidInv, BestChainIsValid, OnlyInvalidMarkedFailed
<1>2. pindexBest \in setBlockIndexValid
    BY <1>1 DEF IndexInv
<1> QED BY <1>2 DEF MostWork, IndexInv

LEMMA NothingToDoIInv ==
    ASSUME IInv, NothingToDo
    PROVE  IInv'
<1> USE DEF IInv, NothingToDo, index, chain
<1>p. pblock \in mapBlockIndex /\ pblock \in Blocks /\ pblock # NoBlock
    BY BlocksAssumption DEF CallInv, TypeOK
<1>0. /\ vAttach' = {} /\ pblock' = NoBlock /\ pc' \in {"idle", "resolve"}
      /\ mapOrphanBlocks' \subseteq mapOrphanBlocks
      /\ vWorkQueue' \in Seq(Blocks)
      /\ pc' = "idle" <=> vWorkQueue' = << >>
      /\ \A b : InQueue(b, vWorkQueue) => InQueue(b, vWorkQueue')
      /\ InQueue(pblock, vWorkQueue')
    BY <1>p, ReturnFacts
<1>1. TypeOK'
    BY <1>0 DEF TypeOK
<1>2. IndexInv'
    BY DEF IndexInv, Failed
<1>3. ValidInv'
    BY DEF ValidInv, BestChainIsValid, OnlyInvalidMarkedFailed, ValidChain, Invalid, Failed
<1>4. LinkInv'
    BY DEF LinkInv, LinkedToBest
<1>5. CallInv'
    BY <1>0 DEF CallInv, IndexInv
<1>6. WorkInv'
    <2>1. ChainWork[pindexBest] < ChainWork[pblock] => KnownBad(pblock)
        <3> SUFFICES ASSUME ChainWork[pindexBest] < ChainWork[pblock], ~KnownBad(pblock)
                     PROVE  FALSE
            OBVIOUS
        <3>1. pblock \in setBlockIndexValid
            BY <1>p, AncestorFacts DEF KnownBad, IndexInv
        <3>2. PICK c \in Blocks : MostWork(c) /\ ChainWork[c] = ChainWork[pindexBest]
            BY <3>1
        <3>3. ChainWork[pblock] <= ChainWork[pindexBest]
            BY <3>1, <3>2 DEF MostWork
        <3> QED BY <1>p, <3>3, WorkAssumption DEF TypeOK
    <2> QED BY <1>0, <2>1 DEF WorkInv, KnownBad, Failed
<1>7. OrphanInv'
    BY <1>0 DEF OrphanInv, Queued, ValidChain, Invalid
<1>n. NoInvalidNext'
    BY DEF NoInvalidNext, ValidChain, Invalid
<1> QED BY <1>1, <1>2, <1>3, <1>4, <1>n, <1>5, <1>6, <1>7 DEF IInv

(* What is marked descends from the failed block that the walk met. *)
LEMMA MarkDescendantsFailedIInv ==
    ASSUME IInv, MarkDescendantsFailed
    PROVE  IInv'
<1> USE DEF IInv, MarkDescendantsFailed, chain
<1>p. PICK c \in Blocks, f \in Blocks :
          /\ MostWork(c) /\ FirstFailed(c, f)
          /\ failedChild' = failedChild \cup Marked(c, f)
          /\ setBlockIndexValid' = setBlockIndexValid \ Marked(c, f)
          /\ InvalidChainFound({c})
    OBVIOUS
<1>0. /\ c \in mapBlockIndex /\ f \in Ancestors[c] /\ f \in Failed
      /\ Marked(c, f) \subseteq mapBlockIndex /\ Marked(c, f) \subseteq Blocks
      /\ Failed' = Failed \cup Marked(c, f)
    BY <1>p, MostWorkFacts, AncestorFacts
    DEF FirstFailed, Walk, Marked, IndexInv, Failed, TypeOK
<1>1. TypeOK'
    <2>1. nBestInvalidWork' \in Nat
        BY <1>p, WorkAssumption DEF InvalidChainFound, TypeOK
    <2> QED BY <1>0, <1>p, <2>1 DEF TypeOK
<1>2. IndexInv'
    BY <1>0, <1>p DEF IndexInv
<1>3. ValidInv'
    <2>1. ASSUME NEW b \in Marked(c, f)
          PROVE  ~ValidChain(b)
        <3>1. f \in Ancestors[b]
            BY <1>0, AncestorsAssumption DEF Marked
        <3>2. Ancestors[f] \subseteq Ancestors[b]
            BY <1>0, <3>1, AncestorFacts
        <3> QED BY <1>0, <3>2 DEF ValidInv, OnlyInvalidMarkedFailed, ValidChain
    <2> QED BY <1>0, <2>1
            DEF ValidInv, BestChainIsValid, OnlyInvalidMarkedFailed, ValidChain, Invalid
<1>4. LinkInv'
    BY DEF LinkInv, LinkedToBest
<1>5. CallInv'
    BY DEF CallInv
<1>6. WorkInv'
    BY <1>0 DEF WorkInv, KnownBad
<1>7. OrphanInv'
    BY DEF OrphanInv, Queued, ValidChain, Invalid
<1>n. NoInvalidNext'
    BY DEF NoInvalidNext, ValidChain, Invalid
<1> QED BY <1>1, <1>2, <1>3, <1>4, <1>n, <1>5, <1>6, <1>7 DEF IInv

(* Only the block being accepted can be the candidate, and the list is all *)
(* of its chain that has more work than the best block.                    *)
LEMMA PlanAttachIInv ==
    ASSUME IInv, PlanAttach
    PROVE  IInv'
<1> USE DEF IInv, PlanAttach, index, chain
<1>p. PICK c \in Blocks :
          /\ MostWork(c) /\ ChainWork[c] # ChainWork[pindexBest]
          /\ Walk(c) \cap Failed = {}
          /\ vAttach' = ToAttach(c)
    OBVIOUS
<1>w. \A x \in Blocks : ChainWork[x] \in Nat
    BY WorkAssumption
<1>0. /\ c \in mapBlockIndex /\ ChainWork[pindexBest] < ChainWork[c]
      /\ vAttach' \subseteq Ancestors[c] /\ vAttach' \subseteq Blocks
      /\ \A x \in vAttach' : ChainWork[pindexBest] < ChainWork[x]
    BY <1>p, <1>w, MostWorkFacts, AncestorFacts DEF ToAttach, Walk, TypeOK
<1>f. ASSUME ~fSystemError, NEW a \in Ancestors[c],
             ChainWork[pindexBest] < ChainWork[a]
      PROVE  a \in Walk(c)
    BY <1>f, <1>w, BelowWalk, AncestorFacts DEF LinkInv, TypeOK
<1>1. TypeOK'
    <2>1. vAttach' # {}
        <3>1. c \in Walk(c)
            <4>1. ASSUME NEW s \in Ancestors[c], c \in Ancestors[s] PROVE c = s
                BY <4>1, <1>w, AncestorFacts, WorkAssumption
            <4> QED BY <4>1, AncestorFacts DEF Walk
        <3> QED BY <1>0, <1>p, <3>1 DEF ToAttach
    <2> QED BY <1>0, <2>1 DEF TypeOK
<1>2. IndexInv'
    BY DEF IndexInv, Failed
<1>3. ValidInv'
    BY DEF ValidInv, BestChainIsValid, OnlyInvalidMarkedFailed, ValidChain, Invalid, Failed
<1>4. LinkInv'
    BY DEF LinkInv, LinkedToBest
<1>5. CallInv'
    BY <1>0 DEF CallInv
<1>6. WorkInv'
    <2> SUFFICES ASSUME ~fSystemError
                 PROVE  vAttach' = {a \in Ancestors[pblock] :
                                      ChainWork[pindexBest] < ChainWork[a]}
        BY DEF WorkInv, KnownBad, Failed
    <2>1. c = pblock
        <3> SUFFICES ASSUME KnownBad(c) PROVE FALSE
            BY <1>0 DEF WorkInv
        <3>1. PICK a \in Ancestors[c] : a \in Failed
            BY DEF KnownBad
        <3>2. a \notin Ancestors[pindexBest]
            BY <3>1, AncestorFacts
            DEF ValidInv, BestChainIsValid, OnlyInvalidMarkedFailed, ValidChain, TypeOK
        <3>3. a \in Walk(c)
            BY <3>1, <3>2, BelowWalk DEF LinkInv
        <3> QED BY <1>p, <3>1, <3>3
    <2> QED BY <1>0, <1>f, <1>p, <2>1 DEF ToAttach
<1>7. OrphanInv'
    BY DEF OrphanInv, Queued, ValidChain, Invalid
<1>n. NoInvalidNext'
    BY DEF NoInvalidNext, ValidChain, Invalid
<1> QED BY <1>1, <1>2, <1>3, <1>4, <1>n, <1>5, <1>6, <1>7 DEF IInv

-----------------------------------------------------------------------------
(* SetBestChain *)

(* x, the next block to attach, belongs to the index, and so do its        *)
(* ancestors; without an error, its chain is that of the block accepted.   *)
LEMMA NextToAttachFacts ==
    ASSUME IInv, NEW x \in Blocks, NextToAttach(x)
    PROVE  /\ pblock \in mapBlockIndex /\ pblock \in Blocks /\ pblock # NoBlock
           /\ x \in mapBlockIndex /\ Ancestors[x] \subseteq mapBlockIndex
           /\ ChainWork[pindexBest] < ChainWork[x]
           /\ \A y \in vAttach : y # x => ChainWork[x] < ChainWork[y]
           /\ ~fSystemError =>
                 x \in Ancestors[pblock] /\ Ancestors[x] \subseteq Ancestors[pblock]
<1> USE DEF IInv, NextToAttach
<1>1. pblock \in mapBlockIndex /\ pblock \in Blocks /\ pblock # NoBlock
    BY BlocksAssumption DEF CallInv, TypeOK
<1>2. PICK t \in mapBlockIndex : vAttach \subseteq Ancestors[t]
    BY DEF CallInv
<1>3. x \in mapBlockIndex /\ Ancestors[x] \subseteq mapBlockIndex
    BY <1>2 DEF IndexInv
<1>4. ChainWork[pindexBest] < ChainWork[x]
    BY DEF CallInv
<1>5. ASSUME NEW y \in vAttach, y # x PROVE ChainWork[x] < ChainWork[y]
    <2>1. t \in Blocks /\ y \in Blocks /\ y \in Ancestors[t] /\ x \in Ancestors[t]
        BY <1>2 DEF TypeOK
    <2>2. x \in Ancestors[y] \/ y \in Ancestors[x]
        BY <2>1, AncestorsAssumption
    <2>3. ChainWork[x] # ChainWork[y]
        BY <1>5, <2>1, <2>2, WorkAssumption
    <2> QED BY <2>1, <2>3, WorkAssumption
<1>6. ~fSystemError =>
          x \in Ancestors[pblock] /\ Ancestors[x] \subseteq Ancestors[pblock]
    BY <1>1, AncestorFacts DEF WorkInv
<1> QED BY <1>1, <1>3, <1>4, <1>5, <1>6

(* The refused block condemns the block that was being accepted. *)
LEMMA InvalidBlockFoundIInv ==
    ASSUME IInv, NEW x \in Blocks, NEW p \in Blocks, InvalidBlockFound(x, p)
    PROVE  IInv'
<1> USE DEF IInv, InvalidBlockFound, chain
<1>p. /\ pblock \in mapBlockIndex /\ pblock # NoBlock
      /\ p \in mapBlockIndex /\ p \in Invalid
      /\ ~fSystemError => p \in Ancestors[pblock]
    BY NextToAttachFacts DEF Refused, vConnect
<1>0. /\ vAttach' = {} /\ pblock' = NoBlock /\ pc' \in {"idle", "resolve"}
      /\ mapOrphanBlocks' \subseteq mapOrphanBlocks
      /\ vWorkQueue' \in Seq(Blocks)
      /\ pc' = "idle" <=> vWorkQueue' = << >>
      /\ \A b : InQueue(b, vWorkQueue) => InQueue(b, vWorkQueue')
    BY <1>p, ReturnFacts
<1>f. Failed' = Failed \cup {p}
    BY DEF Failed
<1>1. TypeOK'
    <2>1. nBestInvalidWork' \in Nat
        BY WorkAssumption DEF InvalidChainFound, TypeOK
    <2> QED BY <1>0, <2>1 DEF TypeOK
<1>2. IndexInv'
    BY <1>f, <1>p DEF IndexInv
<1>3. ValidInv'
    BY <1>f, <1>p, AncestorFacts
    DEF ValidInv, BestChainIsValid, OnlyInvalidMarkedFailed, ValidChain, Invalid
<1>4. LinkInv'
    BY DEF LinkInv, LinkedToBest
<1>5. CallInv'
    BY <1>0 DEF CallInv, IndexInv
<1>6. WorkInv'
    BY <1>0, <1>f, <1>p DEF WorkInv, KnownBad
<1>7. OrphanInv'
    <2>1. ~fSystemError => ~ValidChain(pblock)
        BY <1>p DEF ValidChain
    <2> QED BY <1>0, <2>1 DEF OrphanInv, Queued, ValidChain, Invalid
<1>n. NoInvalidNext'
    BY DEF NoInvalidNext, ValidChain, Invalid
<1> QED BY <1>1, <1>2, <1>3, <1>4, <1>n, <1>5, <1>6, <1>7 DEF IInv

(* Going through vDisconnect and vConnect turns links of the old best      *)
(* chain into links of the new one.                                        *)
LEMMA RelinkedLinks ==
    ASSUME TypeOK, LinkedToBest, coinsTip = pindexBest, NEW x \in Blocks,
           pindexBest' = x, pnext' = Relinked(x)
    PROVE  LinkedToBest'
<1> DEFINE Children(y, b) == {c \in Ancestors[y] \ {Genesis} : Prev[c] = b}
<1>t. pindexBest \in Blocks /\ pnext \in [Blocks -> Blocks \cup {NoBlock}]
    BY DEF TypeOK
<1>1. ASSUME NEW b \in Blocks, NEW c \in Children(x, b)
      PROVE  pnext'[b] = c
    <2>1. CASE c \in vConnect(x)
        <3>1. \A d \in vConnect(x) \ {Genesis} : Prev[d] = b => d = c
            BY ChildUnique DEF vConnect
        <3>2. (CHOOSE d \in vConnect(x) \ {Genesis} : Prev[d] = b) = c
            BY <2>1, <3>1
        <3> QED BY <2>1, <3>2 DEF Relinked
    <2>2. CASE c \notin vConnect(x)
        <3>1. c \in Ancestors[pindexBest]
            BY <2>2 DEF vConnect
        <3>2. ~\E d \in vConnect(x) \ {Genesis} : Prev[d] = b
            BY <2>2, ChildUnique DEF vConnect
        <3>3. ~\E d \in vDisconnect(x) \ {Genesis} : Prev[d] = b
            BY <1>t, <3>1, ChildUnique DEF vDisconnect
        <3>4. pnext[b] = c
            BY <3>1 DEF LinkedToBest
        <3> QED BY <3>2, <3>3, <3>4 DEF Relinked
    <2> QED BY <2>1, <2>2
<1>2. ASSUME NEW b \in Blocks, Children(x, b) = {}
      PROVE  pnext'[b] = NoBlock
    <2>1. ~\E c \in vConnect(x) \ {Genesis} : Prev[c] = b
        BY <1>2 DEF vConnect
    <2>2. CASE pnext[b] = NoBlock
        BY <2>1, <2>2 DEF Relinked
    <2>3. CASE pnext[b] # NoBlock
        <3>1. pnext[b] \in vDisconnect(x) \ {Genesis} /\ Prev[pnext[b]] = b
            BY <1>2, <2>3 DEF LinkedToBest, vDisconnect
        <3> QED BY <2>1, <3>1 DEF Relinked
    <2> QED BY <2>2, <2>3
<1>3. ASSUME NEW c \in Ancestors[x] \ {Genesis}
      PROVE  Prev[c] \in Blocks /\ pnext'[Prev[c]] = c
    <2>1. Prev[c] \in Blocks
        BY AncestorFacts, PrevAssumption
    <2> QED BY <1>1, <2>1
<1>4. ASSUME NEW b \in Blocks, pnext'[b] # NoBlock
      PROVE  pnext'[b] \in Ancestors[x] \ {Genesis} /\ Prev[pnext'[b]] = b
    <2>1. PICK c : c \in Children(x, b)
        BY <1>2, <1>4
    <2> QED BY <1>1, <2>1
<1> QED BY <1>3, <1>4 DEF LinkedToBest

LEMMA RelinkedType ==
    ASSUME TypeOK, NEW x \in Blocks
    PROVE  Relinked(x) \in [Blocks -> Blocks \cup {NoBlock}]
<1>1. vConnect(x) \subseteq Blocks
    BY AncestorFacts DEF vConnect
<1>2. ASSUME NEW b \in Blocks, \E c \in vConnect(x) \ {Genesis} : Prev[c] = b
      PROVE  (CHOOSE c \in vConnect(x) \ {Genesis} : Prev[c] = b) \in Blocks
    BY <1>1, <1>2
<1> QED BY <1>2 DEF Relinked, TypeOK

(* x becomes the best block; above it remains the rest of the same chain. *)
LEMMA SetBestChainIInv ==
    ASSUME IInv, NEW x \in Blocks, SetBestChain(x)
    PROVE  IInv'
<1> USE DEF IInv, SetBestChain, index
<1>w. \A y \in Blocks : ChainWork[y] \in Nat
    BY WorkAssumption
<1>p. /\ pc = "attach" /\ x \in vAttach
      /\ pblock \in mapBlockIndex /\ pblock \in Blocks /\ pblock # NoBlock
      /\ x \in mapBlockIndex
      /\ ChainWork[pindexBest] < ChainWork[x]
      /\ \A y \in vAttach : y # x => ChainWork[x] < ChainWork[y]
    BY NextToAttachFacts DEF NextToAttach
<1>1. IndexInv'
    BY <1>p DEF IndexInv, Failed
<1>2. ValidInv'
    BY DEF ValidInv, BestChainIsValid, OnlyInvalidMarkedFailed, ValidChain, Invalid,
           Failed, Refused, vConnect
<1>3. LinkInv'
    BY RelinkedLinks DEF LinkInv
<1>n. NoInvalidNext'
    <2> SUFFICES ASSUME NEW b \in Blocks, Relinked(x)[b] # NoBlock
                 PROVE  ValidChain(b)
        BY DEF NoInvalidNext, ValidChain, Invalid
    <2>1. CASE \E c \in vConnect(x) \ {Genesis} : Prev[c] = b
        <3>1. b \in Ancestors[x] /\ Ancestors[b] \subseteq Ancestors[x]
            BY <2>1, AncestorFacts, AncestorsAssumption, PrevAssumption DEF vConnect
        <3> QED BY <1>2, <3>1 DEF ValidInv, BestChainIsValid, ValidChain, Invalid
    <2>2. CASE ~\E c \in vConnect(x) \ {Genesis} : Prev[c] = b
        BY <2>2 DEF Relinked, NoInvalidNext
    <2> QED BY <2>1, <2>2
<1>4. CASE vAttach = {x}
    <2>0. /\ vAttach' = {} /\ pblock' = NoBlock /\ pc' \in {"idle", "resolve"}
          /\ mapOrphanBlocks' \subseteq mapOrphanBlocks
          /\ vWorkQueue' \in Seq(Blocks)
          /\ pc' = "idle" <=> vWorkQueue' = << >>
          /\ \A b : InQueue(b, vWorkQueue) => InQueue(b, vWorkQueue')
          /\ InQueue(pblock, vWorkQueue')
        BY <1>4, <1>p, ReturnFacts
    <2>1. TypeOK'
        BY <2>0, RelinkedType DEF TypeOK
    <2>2. CallInv'
        BY <1>p, <2>0 DEF CallInv
    <2>3. WorkInv'
        <3>1. ~fSystemError => x = pblock
            <4> SUFFICES ASSUME ~fSystemError PROVE pblock \in vAttach
                BY <1>4
            <4>1. x \in Ancestors[pblock] /\ ChainWork[x] <= ChainWork[pblock]
                BY <1>p, AncestorFacts DEF WorkInv
            <4>2. ChainWork[pindexBest] < ChainWork[pblock]
                BY <1>p, <1>w, <4>1 DEF TypeOK
            <4> QED BY <1>p, <4>2, AncestorFacts DEF WorkInv
        <3>2. ASSUME ~fSystemError, NEW b \in mapBlockIndex, ChainWork[x] < ChainWork[b]
              PROVE  KnownBad(b)
            <4>1. b # pblock /\ ChainWork[pindexBest] < ChainWork[b]
                BY <1>p, <1>w, <3>1, <3>2 DEF TypeOK
            <4> QED BY <3>2, <4>1 DEF WorkInv
        <3> QED BY <2>0, <3>2 DEF WorkInv, KnownBad, Failed
    <2>4. OrphanInv'
        BY <2>0 DEF OrphanInv, Queued, ValidChain, Invalid
    <2> QED BY <1>1, <1>2, <1>3, <1>n, <2>1, <2>2, <2>3, <2>4
<1>5. CASE vAttach # {x}
    <2>0. vAttach' = vAttach \ {x} /\ UNCHANGED <<pc, pblock, vWorkQueue, mapOrphanBlocks>>
        BY <1>5
    <2>1. TypeOK'
        BY <1>5, <1>p, <2>0, RelinkedType DEF TypeOK
    <2>2. CallInv'
        BY <1>p, <2>0 DEF CallInv
    <2>3. WorkInv'
        <3> SUFFICES ASSUME ~fSystemError PROVE WorkInv'
            BY DEF WorkInv
        <3>1. vAttach' = {a \in Ancestors[pblock] : ChainWork[x] < ChainWork[a]}
            <4>1. \A a \in Ancestors[pblock] :
                      ChainWork[x] < ChainWork[a] <=> a \in vAttach /\ a # x
                <5> SUFFICES ASSUME NEW a \in Ancestors[pblock]
                             PROVE  ChainWork[x] < ChainWork[a] <=> a \in vAttach /\ a # x
                    OBVIOUS
                <5>1. a \in Blocks /\ pindexBest \in Blocks
                    BY <1>p, AncestorFacts DEF TypeOK
                <5>2. a \in vAttach <=> ChainWork[pindexBest] < ChainWork[a]
                    BY <1>p DEF WorkInv
                <5> QED BY <1>p, <1>w, <5>1, <5>2
            <4>2. vAttach \subseteq Ancestors[pblock]
                BY <1>p DEF WorkInv
            <4> QED BY <2>0, <4>1, <4>2
        <3>2. ASSUME NEW b \in mapBlockIndex, ChainWork[x] < ChainWork[b]
              PROVE  KnownBad(b) \/ b = pblock
            BY <1>p, <1>w, <3>2 DEF WorkInv, TypeOK
        <3> QED BY <1>p, <2>0, <3>1, <3>2 DEF WorkInv, KnownBad, Failed
    <2>4. OrphanInv'
        BY <2>0 DEF OrphanInv, Queued, ValidChain, Invalid
    <2> QED BY <1>1, <1>2, <1>3, <1>n, <2>1, <2>2, <2>3, <2>4
<1> QED BY <1>4, <1>5

LEMMA AttachFailsIInv ==
    ASSUME IInv, NEW x \in Blocks, AttachFails(x)
    PROVE  IInv'
<1> USE DEF IInv, AttachFails, index, chain
<1>p. pblock # NoBlock
    BY NextToAttachFacts
<1>0. /\ vAttach' = {} /\ pblock' = NoBlock /\ pc' \in {"idle", "resolve"}
      /\ mapOrphanBlocks' \subseteq mapOrphanBlocks
      /\ vWorkQueue' \in Seq(Blocks)
      /\ pc' = "idle" <=> vWorkQueue' = << >>
    BY <1>p, ReturnFacts
<1>1. TypeOK'
    BY <1>0 DEF TypeOK
<1>2. IndexInv'
    BY DEF IndexInv, Failed
<1>3. ValidInv'
    BY DEF ValidInv, BestChainIsValid, OnlyInvalidMarkedFailed, ValidChain, Invalid, Failed
<1>4. CallInv'
    BY <1>0 DEF CallInv, IndexInv
<1>n. NoInvalidNext'
    BY DEF NoInvalidNext, ValidChain, Invalid
<1> QED BY <1>1, <1>2, <1>3, <1>4, <1>n, ErrorIInv DEF IInv

(* pcoinsTip moves ahead of pindexBest, to a chain that is valid as well. *)
LEMMA FlushFailsIInv ==
    ASSUME IInv, NEW x \in Blocks, FlushFails(x)
    PROVE  IInv'
<1> USE DEF IInv, FlushFails, index
<1>p. pblock # NoBlock /\ x \in mapBlockIndex
    BY NextToAttachFacts
<1>0. /\ vAttach' = {} /\ pblock' = NoBlock /\ pc' \in {"idle", "resolve"}
      /\ mapOrphanBlocks' \subseteq mapOrphanBlocks
      /\ vWorkQueue' \in Seq(Blocks)
      /\ pc' = "idle" <=> vWorkQueue' = << >>
    BY <1>p, ReturnFacts
<1>1. TypeOK'
    BY <1>0 DEF TypeOK
<1>2. IndexInv'
    BY <1>p DEF IndexInv, Failed
<1>3. ValidInv'
    BY DEF ValidInv, BestChainIsValid, OnlyInvalidMarkedFailed, ValidChain, Invalid,
           Failed, Refused, vConnect
<1>4. CallInv'
    BY <1>0 DEF CallInv, IndexInv
<1>n. NoInvalidNext'
    BY DEF NoInvalidNext, ValidChain, Invalid
<1> QED BY <1>1, <1>2, <1>3, <1>4, <1>n, ErrorIInv DEF IInv

-----------------------------------------------------------------------------
(* The orphans *)

LEMMA RejectOrphanIInv ==
    ASSUME IInv, NEW o \in Blocks \ {Genesis}, RejectOrphan(o)
    PROVE  IInv'
<1> USE DEF IInv, RejectOrphan, index, chain
<1>1. TypeOK'
    BY DEF TypeOK
<1>2. IndexInv'
    BY DEF IndexInv, Failed
<1>3. ValidInv'
    BY DEF ValidInv, BestChainIsValid, OnlyInvalidMarkedFailed, ValidChain, Invalid, Failed
<1>4. LinkInv'
    BY DEF LinkInv, LinkedToBest
<1>5. CallInv'
    BY DEF CallInv
<1>6. WorkInv'
    BY DEF WorkInv, KnownBad, Failed
<1>7. OrphanInv'
    BY DEF OrphanInv, Queued, InQueue, ValidChain, Invalid
<1>n. NoInvalidNext'
    BY DEF NoInvalidNext, ValidChain, Invalid
<1> QED BY <1>1, <1>2, <1>3, <1>4, <1>n, <1>5, <1>6, <1>7 DEF IInv

(* Only a block that no orphan waits for leaves the queue. *)
LEMMA NextInQueueIInv ==
    ASSUME IInv, NextInQueue
    PROVE  IInv'
<1> USE DEF IInv, NextInQueue, index, chain
<1>0. /\ vWorkQueue \in Seq(Blocks) /\ vWorkQueue # << >>
      /\ vWorkQueue' = Tail(vWorkQueue) /\ vWorkQueue' \in Seq(Blocks)
      /\ pc' = "idle" <=> vWorkQueue' = << >>
      /\ pc' \in {"idle", "resolve"}
    BY DEF TypeOK
<1>1. TypeOK'
    BY <1>0 DEF TypeOK
<1>2. IndexInv'
    BY DEF IndexInv, Failed
<1>3. ValidInv'
    BY DEF ValidInv, BestChainIsValid, OnlyInvalidMarkedFailed, ValidChain, Invalid, Failed
<1>4. LinkInv'
    BY DEF LinkInv, LinkedToBest
<1>5. CallInv'
    BY <1>0 DEF CallInv
<1>6. WorkInv'
    BY <1>0 DEF WorkInv, KnownBad, Failed
<1>7. OrphanInv'
    <2>1. ASSUME NEW b, InQueue(b, vWorkQueue), b # Head(vWorkQueue)
          PROVE  InQueue(b, vWorkQueue')
        <3>1. PICK i \in 1..Len(vWorkQueue) : vWorkQueue[i] = b
            BY <2>1 DEF InQueue
        <3>2. i # 1
            BY <1>0, <2>1, <3>1
        <3>3. i - 1 \in 1..Len(vWorkQueue') /\ vWorkQueue'[i - 1] = b
            BY <1>0, <3>1, <3>2
        <3> QED BY <3>3 DEF InQueue
    <2>2. \A o \in mapOrphanBlocks : Prev[o] # Head(vWorkQueue)
        BY DEF Waiting
    <2> QED BY <2>1, <2>2 DEF OrphanInv, Queued, ValidChain, Invalid
<1>n. NoInvalidNext'
    BY DEF NoInvalidNext, ValidChain, Invalid
<1> QED BY <1>1, <1>2, <1>3, <1>4, <1>n, <1>5, <1>6, <1>7 DEF IInv

-----------------------------------------------------------------------------
(* The theorems *)

LEMMA NextIInv ==
    ASSUME IInv, [Next]_vars
    PROVE  IInv'
<1>1. CASE Receive
    BY <1>1, ShuntOrphanIInv, AddToBlockIndexIInv DEF Receive, ProcessBlock
<1>2. CASE ConnectBestBlock
    BY <1>2, NothingToDoIInv, MarkDescendantsFailedIInv, PlanAttachIInv
    DEF ConnectBestBlock
<1>3. CASE Attach
    BY <1>3, SetBestChainIInv, InvalidBlockFoundIInv DEF Attach
<1>4. CASE ResolveOrphans
    BY <1>4, AddToBlockIndexIInv, RejectOrphanIInv, NextInQueueIInv
    DEF ResolveOrphans, AcceptOrphan
<1>5. CASE SystemError
    BY <1>5, WriteBlockFailsIInv, WriteIndexFailsIInv, AttachFailsIInv, FlushFailsIInv
    DEF SystemError
<1>6. CASE UNCHANGED vars
    <2> USE <1>6 DEF IInv, vars, index, chain
    <2>1. TypeOK' /\ IndexInv'
        BY DEF TypeOK, IndexInv, Failed
    <2>2. ValidInv' /\ LinkInv' /\ NoInvalidNext'
        BY DEF ValidInv, BestChainIsValid, OnlyInvalidMarkedFailed, Failed, LinkInv,
               LinkedToBest, NoInvalidNext, ValidChain, Invalid
    <2>3. CallInv' /\ WorkInv' /\ OrphanInv'
        BY DEF CallInv, WorkInv, KnownBad, Failed, OrphanInv, Queued, InQueue,
               ValidChain, Invalid
    <2> QED BY <2>1, <2>2, <2>3
<1> QED BY <1>1, <1>2, <1>3, <1>4, <1>5, <1>6 DEF Next, Step

(* IInv holds in every reachable state, for every tree of blocks. *)
THEOREM Invariance == Spec => []IInv
BY InitIInv, NextIInv, PTL DEF Spec

(* Every variable keeps its type, and a call in progress its state. *)
THEOREM Typing == Spec => []TypeOK
<1>1. IInv => TypeOK
    BY DEF IInv
<1> QED BY <1>1, Invariance, PTL

(* No block that ConnectBlock would refuse is part of the best chain, nor  *)
(* of the chain whose coins pcoinsTip holds, system errors or not.         *)
THEOREM BestChainValidity == Spec => []BestChainIsValid
<1>1. IInv => BestChainIsValid
    BY DEF IInv, ValidInv
<1> QED BY <1>1, Invariance, PTL

(* Marking descendants condemns no block whose chain is valid. *)
THEOREM MarkingCorrect == Spec => []OnlyInvalidMarkedFailed
<1>1. IInv => OnlyInvalidMarkedFailed
    BY DEF IInv, ValidInv
<1> QED BY <1>1, Invariance, PTL

(* Between calls, and unless an error occurred, no block of the index with *)
(* a valid chain has more work than pindexBest.                            *)
THEOREM BestWork == Spec => []BestHasMostWork
<1>1. ASSUME IInv, pc = "idle", ~fSystemError, NEW b \in mapBlockIndex, ValidChain(b)
      PROVE  ChainWork[b] <= ChainWork[pindexBest]
    <2>1. b \in Blocks /\ pindexBest \in Blocks
        BY <1>1 DEF IInv, TypeOK
    <2>2. ~KnownBad(b)
        <3> SUFFICES ASSUME NEW a \in Ancestors[b], a \in Failed PROVE FALSE
            BY DEF KnownBad
        <3>1. Ancestors[a] \subseteq Ancestors[b]
            BY <2>1, AncestorFacts
        <3> QED BY <1>1, <3>1 DEF IInv, ValidInv, OnlyInvalidMarkedFailed, ValidChain
    <2>3. ~(ChainWork[pindexBest] < ChainWork[b])
        BY <1>1, <2>2 DEF IInv, WorkInv
    <2> QED BY <2>1, <2>3, WorkAssumption
<1>2. IInv => BestHasMostWork
    BY <1>1 DEF BestHasMostWork
<1> QED BY <1>2, Invariance, PTL

(* The pnext pointers link exactly the best chain, unless an error         *)
(* occurred.                                                               *)
THEOREM PnextCorrect == Spec => []PnextLinksUnlessError
<1>1. IInv => PnextLinksUnlessError
    BY DEF IInv, LinkInv, PnextLinksUnlessError
<1> QED BY <1>1, Invariance, PTL

(* When a block is refused its pnext is NULL, system errors or not: the    *)
(* call of ConnectBestBlock in InvalidBlockFound is never made.            *)
THEOREM DeadCall ==
    Spec => [][\A x, p \in Blocks : InvalidBlockFound(x, p) => pnext[p] = NoBlock]_vars
<1>1. ASSUME IInv, NEW x \in Blocks, NEW p \in Blocks, InvalidBlockFound(x, p)
      PROVE  pnext[p] = NoBlock
    <2>1. p \in Invalid /\ p \in Ancestors[p]
        BY <1>1, AncestorFacts DEF InvalidBlockFound, Refused
    <2> QED BY <1>1, <2>1 DEF IInv, NoInvalidNext, ValidChain
<1>2. IInv => [\A x, p \in Blocks : InvalidBlockFound(x, p) => pnext[p] = NoBlock]_vars
    BY <1>1
<1> QED BY <1>2, Invariance, PTL

(* Between calls no orphan is left that could be connected. *)
THEOREM OrphansTried == Spec => []OrphansResolved
<1>1. ASSUME IInv, pc = "idle", ~fSystemError, NEW o \in mapOrphanBlocks,
             Prev[o] \in mapBlockIndex
      PROVE  ~ValidChain(Prev[o])
    <2>1. ~Queued(Prev[o])
        BY <1>1 DEF IInv, CallInv, Queued, InQueue
    <2>2. Prev[o] # pblock
        BY <1>1, BlocksAssumption DEF IInv, TypeOK
    <2> QED BY <1>1, <2>1, <2>2 DEF IInv, OrphanInv
<1>2. IInv => OrphansResolved
    BY <1>1 DEF OrphansResolved
<1> QED BY <1>2, Invariance, PTL

(* The best block is only ever replaced by one with strictly more work. *)
THEOREM WorkGrows == Spec => WorkIncreases
<1>1. ASSUME IInv, [Next]_vars, pindexBest' # pindexBest
      PROVE  ChainWork[pindexBest] < ChainWork[pindexBest']
    <2>1. PICK x \in Blocks : SetBestChain(x)
        BY <1>1 DEF Next, Step, Receive, ShuntOrphan, ProcessBlock, AddToBlockIndex,
            ConnectBestBlock, NothingToDo, MarkDescendantsFailed, PlanAttach, Attach,
            InvalidBlockFound, ResolveOrphans, AcceptOrphan, RejectOrphan, NextInQueue,
            SystemError, WriteBlockFails, WriteIndexFails, AttachFails, FlushFails, vars, chain
    <2> QED BY <1>1, <2>1, NextToAttachFacts DEF SetBestChain
<1>2. IInv /\ [Next]_vars
          => [pindexBest' # pindexBest => ChainWork[pindexBest] < ChainWork[pindexBest']]_vars
    BY <1>1
<1> QED BY <1>2, Invariance, PTL DEF Spec, WorkIncreases
=============================================================================
