-------------------------- MODULE CheckQueueProofs --------------------------
(***************************************************************************)
(* Safety of the check queue for any number of workers, any finite set of  *)
(* checks and any batch size: the verdict Wait() returns is the            *)
(* conjunction of the block's checks, the queue is at rest when it has     *)
(* returned, and the whole implements BlockVerifier.                       *)
(***************************************************************************)
EXTENDS CheckQueue, FiniteSetTheorems, TLAPS

(* The threads that nTotal counts and nIdle does not. *)
Busy == {t \in Threads : pc[t] \in {"test", "run", "cleanup"}}

MutexInv == \A t \in Threads : mutex = t <=> pc[t] \in {"test", "wake"}

BatchInv == \A t \in Threads : batch[t] # {} <=> pc[t] \in {"run", "cleanup"}

BusyInv == nTotal - nIdle = Cardinality(Busy)

(* What the shared result and the local results know of the bad checks. *)
VerdictInv ==
    /\ Pending \subseteq added
    /\ fAllOk /\ pc[Master] \notin {"out", "ctor"} => (added \ Pending) \cap bad = {}
    /\ ~fAllOk => bad # {}
    /\ \A t \in Threads : pc[t] \in {"run", "cleanup"} /\ ~fOk[t] => bad # {}
    /\ \A t \in Threads : pc[t] = "cleanup" /\ fOk[t] => batch[t] \cap bad = {}

RestInv == pc[Master] \in {"out", "ctor", "aborted"} => nTodo = 0 /\ fAllOk

IInv == /\ TypeOK /\ MutexInv /\ BatchInv /\ TodoCountsPending /\ BusyInv
        /\ VerdictInv /\ RestInv
-----------------------------------------------------------------------------
(* Cardinalities. *)

(* Adding new elements to a finite set adds their number to its size. *)
LEMMA CardinalityAdd ==
  ASSUME NEW S, NEW T, IsFiniteSet(S), IsFiniteSet(T), S \cap T = {}
  PROVE  Cardinality(S \cup T) = Cardinality(S) + Cardinality(T)
<1>1. Cardinality(S \cup T) = Cardinality(S) + Cardinality(T) - Cardinality(S \cap T)
  BY FS_Union
<1>2. Cardinality(S) \in Nat /\ Cardinality(T) \in Nat /\ Cardinality(S \cap T) = 0
  BY FS_CardinalityType, FS_EmptySet
<1> QED
  BY <1>1, <1>2

(* Removing a part of a finite set takes its number from the size. *)
LEMMA CardinalityRemove ==
  ASSUME NEW S, NEW T, IsFiniteSet(S), T \subseteq S
  PROVE  Cardinality(S \ T) = Cardinality(S) - Cardinality(T)
<1>1. IsFiniteSet(T) /\ IsFiniteSet(S \ T)
  BY FS_Subset
<1>2. Cardinality((S \ T) \cup T) = Cardinality(S \ T) + Cardinality(T)
  BY <1>1, CardinalityAdd
<1>3. (S \ T) \cup T = S
  OBVIOUS
<1>4. Cardinality(S) = Cardinality(S \ T) + Cardinality(T)
  BY <1>2, <1>3, Zenon
<1>5. Cardinality(S \ T) \in Nat /\ Cardinality(T) \in Nat
  BY <1>1, FS_CardinalityType
<1> QED
  BY <1>4, <1>5

(* The threads and the pending checks are finite sets. *)
LEMMA Finiteness ==
  ASSUME TypeOK
  PROVE  /\ IsFiniteSet(Threads) /\ IsFiniteSet(Busy) /\ IsFiniteSet(Pending)
         /\ Cardinality(Busy) \in Nat /\ Cardinality(Pending) \in Nat
<1>1. IsFiniteSet(Threads)
  BY ThreadsAssumption, FS_AddElement DEF Threads
<1>2. IsFiniteSet(Busy)
  BY <1>1, FS_Subset DEF Busy
<1>3. Pending \subseteq Checks
  BY DEF Pending, TypeOK
<1>4. IsFiniteSet(Pending)
  BY <1>3, ChecksAssumption, FS_Subset
<1> QED
  BY <1>1, <1>2, <1>4, FS_CardinalityType

(* A thread that becomes busy, or stops being so, changes the count by one. *)
LEMMA BusyEnter ==
  ASSUME TypeOK, BusyInv, NEW t \in Threads, t \notin Busy, Busy' = Busy \cup {t}
  PROVE  Cardinality(Busy') = Cardinality(Busy) + 1
  BY Finiteness, FS_AddElement

LEMMA BusyLeave ==
  ASSUME TypeOK, BusyInv, NEW t \in Threads, t \in Busy, Busy' = Busy \ {t}
  PROVE  Cardinality(Busy') = Cardinality(Busy) - 1
  BY Finiteness, FS_RemoveElement

-----------------------------------------------------------------------------
(* The invariant is inductive: one lemma per conjunct that needs a         *)
(* strengthening, and in each one step per action that can disturb it.     *)

USE DEF Alive, Goto, Lock, Unlock, ctrs, work, done, intr

(* The steps of a thread in Loop(). *)
ThreadStep(t) == Locking(t) \/ Running(t) \/ SpuriousWakeUp(t) \/ Interrupted(t)

(* The initial state satisfies the invariant. *)
LEMMA InitInv == Init => IInv
<1> SUFFICES ASSUME Init PROVE IInv
  OBVIOUS
<1>1. TypeOK
  <2>1. /\ pc \in [Threads -> WorkerPC \cup MasterPC]
        /\ pc[Master] \in MasterPC
        /\ \A w \in Workers : pc[w] \in WorkerPC
    BY ThreadsAssumption DEF Init, Threads, WorkerPC, MasterPC
  <2>2. fOk \in [Threads -> BOOLEAN] /\ fAllOk \in BOOLEAN /\ fRet \in BOOLEAN
        /\ fShutdown \in BOOLEAN
    BY DEF Init
  <2> QED
    BY <2>1, <2>2 DEF Init, TypeOK
<1>2. MutexInv /\ BatchInv /\ RestInv
  BY ThreadsAssumption DEF Init, MutexInv, BatchInv, RestInv, Threads
<1>3. Pending = {} /\ Busy = {}
  BY DEF Init, Pending, Busy, Threads
<1>4. TodoCountsPending /\ BusyInv
  BY <1>3, FS_EmptySet DEF Init, TodoCountsPending, BusyInv
<1>5. VerdictInv
  BY <1>3 DEF Init, VerdictInv, Threads
<1> QED
  BY <1>1, <1>2, <1>4, <1>5 DEF IInv

(* Every step keeps the variables in their types. *)
LEMMA TypeStep == IInv /\ [Next]_vars => TypeOK'
<1> SUFFICES ASSUME IInv, [Next]_vars PROVE TypeOK'
  OBVIOUS
<1> USE DEF IInv, TypeOK, WorkerPC, MasterPC, InLoop
<1>1. CASE CtorReadTotal
  BY <1>1 DEF CtorReadTotal, Threads
<1>2. CASE CtorAsserts
  BY <1>2 DEF CtorAsserts, Threads
<1>3. ASSUME NEW vChecks \in SUBSET (Checks \ added), NEW vBad \in SUBSET vChecks,
             Add(vChecks, vBad)
      PROVE  TypeOK'
  <2>1. Cardinality(vChecks) \in Nat
    BY ChecksAssumption, FS_Subset, FS_CardinalityType
  <2>2. PICK S \in SUBSET {w \in Workers : pc[w] = "wait"} :
             pc' = [t \in Threads |-> IF t \in S THEN "woken" ELSE pc[t]]
    BY <1>3 DEF Add, NotifyWorkers
  <2> QED
    BY <1>3, <2>1, <2>2, ThreadsAssumption DEF Add, Threads
<1>4. CASE Wait
  BY <1>4 DEF Wait, Threads
<1>5. CASE InterruptAll
  BY <1>5 DEF InterruptAll
<1>6. ASSUME NEW t \in Threads, ThreadStep(t)
      PROVE  TypeOK'
  <2>1. CASE FirstIteration(t)
    BY <2>1, ThreadsAssumption DEF FirstIteration, Threads
  <2>2. CASE CleanUp(t)
    <3>1. Cardinality(batch[t]) \in Nat
      BY ChecksAssumption, FS_Subset, FS_CardinalityType
    <3> QED
      BY <2>2, <3>1, ThreadsAssumption DEF CleanUp, Threads
  <2>3. CASE t = Master /\ Return
    BY <2>3, ThreadsAssumption DEF Return, Threads
  <2>4. CASE Sleep(t)
    BY <2>4, ThreadsAssumption DEF Sleep, Threads
  <2>5. CASE Take(t)
    BY <2>5, ThreadsAssumption DEF Take, Threads
  <2>6. CASE Execute(t)
    BY <2>6, ThreadsAssumption DEF Execute, Threads
  <2>7. CASE SpuriousWakeUp(t)
    BY <2>7, ThreadsAssumption DEF SpuriousWakeUp, Threads
  <2>8. CASE Reacquire(t)
    BY <2>8, ThreadsAssumption DEF Reacquire, Threads
  <2>9. CASE WakeUp(t)
    BY <2>9, ThreadsAssumption DEF WakeUp, Threads
  <2>10. CASE Interrupted(t)
    BY <2>10, ThreadsAssumption DEF Interrupted, Threads
  <2> QED
    BY <1>6, <2>1, <2>2, <2>3, <2>4, <2>5, <2>6, <2>7, <2>8, <2>9, <2>10
       DEF ThreadStep, Locking, Running
<1>7. CASE UNCHANGED vars
  BY <1>7 DEF vars
<1> QED
  BY <1>1, <1>2, <1>3, <1>4, <1>5, <1>6, <1>7 DEF Next, ThreadStep, Aborted

(* At most one thread is inside the critical section, and a thread holds a *)
(* batch exactly while it runs it or is about to account for it.           *)
LEMMA ControlStep == IInv /\ [Next]_vars => MutexInv' /\ BatchInv'
<1> SUFFICES ASSUME IInv, [Next]_vars PROVE MutexInv' /\ BatchInv'
  OBVIOUS
<1> USE DEF IInv, TypeOK, MutexInv, BatchInv
<1>1. CASE CtorReadTotal
  BY <1>1 DEF CtorReadTotal, Threads
<1>2. CASE CtorAsserts
  BY <1>2 DEF CtorAsserts, Threads
<1>3. ASSUME NEW vChecks \in SUBSET (Checks \ added), NEW vBad \in SUBSET vChecks,
             Add(vChecks, vBad)
      PROVE  MutexInv' /\ BatchInv'
  <2>1. PICK S \in SUBSET {w \in Workers : pc[w] = "wait"} :
             pc' = [t \in Threads |-> IF t \in S THEN "woken" ELSE pc[t]]
    BY <1>3 DEF Add, NotifyWorkers
  <2> QED
    BY <1>3, <2>1 DEF Add, Threads
<1>4. CASE Wait
  BY <1>4 DEF Wait, Threads
<1>5. CASE InterruptAll
  BY <1>5 DEF InterruptAll
<1>6. ASSUME NEW t \in Threads, ThreadStep(t)
      PROVE  MutexInv' /\ BatchInv'
  <2> USE ThreadsAssumption
  <2>1. CASE FirstIteration(t)
    BY <2>1 DEF FirstIteration, Threads
  <2>2. CASE CleanUp(t)
    BY <2>2 DEF CleanUp, Threads
  <2>3. CASE t = Master /\ Return
    BY <2>3 DEF Return, Threads
  <2>4. CASE Sleep(t)
    BY <2>4 DEF Sleep, Threads
  <2>5. CASE Take(t)
    <3>1. PICK vChecks \in SUBSET queue :
             /\ Cardinality(vChecks) = BatchSize
             /\ batch' = [batch EXCEPT ![t] = vChecks]
      BY <2>5 DEF Take
    <3>2. BatchSize # 0
      BY DEF BatchSize, Maximum
    <3>3. vChecks # {}
      BY <3>1, <3>2, FS_EmptySet
    <3>4. BatchInv'
      BY <2>5, <3>1, <3>3 DEF Take
    <3>5. MutexInv'
      BY <2>5 DEF Take, Threads
    <3> QED
      BY <3>4, <3>5
  <2>6. CASE Execute(t)
    BY <2>6 DEF Execute, Threads
  <2>7. CASE SpuriousWakeUp(t)
    BY <2>7 DEF SpuriousWakeUp, Threads
  <2>8. CASE Reacquire(t)
    BY <2>8 DEF Reacquire, Threads
  <2>9. CASE WakeUp(t)
    BY <2>9 DEF WakeUp, Threads
  <2>10. CASE Interrupted(t)
    BY <2>10 DEF Interrupted, Threads
  <2> QED
    BY <1>6, <2>1, <2>2, <2>3, <2>4, <2>5, <2>6, <2>7, <2>8, <2>9, <2>10
       DEF ThreadStep, Locking, Running
<1>7. CASE UNCHANGED vars
  BY <1>7 DEF vars
<1> QED
  BY <1>1, <1>2, <1>3, <1>4, <1>5, <1>6, <1>7 DEF Next, ThreadStep, Aborted

(* What each step does to the set of pending checks. *)
LEMMA PendingStep ==
  ASSUME IInv, [Next]_vars
  PROVE  \/ /\ Pending' = Pending /\ nTodo' = nTodo /\ added' = added /\ bad' = bad
         \/ /\ Pending = {} /\ Pending' = {} /\ nTodo' = nTodo
            /\ added' = {} /\ bad' = {} /\ CtorAsserts
         \/ \E vChecks \in SUBSET (Checks \ added) : \E vBad \in SUBSET vChecks :
              /\ Add(vChecks, vBad)
              /\ Pending' = Pending \cup vChecks
              /\ nTodo' = nTodo + Cardinality(vChecks)
         \/ \E t \in Threads :
              /\ CleanUp(t)
              /\ Pending' = Pending \ batch[t]
              /\ nTodo' = nTodo - Cardinality(batch[t])
              /\ added' = added /\ bad' = bad
<1> USE DEF Pending
<1>1. CASE CtorAsserts
  <2>1. nTodo = 0 /\ nTodo = Cardinality(Pending)
    BY <1>1 DEF CtorAsserts, IInv, RestInv, TodoCountsPending
  <2>2. Pending = {}
    BY <2>1, Finiteness, FS_EmptySet DEF IInv
  <2> QED
    BY <1>1, <2>2 DEF CtorAsserts
<1>2. ASSUME NEW vChecks \in SUBSET (Checks \ added), NEW vBad \in SUBSET vChecks,
             Add(vChecks, vBad)
      PROVE  /\ Pending' = Pending \cup vChecks
             /\ nTodo' = nTodo + Cardinality(vChecks)
  BY <1>2 DEF Add
<1>3. ASSUME NEW t \in Threads, CleanUp(t)
      PROVE  /\ Pending' = Pending \ batch[t]
             /\ nTodo' = nTodo - Cardinality(batch[t])
             /\ added' = added /\ bad' = bad
  BY <1>3 DEF CleanUp, IInv, TypeOK, TodoCountsPending
<1>4. ASSUME NEW t \in Threads, Take(t)
      PROVE  Pending' = Pending /\ nTodo' = nTodo /\ added' = added /\ bad' = bad
  <2>1. PICK vChecks \in SUBSET queue :
             /\ batch' = [batch EXCEPT ![t] = vChecks]
             /\ queue' = queue \ vChecks
    BY <1>4 DEF Take
  <2>2. batch[t] = {}
    BY <1>4 DEF Take, IInv, BatchInv
  <2>3. Pending' = Pending
    BY <2>1, <2>2 DEF IInv, TypeOK
  <2> QED
    BY <1>4, <2>3 DEF Take
<1>5. ASSUME NEW t \in Threads,
             \/ FirstIteration(t) \/ (t = Master /\ Return) \/ Sleep(t)
             \/ Execute(t) \/ SpuriousWakeUp(t) \/ Reacquire(t) \/ WakeUp(t)
             \/ Interrupted(t)
      PROVE  Pending' = Pending /\ nTodo' = nTodo /\ added' = added /\ bad' = bad
  BY <1>5 DEF FirstIteration, Return, Sleep, Execute, SpuriousWakeUp, Reacquire,
              WakeUp, Interrupted
<1>6. CASE CtorReadTotal \/ Wait \/ InterruptAll \/ UNCHANGED vars
  BY <1>6 DEF CtorReadTotal, Wait, InterruptAll, vars
<1> QED
  BY <1>1, <1>2, <1>3, <1>4, <1>5, <1>6 DEF Next, Locking, Running, Aborted

(* nTodo goes on counting the pending checks, each of them once. *)
LEMMA CountStep == IInv /\ [Next]_vars => TodoCountsPending'
<1> SUFFICES ASSUME IInv, [Next]_vars PROVE TodoCountsPending'
  OBVIOUS
<1>1. nTodo' = Cardinality(Pending')
  <2>1. nTodo = Cardinality(Pending) /\ IsFiniteSet(Pending)
    BY Finiteness DEF IInv, TodoCountsPending
  <2>2. ASSUME NEW vChecks \in SUBSET (Checks \ added),
               Pending' = Pending \cup vChecks, nTodo' = nTodo + Cardinality(vChecks)
        PROVE  nTodo' = Cardinality(Pending')
    <3>1. IsFiniteSet(vChecks) /\ Pending \cap vChecks = {}
      BY ChecksAssumption, FS_Subset DEF IInv, VerdictInv
    <3>2. Cardinality(Pending \cup vChecks) = Cardinality(Pending) + Cardinality(vChecks)
      BY <2>1, <3>1, CardinalityAdd
    <3> QED
      BY <2>1, <2>2, <3>2
  <2>3. ASSUME NEW t \in Threads,
               Pending' = Pending \ batch[t], nTodo' = nTodo - Cardinality(batch[t])
        PROVE  nTodo' = Cardinality(Pending')
    <3>1. batch[t] \subseteq Pending
      BY DEF Pending
    <3>2. Cardinality(Pending \ batch[t]) = Cardinality(Pending) - Cardinality(batch[t])
      BY <2>1, <3>1, CardinalityRemove
    <3> QED
      BY <2>1, <2>3, <3>2
  <2> QED
    BY PendingStep, <2>1, <2>2, <2>3
<1>2. /\ \A t \in Threads : batch'[t] \cap queue' = {}
      /\ \A t, u \in Threads : t # u => batch'[t] \cap batch'[u] = {}
  <2> USE DEF IInv, TypeOK, TodoCountsPending
  <2>1. ASSUME NEW vChecks \in SUBSET (Checks \ added), NEW vBad \in SUBSET vChecks,
               Add(vChecks, vBad)
        PROVE  \A t \in Threads : batch'[t] \cap queue' = {}
    BY <2>1 DEF Add, VerdictInv, Pending
  <2>2. ASSUME NEW t \in Threads, CleanUp(t)
        PROVE  <1>2
    BY <2>2 DEF CleanUp
  <2>3. ASSUME NEW t \in Threads, Take(t)
        PROVE  <1>2
    BY <2>3 DEF Take
  <2>4. ASSUME NEW t \in Threads,
               \/ FirstIteration(t) \/ (t = Master /\ Return) \/ Sleep(t)
               \/ Execute(t) \/ SpuriousWakeUp(t) \/ Reacquire(t) \/ WakeUp(t)
               \/ Interrupted(t)
        PROVE  <1>2
    BY <2>4 DEF FirstIteration, Return, Sleep, Execute, SpuriousWakeUp, Reacquire,
                WakeUp, Interrupted
  <2>5. CASE CtorReadTotal \/ CtorAsserts \/ Wait \/ InterruptAll \/ UNCHANGED vars
    BY <2>5 DEF CtorReadTotal, CtorAsserts, Wait, InterruptAll, vars
  <2>6. ASSUME NEW vChecks \in SUBSET (Checks \ added), NEW vBad \in SUBSET vChecks,
               Add(vChecks, vBad)
        PROVE  batch' = batch
    BY <2>6 DEF Add
  <2> QED
    BY <2>1, <2>2, <2>3, <2>4, <2>5, <2>6 DEF Next, Locking, Running, Aborted
<1> QED
  BY <1>1, <1>2 DEF TodoCountsPending

(* nTotal - nIdle goes on counting the busy threads. *)
LEMMA BusyStep == IInv /\ [Next]_vars => BusyInv'
<1> SUFFICES ASSUME IInv, [Next]_vars PROVE BusyInv'
  OBVIOUS
<1> USE ThreadsAssumption
<1>1. BusyInv /\ TypeOK /\ Cardinality(Busy) \in Nat
  BY Finiteness DEF IInv
<1>2. ASSUME Busy' = Busy, nTotal' = nTotal, nIdle' = nIdle
      PROVE  BusyInv'
  BY <1>1, <1>2 DEF BusyInv
<1>3. CASE CtorReadTotal \/ CtorAsserts \/ Wait \/ InterruptAll \/ UNCHANGED vars
  BY <1>1, <1>2, <1>3
     DEF CtorReadTotal, CtorAsserts, Wait, InterruptAll, vars, Busy, TypeOK, Threads
<1>4. ASSUME NEW vChecks, NEW vBad, Add(vChecks, vBad)
      PROVE  BusyInv'
  <2>1. PICK S \in SUBSET {w \in Workers : pc[w] = "wait"} :
             pc' = [t \in Threads |-> IF t \in S THEN "woken" ELSE pc[t]]
    BY <1>4 DEF Add, NotifyWorkers
  <2> QED
    BY <1>1, <1>2, <1>4, <2>1 DEF Add, Busy, Threads
<1>5. ASSUME NEW t \in Threads,
             \/ Take(t) \/ Execute(t) \/ CleanUp(t) \/ SpuriousWakeUp(t)
             \/ Reacquire(t) \/ Interrupted(t)
      PROVE  BusyInv'
  <2>1. nTotal' = nTotal /\ nIdle' = nIdle
    BY <1>5 DEF Take, Execute, CleanUp, SpuriousWakeUp, Reacquire, Interrupted
  <2>2. Busy' = Busy
    BY <1>1, <1>5 DEF Take, Execute, CleanUp, SpuriousWakeUp, Reacquire, Interrupted,
                     Busy, TypeOK, Threads
  <2> QED
    BY <1>2, <2>1, <2>2
<1>6. ASSUME NEW t \in Threads, FirstIteration(t)
      PROVE  BusyInv'
  <2>1. t \notin Busy /\ Busy' = Busy \cup {t}
    BY <1>1, <1>6 DEF FirstIteration, Busy, TypeOK
  <2>2. Cardinality(Busy') = Cardinality(Busy) + 1
    BY <1>1, <2>1, BusyEnter
  <2> QED
    BY <1>1, <1>6, <2>2 DEF FirstIteration, BusyInv, TypeOK
<1>7. ASSUME NEW t \in Threads, WakeUp(t)
      PROVE  BusyInv'
  <2>1. t \notin Busy /\ Busy' = Busy \cup {t}
    BY <1>1, <1>7 DEF WakeUp, Busy, TypeOK
  <2>2. Cardinality(Busy') = Cardinality(Busy) + 1
    BY <1>1, <2>1, BusyEnter
  <2> QED
    BY <1>1, <1>7, <2>2 DEF WakeUp, BusyInv, TypeOK
<1>8. ASSUME NEW t \in Threads, Sleep(t) \/ (t = Master /\ Return)
      PROVE  BusyInv'
  <2>1. t \in Busy /\ Busy' = Busy \ {t}
    BY <1>1, <1>8 DEF Sleep, Return, Busy, TypeOK, Threads
  <2>2. Cardinality(Busy') = Cardinality(Busy) - 1
    BY <1>1, <2>1, BusyLeave
  <2> QED
    BY <1>1, <1>8, <2>2 DEF Sleep, Return, BusyInv, TypeOK
<1> QED
  BY <1>3, <1>4, <1>5, <1>6, <1>7, <1>8 DEF Next, Locking, Running, Aborted

(* The queue is at rest whenever the master is outside a session. *)
LEMMA RestStep == IInv /\ [Next]_vars => RestInv'
<1> SUFFICES ASSUME IInv, [Next]_vars PROVE RestInv'
  OBVIOUS
<1> USE ThreadsAssumption DEF IInv, TypeOK, RestInv, MasterPC, WorkerPC
<1>1. CASE CtorReadTotal \/ CtorAsserts \/ Wait \/ InterruptAll \/ UNCHANGED vars
  BY <1>1 DEF CtorReadTotal, CtorAsserts, Wait, InterruptAll, vars, Threads
<1>2. ASSUME NEW vChecks, NEW vBad, Add(vChecks, vBad)
      PROVE  RestInv'
  BY <1>2 DEF Add, NotifyWorkers, Threads
<1>3. ASSUME NEW t \in Threads, CleanUp(t)
      PROVE  RestInv'
  <2>1. batch[t] # {} /\ batch[t] \subseteq Pending
    BY <1>3 DEF CleanUp, BatchInv, Pending
  <2>2. nTodo # 0
    BY <2>1, Finiteness, FS_EmptySet DEF TodoCountsPending
  <2>3. pc[Master] \notin {"out", "ctor", "aborted"}
    BY <2>2
  <2> QED
    BY <1>3, <2>3 DEF CleanUp, Threads
<1>4. CASE Return
  BY <1>4 DEF Return, Threads
<1>5. ASSUME NEW t \in Threads,
             \/ FirstIteration(t) \/ Sleep(t) \/ Take(t) \/ Execute(t)
             \/ SpuriousWakeUp(t) \/ Reacquire(t) \/ WakeUp(t) \/ Interrupted(t)
      PROVE  RestInv'
  BY <1>5 DEF FirstIteration, Sleep, Take, Execute, SpuriousWakeUp, Reacquire, WakeUp,
              Interrupted, Threads
<1> QED
  BY <1>1, <1>2, <1>3, <1>4, <1>5 DEF Next, Locking, Running, Aborted

(* The results go on knowing whether a check that has been run was bad. *)
LEMMA VerdictStep == IInv /\ [Next]_vars => VerdictInv'
<1> SUFFICES ASSUME IInv, [Next]_vars PROVE VerdictInv'
  OBVIOUS
<1> USE ThreadsAssumption DEF IInv, TypeOK, VerdictInv
<1>1. CASE CtorReadTotal \/ Wait \/ InterruptAll \/ UNCHANGED vars
  BY <1>1 DEF CtorReadTotal, Wait, InterruptAll, vars, Pending, Threads
<1>2. CASE CtorAsserts
  <2>1. Pending = {} /\ Pending' = {}
    <3>1. nTodo = 0
      BY <1>2 DEF CtorAsserts, RestInv
    <3>2. Pending = {}
      BY <3>1, Finiteness, FS_EmptySet DEF TodoCountsPending
    <3> QED
      BY <1>2, <3>2 DEF CtorAsserts, Pending
  <2>2. fAllOk' = TRUE /\ \A t \in Threads : pc'[t] \notin {"run", "cleanup"}
    BY <1>2, <2>1 DEF CtorAsserts, RestInv, BatchInv, Pending, Threads
  <2> QED
    BY <1>2, <2>1, <2>2 DEF CtorAsserts
<1>3. ASSUME NEW vChecks \in SUBSET (Checks \ added), NEW vBad \in SUBSET vChecks,
             Add(vChecks, vBad)
      PROVE  VerdictInv'
  <2>1. PICK S \in SUBSET {w \in Workers : pc[w] = "wait"} :
             pc' = [t \in Threads |-> IF t \in S THEN "woken" ELSE pc[t]]
    BY <1>3 DEF Add, NotifyWorkers
  <2>2. Pending' = Pending \cup vChecks
    BY <1>3 DEF Add, Pending
  <2>3. /\ Pending' \subseteq added'
        /\ fAllOk' => (added' \ Pending') \cap bad' = {}
        /\ ~fAllOk' => bad' # {}
    BY <1>3, <2>2 DEF Add
  <2>4. \A t \in Threads : pc'[t] \in {"run", "cleanup"} /\ ~fOk'[t] => bad' # {}
    BY <1>3, <2>1 DEF Add
  <2>5. \A t \in Threads : batch[t] \cap vBad = {}
    BY DEF Pending
  <2>6. \A t \in Threads : pc'[t] = "cleanup" /\ fOk'[t] => batch'[t] \cap bad' = {}
    BY <1>3, <2>1, <2>5 DEF Add
  <2> QED
    BY <2>3, <2>4, <2>6
<1>4. ASSUME NEW t \in Threads, CleanUp(t)
      PROVE  VerdictInv'
  <2>1. Pending' = Pending \ batch[t]
    BY <1>4 DEF CleanUp, Pending, TodoCountsPending
  <2>2. pc[Master] \notin {"out", "ctor", "aborted"}
    <3>1. batch[t] # {} /\ batch[t] \subseteq Pending
      BY <1>4 DEF CleanUp, BatchInv, Pending
    <3> QED
      BY <3>1, Finiteness, FS_EmptySet DEF TodoCountsPending, RestInv
  <2>3. fAllOk' => (added' \ Pending') \cap bad' = {}
    BY <1>4, <2>1, <2>2 DEF CleanUp
  <2>4. ~fAllOk' => bad' # {}
    BY <1>4 DEF CleanUp
  <2>5. \A u \in Threads : /\ pc'[u] \in {"run", "cleanup"} => u # t /\ pc'[u] = pc[u]
                           /\ u # t => batch'[u] = batch[u]
    BY <1>4 DEF CleanUp, Threads
  <2>6. /\ \A u \in Threads : pc'[u] \in {"run", "cleanup"} /\ ~fOk'[u] => bad' # {}
        /\ \A u \in Threads : pc'[u] = "cleanup" /\ fOk'[u] => batch'[u] \cap bad' = {}
    BY <1>4, <2>5 DEF CleanUp
  <2> QED
    BY <1>4, <2>1, <2>3, <2>4, <2>6 DEF CleanUp
<1>5. CASE Return
  <2>1. Pending' = Pending
    BY <1>5 DEF Return, Pending
  <2>2. \A t \in Threads : pc'[t] \in {"run", "cleanup"} => pc'[t] = pc[t]
    BY <1>5 DEF Return, Threads
  <2>3. pc'[Master] = "out" /\ fAllOk' = TRUE
    BY <1>5 DEF Return, Threads
  <2> QED
    BY <1>5, <2>1, <2>2, <2>3 DEF Return
<1>6. ASSUME NEW t \in Threads, Take(t)
      PROVE  VerdictInv'
  <2>1. PICK vChecks \in SUBSET queue :
             /\ batch' = [batch EXCEPT ![t] = vChecks]
             /\ queue' = queue \ vChecks
    BY <1>6 DEF Take
  <2>2. batch[t] = {}
    BY <1>6 DEF Take, BatchInv
  <2>3. Pending' = Pending
    BY <2>1, <2>2 DEF Pending
  <2> QED
    BY <1>6, <2>1, <2>3 DEF Take, Threads
<1>7. ASSUME NEW t \in Threads, Execute(t)
      PROVE  VerdictInv'
  <2>1. Pending' = Pending /\ batch[t] \subseteq Pending
    BY <1>7 DEF Execute, Pending
  <2>2. fOk'[t] = (fOk[t] /\ batch[t] \cap bad = {})
    BY <1>7 DEF Execute
  <2>3. \A u \in Threads : u # t => fOk'[u] = fOk[u] /\ pc'[u] = pc[u]
    BY <1>7 DEF Execute
  <2> QED
    BY <1>7, <2>1, <2>2, <2>3 DEF Execute, Threads
<1>8. ASSUME NEW t \in Threads,
             \/ FirstIteration(t) \/ Sleep(t) \/ SpuriousWakeUp(t) \/ Reacquire(t)
             \/ WakeUp(t) \/ Interrupted(t)
      PROVE  VerdictInv'
  <2>1. Pending' = Pending
    BY <1>8 DEF FirstIteration, Sleep, SpuriousWakeUp, Reacquire, WakeUp, Interrupted,
                Pending
  <2>2. /\ added' = added /\ bad' = bad /\ batch' = batch /\ fAllOk' = fAllOk
        /\ \A u \in Threads : u # t => fOk'[u] = fOk[u] /\ pc'[u] = pc[u]
        /\ pc'[t] \notin {"run", "cleanup", "out", "ctor"}
        /\ pc[t] \notin {"out", "ctor"}
    BY <1>8 DEF FirstIteration, Sleep, SpuriousWakeUp, Reacquire, WakeUp, Interrupted
  <2> QED
    BY <2>1, <2>2 DEF Threads
<1> QED
  BY <1>1, <1>2, <1>3, <1>4, <1>5, <1>6, <1>7, <1>8 DEF Next, Locking, Running, Aborted

-----------------------------------------------------------------------------
(* The invariant holds in every reachable state. *)
THEOREM Invariance == Spec => []IInv
<1>1. IInv /\ [Next]_vars => IInv'
  BY TypeStep, ControlStep, CountStep, BusyStep, RestStep, VerdictStep DEF IInv
<1> QED
  BY InitInv, <1>1, PTL DEF Spec

(* Type correctness. *)
THEOREM Typing == Spec => []TypeOK
<1>1. IInv => TypeOK
  BY DEF IInv
<1> QED
  BY Invariance, <1>1, PTL

(* nTodo counts the checks that are queued or in a batch, for any number   *)
(* of threads and checks.                                                  *)
THEOREM TodoCorrect == Spec => []TodoCountsPending
<1>1. IInv => TodoCountsPending
  BY DEF IInv
<1> QED
  BY Invariance, <1>1, PTL

(* After Wait() nothing of the block is queued or running (the promise of  *)
(* CCheckQueueControl, "guarantees the passed queue is finished").         *)
THEOREM Finished == Spec => []QueueFinished
<1>1. IInv => QueueFinished
  BY Finiteness, FS_EmptySet DEF IInv, RestInv, TodoCountsPending, QueueFinished
<1> QED
  BY Invariance, <1>1, PTL

(* The constructor's first assertion would hold if it took the mutex. *)
THEOREM IdleAtRest == Spec => []IdleWhenUnlocked
<1>1. IInv => IdleWhenUnlocked
  <2> SUFFICES ASSUME IInv, mutex = NoThread, pc[Master] \in {"out", "ctor"}
               PROVE  nTotal = nIdle
    BY DEF IdleWhenUnlocked
  <2>1. Pending = {}
    BY Finiteness, FS_EmptySet DEF IInv, RestInv, TodoCountsPending
  <2>2. \A t \in Threads : pc[t] \notin {"run", "cleanup"}
    BY <2>1 DEF IInv, BatchInv, Pending
  <2>3. \A t \in Threads : pc[t] # "test"
    BY ThreadsAssumption DEF IInv, MutexInv, Threads
  <2>4. Busy = {}
    BY <2>2, <2>3 DEF Busy
  <2> QED
    BY <2>4, FS_EmptySet DEF IInv, BusyInv, TypeOK
<1> QED
  BY Invariance, <1>1, PTL

(* When the master leaves the loop all checks are accounted for and the    *)
(* shared result is their conjunction.                                     *)
LEMMA VerdictAction ==
  IInv /\ [Next]_vars =>
    [(pc[Master] = "test" /\ pc'[Master] = "out") => (fRet' <=> bad = {})]_vars
<1> SUFFICES ASSUME IInv, Next, pc[Master] = "test", pc'[Master] = "out"
             PROVE  fRet' <=> bad = {}
  BY DEF vars
<1> USE ThreadsAssumption DEF IInv, TypeOK
<1>1. CASE Return
  <2>1. Pending = {}
    BY <1>1, Finiteness, FS_EmptySet DEF Return, TodoCountsPending
  <2>2. fAllOk <=> bad = {}
    BY <2>1 DEF VerdictInv
  <2> QED
    BY <1>1, <2>2 DEF Return
<1>2. CASE CtorReadTotal \/ CtorAsserts \/ Wait \/ InterruptAll \/ Aborted
  BY <1>2 DEF CtorReadTotal, CtorAsserts, Wait, InterruptAll, Aborted, vars
<1>3. ASSUME NEW vChecks, NEW vBad, Add(vChecks, vBad)
      PROVE  FALSE
  BY <1>3 DEF Add
<1>4. ASSUME NEW t \in Threads,
             \/ FirstIteration(t) \/ CleanUp(t) \/ Sleep(t) \/ Take(t) \/ Execute(t)
             \/ SpuriousWakeUp(t) \/ Reacquire(t) \/ WakeUp(t) \/ Interrupted(t)
      PROVE  FALSE
  BY <1>4 DEF FirstIteration, CleanUp, Sleep, Take, Execute, SpuriousWakeUp,
              Reacquire, WakeUp, Interrupted, Threads
<1> QED
  BY <1>1, <1>2, <1>3, <1>4 DEF Next, Locking, Running

(* The verdict of Wait() is the conjunction of the block's checks. *)
THEOREM VerdictCorrect == Spec => VerdictIsConjunction
  BY Invariance, VerdictAction, PTL DEF Spec, VerdictIsConjunction

-----------------------------------------------------------------------------
(* The queue implements the abstract verifier. *)

(* The states of the master that the mapping tells apart. *)
LEMMA PhaseCases ==
  /\ Phase = "closed" <=> pc[Master] \in {"out", "ctor", "aborted"}
  /\ Phase = "open" <=> pc[Master] = "adding"
  /\ Phase = "joining" <=> pc[Master] \notin {"out", "ctor", "aborted", "adding"}
  BY DEF Phase

(* Every step of the queue is a step of the verifier, or a stutter.        *)
LEMMA VerifierStep ==
  ASSUME IInv, [Next]_vars
  PROVE  [Verifier!Next]_(Verifier!vars)
<1> USE ThreadsAssumption
<1>a. ASSUME Phase' = Phase, Pending' = Pending, bad' = bad, fRet' = fRet
      PROVE  UNCHANGED Verifier!vars
  BY <1>a DEF Verifier!vars
<1>1. CASE CtorReadTotal
  <2>1. Phase' = Phase
    BY <1>1 DEF CtorReadTotal, Phase, IInv, TypeOK, Threads
  <2> QED
    BY <1>1, <2>1, <1>a DEF CtorReadTotal, Pending, Goto
<1>2. CASE CtorAsserts
  <2>1. Pending = {} /\ Pending' = {} /\ bad' = {} /\ fRet' = fRet /\ Phase = "closed"
    <3>1. nTodo = 0 /\ nTodo = Cardinality(Pending)
      BY <1>2 DEF CtorAsserts, IInv, RestInv, TodoCountsPending
    <3>2. Pending = {}
      BY <3>1, Finiteness, FS_EmptySet DEF IInv
    <3> QED
      BY <1>2, <3>2, PhaseCases DEF CtorAsserts, Pending
  <2>2. Phase' \in {"closed", "open"}
    BY <1>2 DEF CtorAsserts, Goto, Phase, IInv, TypeOK, Threads
  <2> QED
    BY <2>1, <2>2 DEF Verifier!Next, Verifier!Open, Verifier!vars
<1>3. ASSUME NEW vChecks \in SUBSET (Checks \ added), NEW vBad \in SUBSET vChecks,
             Add(vChecks, vBad)
      PROVE  Verifier!Next
  <2>1. Phase = "open" /\ Phase' = "open"
    BY <1>3 DEF Add, NotifyWorkers, Phase, IInv, TypeOK, Threads
  <2>2. Pending' = Pending \cup vChecks /\ Pending \cap vChecks = {}
    BY <1>3 DEF Add, Pending, IInv, VerdictInv
  <2>3. bad' = bad \cup vBad /\ fRet' = fRet
    BY <1>3 DEF Add
  <2>4. Verifier!Add(vChecks, vBad # {})
    BY <2>1, <2>2, <2>3 DEF Verifier!Add
  <2> QED
    BY <2>4 DEF Verifier!Next
<1>4. CASE Wait
  <2>1. Phase = "open" /\ Phase' = "joining"
    BY <1>4 DEF Wait, Goto, Phase, IInv, TypeOK, Threads
  <2> QED
    BY <1>4, <2>1 DEF Wait, Pending, Verifier!Next, Verifier!Join
<1>5. ASSUME NEW t \in Threads, CleanUp(t)
      PROVE  Verifier!Next
  <2>1. pc[Master] \notin {"out", "ctor", "aborted"}
    <3>1. batch[t] # {}
      BY <1>5 DEF CleanUp, IInv, BatchInv
    <3>2. Pending # {}
      BY <3>1 DEF Pending
    <3> QED
      BY <3>2, Finiteness, FS_EmptySet DEF IInv, RestInv, TodoCountsPending
  <2>2. Phase' = Phase /\ Phase # "closed"
    BY <1>5, <2>1 DEF CleanUp, Phase, IInv, TypeOK, Threads
  <2>3. Pending' = Pending \ batch[t] /\ batch[t] \subseteq Pending
    BY <1>5 DEF CleanUp, Pending, IInv, TypeOK, TodoCountsPending
  <2>4. bad' = bad /\ fRet' = fRet
    BY <1>5 DEF CleanUp
  <2>5. Verifier!Finish(batch[t])
    BY <2>2, <2>3, <2>4 DEF Verifier!Finish
  <2>6. batch[t] \in SUBSET Checks
    BY DEF IInv, TypeOK
  <2> QED
    BY <2>5, <2>6 DEF Verifier!Next
<1>6. CASE Return
  <2>1. Phase = "joining" /\ Phase' = "closed"
    BY <1>6 DEF Return, Goto, Phase, IInv, TypeOK, Threads
  <2>2. Pending = {} /\ Pending' = {}
    <3>1. nTodo = 0 /\ nTodo = Cardinality(Pending)
      BY <1>6 DEF Return, IInv, TodoCountsPending
    <3>2. Pending = {}
      BY <3>1, Finiteness, FS_EmptySet DEF IInv
    <3> QED
      BY <1>6, <3>2 DEF Return, Pending
  <2>3. fRet' = ~(bad # {}) /\ bad' = bad
    <3>1. fAllOk <=> bad = {}
      BY <1>6, <2>2 DEF Return, IInv, TypeOK, VerdictInv
    <3> QED
      BY <1>6, <3>1 DEF Return, IInv, TypeOK
  <2> QED
    BY <2>1, <2>2, <2>3 DEF Verifier!Next, Verifier!Return
<1>7. ASSUME NEW t \in Threads,
             \/ FirstIteration(t) \/ Sleep(t) \/ Take(t) \/ Execute(t)
             \/ SpuriousWakeUp(t) \/ Reacquire(t) \/ WakeUp(t) \/ Interrupted(t)
      PROVE  UNCHANGED Verifier!vars
  <2>1. Phase' = Phase
    BY <1>7 DEF FirstIteration, Sleep, Take, Execute, SpuriousWakeUp, Reacquire,
                WakeUp, Interrupted, Goto, Phase, IInv, TypeOK, Threads
  <2>2. Pending' = Pending /\ bad' = bad
    BY <1>7, PendingStep DEF FirstIteration, Sleep, Take, Execute, SpuriousWakeUp,
                Reacquire, WakeUp, Interrupted, Goto, CtorAsserts, Add, CleanUp,
                IInv, TypeOK, Threads
  <2>3. fRet' = fRet
    BY <1>7 DEF FirstIteration, Sleep, Take, Execute, SpuriousWakeUp, Reacquire,
                WakeUp, Interrupted
  <2> QED
    BY <2>1, <2>2, <2>3, <1>a
<1>8. CASE InterruptAll \/ UNCHANGED vars
  BY <1>8, <1>a DEF InterruptAll, vars, Phase, Pending
<1> QED
  BY <1>1, <1>2, <1>3, <1>4, <1>5, <1>6, <1>7, <1>8 DEF Next, Locking, Running, Aborted

(* For any number of workers, any checks and any batch size the queue      *)
(* implements the abstract verifier.                                       *)
THEOREM Refinement == Spec => ImplementsVerifier
<1>1. Init => Verifier!Init
  BY ThreadsAssumption DEF Init, Verifier!Init, Phase, Pending, Threads
<1>2. IInv /\ [Next]_vars => [Verifier!Next]_(Verifier!vars)
  BY VerifierStep
<1> QED
  BY Invariance, <1>1, <1>2, PTL DEF Spec, ImplementsVerifier, Verifier!Spec
=============================================================================
