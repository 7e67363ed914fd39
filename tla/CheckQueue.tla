----------------------------- MODULE CheckQueue -----------------------------
(***************************************************************************)
(* CCheckQueue and CCheckQueueControl (checkqueue.h): the pool of threads  *)
(* that runs the script checks of a block.  ConnectBlock is the master: it *)
(* builds a control object, hands batches of checks to Add while it walks  *)
(* the transactions, and joins the workers in Wait.                        *)
(*                                                                         *)
(* The mutex is explicit, and what a thread does while it holds the mutex  *)
(* is cut where the constructor of CCheckQueueControl, which reads the     *)
(* counters without the mutex, can see the difference.  The vector of      *)
(* queued checks is a set ("the order of booleans doesn't matter"), so the *)
(* batch a thread takes is any subset of the right size.                   *)
(***************************************************************************)
EXTENDS Integers, FiniteSets

CONSTANTS
    Workers,        \* the threads that run ThreadScriptCheck
    Master,         \* the thread in ConnectBlock
    NoThread,       \* the holder of a free mutex
    Checks,         \* the script checks that one block may hold
    nBatchSize      \* the largest batch one thread takes

ASSUME ThreadsAssumption == Master \notin Workers /\ IsFiniteSet(Workers)
                            /\ NoThread \notin Workers \cup {Master}
ASSUME ChecksAssumption  == IsFiniteSet(Checks)
ASSUME BatchAssumption   == nBatchSize \in Nat \ {0}

VARIABLES
    pc,             \* where each thread is
    mutex,          \* the holder of CCheckQueue::mutex, or NoThread
    queue,          \* the checks nobody has taken yet
    batch,          \* the checks a thread has taken and not yet accounted for
    fOk,            \* the local result of a thread's batch
    nIdle,          \* shared counters and result, as in the class
    nTotal,
    nTodo,
    fAllOk,
    added,          \* the checks the master added for this block
    bad,            \* those of them that evaluate to false
    fRet,           \* what the last Wait() returned
    nSeen,          \* nTotal as the constructor's assertion has read it
    fShutdown,      \* interrupt_all() has been called
    interrupted     \* the threads whose interruption is still to be delivered

ctrs == <<nIdle, nTotal, nTodo>>
work == <<queue, batch>>
done == <<fAllOk, fRet, added, bad>>
intr == <<fShutdown, interrupted>>
vars == <<pc, mutex, work, fOk, ctrs, done, nSeen, intr>>

Threads == Workers \cup {Master}

(* Threads inside Loop() for which nTotal has been raised. *)
InLoop == {"test", "run", "cleanup", "wait", "woken", "wake"}

WorkerPC == {"first", "gone"} \cup InLoop
MasterPC == {"out", "ctor", "adding", "first", "aborted"} \cup InLoop

Pending == queue \cup UNION {batch[t] : t \in Threads}

Minimum(a, b) == IF a < b THEN a ELSE b
Maximum(a, b) == IF a > b THEN a ELSE b

(* The number of checks the next batch holds. *)
BatchSize ==
    Maximum(1, Minimum(nBatchSize, Cardinality(queue) \div (nTotal + nIdle + 1)))

-----------------------------------------------------------------------------
Init ==
    /\ pc = [t \in Threads |-> IF t = Master THEN "out" ELSE "first"]
    /\ mutex = NoThread
    /\ queue = {} /\ batch = [t \in Threads |-> {}]
    /\ fOk = [t \in Threads |-> TRUE]
    /\ nIdle = 0 /\ nTotal = 0 /\ nTodo = 0
    /\ fAllOk = TRUE /\ fRet = TRUE /\ added = {} /\ bad = {}
    /\ nSeen = 0
    /\ fShutdown = FALSE /\ interrupted = {}

Alive      == pc[Master] # "aborted"
Goto(t, l) == pc' = [pc EXCEPT ![t] = l]
Lock(t)    == mutex = NoThread /\ mutex' = t
Unlock     == mutex' = NoThread

-----------------------------------------------------------------------------
(* CCheckQueueControl: the master's side. *)

(* assert(nTotal == nIdle): the left operand is read, without the mutex. *)
CtorReadTotal ==
    /\ pc[Master] = "out"
    /\ nSeen' = nTotal
    /\ Goto(Master, "ctor")
    /\ UNCHANGED <<mutex, work, fOk, ctrs, done, intr>>

(* The right operand and the other two assertions; a failure aborts. *)
CtorAsserts ==
    /\ pc[Master] = "ctor"
    /\ Goto(Master, IF nSeen = nIdle /\ nTodo = 0 /\ fAllOk = TRUE
                    THEN "adding" ELSE "aborted")
    /\ added' = {} /\ bad' = {}
    /\ UNCHANGED <<mutex, work, fOk, ctrs, fAllOk, fRet, nSeen, intr>>

(* n waiters of condWorker are notified; any n, the library chooses. *)
NotifyWorkers(n) ==
    LET waiting == {w \in Workers : pc[w] = "wait"}
    IN  \E S \in SUBSET waiting :
          /\ Cardinality(S) = Minimum(n, Cardinality(waiting))
          /\ pc' = [t \in Threads |-> IF t \in S THEN "woken" ELSE pc[t]]

(* Add(vChecks): one critical section.  The constructor that reads without *)
(* the mutex runs in this same thread, so there is nothing to cut.         *)
Add(vChecks, vBad) ==
    /\ pc[Master] = "adding"
    /\ mutex = NoThread
    /\ queue' = queue \cup vChecks
    /\ nTodo' = nTodo + Cardinality(vChecks)
    /\ NotifyWorkers(IF Cardinality(vChecks) > 1 THEN Cardinality(Workers)
                                                 ELSE Cardinality(vChecks))
    /\ added' = added \cup vChecks
    /\ bad' = bad \cup vBad
    /\ UNCHANGED <<mutex, batch, fOk, nIdle, nTotal, fAllOk, fRet, nSeen, intr>>

(* Wait(), called by ConnectBlock or by ~CCheckQueueControl. *)
Wait ==
    /\ pc[Master] = "adding"
    /\ Goto(Master, "first")
    /\ UNCHANGED <<mutex, work, fOk, ctrs, done, nSeen, intr>>

-----------------------------------------------------------------------------
(* Loop(fMaster), one action per stretch that other threads can tell apart. *)

(* First iteration: lock, nTotal++. *)
FirstIteration(t) ==
    /\ pc[t] = "first"
    /\ Lock(t)
    /\ nTotal' = nTotal + 1
    /\ fOk' = [fOk EXCEPT ![t] = TRUE]
    /\ Goto(t, "test")
    /\ UNCHANGED <<work, nIdle, nTodo, done, nSeen, intr>>

(* Mutants of CleanUp: one check is discounted for the whole batch; the    *)
(* last batch overwrites the verdict; the master is not notified.          *)
CleanUpCountsOne(t) ==
    /\ pc[t] = "cleanup"
    /\ Lock(t)
    /\ fAllOk' = (fAllOk /\ fOk[t])
    /\ nTodo' = nTodo - 1
    /\ batch' = [batch EXCEPT ![t] = {}]
    /\ LET notify == nTodo' = 0 /\ t # Master /\ pc[Master] = "wait"
       IN  pc' = [pc EXCEPT ![t] = "test", ![Master] = IF notify THEN "woken" ELSE @]
    /\ UNCHANGED <<queue, fOk, nIdle, nTotal, fRet, added, bad, nSeen, intr>>

CleanUpOverwrites(t) ==
    /\ pc[t] = "cleanup"
    /\ Lock(t)
    /\ fAllOk' = fOk[t]
    /\ nTodo' = nTodo - Cardinality(batch[t])
    /\ batch' = [batch EXCEPT ![t] = {}]
    /\ LET notify == nTodo' = 0 /\ t # Master /\ pc[Master] = "wait"
       IN  pc' = [pc EXCEPT ![t] = "test", ![Master] = IF notify THEN "woken" ELSE @]
    /\ UNCHANGED <<queue, fOk, nIdle, nTotal, fRet, added, bad, nSeen, intr>>

CleanUpSilent(t) ==
    /\ pc[t] = "cleanup"
    /\ Lock(t)
    /\ fAllOk' = (fAllOk /\ fOk[t])
    /\ nTodo' = nTodo - Cardinality(batch[t])
    /\ batch' = [batch EXCEPT ![t] = {}]
    /\ Goto(t, "test")
    /\ UNCHANGED <<queue, fOk, nIdle, nTotal, fRet, added, bad, nSeen, intr>>

(* Later iterations: lock, account for the batch, notify the master. *)
CleanUp(t) ==
    /\ pc[t] = "cleanup"
    /\ Lock(t)
    /\ fAllOk' = (fAllOk /\ fOk[t])
    /\ nTodo' = nTodo - Cardinality(batch[t])
    /\ batch' = [batch EXCEPT ![t] = {}]
    /\ LET notify == nTodo' = 0 /\ t # Master /\ pc[Master] = "wait"
       IN  pc' = [pc EXCEPT ![t] = "test", ![Master] = IF notify THEN "woken" ELSE @]
    /\ UNCHANGED <<queue, fOk, nIdle, nTotal, fRet, added, bad, nSeen, intr>>

(* Mutants of Return: the master leaves when the queue is empty, with      *)
(* batches still out; the master stays counted in nTotal.                  *)
ReturnEarly ==
    /\ pc[Master] = "test"
    /\ queue = {}
    /\ nTotal' = nTotal - 1
    /\ fRet' = fAllOk
    /\ fAllOk' = TRUE
    /\ Unlock
    /\ Goto(Master, "out")
    /\ UNCHANGED <<work, fOk, nIdle, nTodo, added, bad, nSeen, intr>>

ReturnCounted ==
    /\ pc[Master] = "test"
    /\ queue = {} /\ nTodo = 0
    /\ fRet' = fAllOk
    /\ fAllOk' = TRUE
    /\ Unlock
    /\ Goto(Master, "out")
    /\ UNCHANGED <<work, fOk, nIdle, nTotal, nTodo, added, bad, nSeen, intr>>

(* while (queue.empty()), the master with nothing left to do: return.  A   *)
(* worker never returns here: nothing in the class ever sets fQuit.        *)
Return ==
    /\ pc[Master] = "test"
    /\ queue = {} /\ nTodo = 0
    /\ nTotal' = nTotal - 1
    /\ fRet' = fAllOk
    /\ fAllOk' = TRUE
    /\ Unlock
    /\ Goto(Master, "out")
    /\ UNCHANGED <<work, fOk, nIdle, nTodo, added, bad, nSeen, intr>>

(* while (queue.empty()): nIdle++, and the wait releases the mutex. *)
Sleep(t) ==
    /\ pc[t] = "test"
    /\ queue = {} /\ ~(t = Master /\ nTodo = 0)
    /\ nIdle' = nIdle + 1
    /\ Unlock
    /\ Goto(t, "wait")
    /\ UNCHANGED <<work, fOk, nTotal, nTodo, done, nSeen, intr>>

(* Take a batch and release the mutex. *)
Take(t) ==
    /\ pc[t] = "test"
    /\ queue # {}
    /\ \E vChecks \in SUBSET queue :
          /\ Cardinality(vChecks) = BatchSize
          /\ batch' = [batch EXCEPT ![t] = vChecks]
          /\ queue' = queue \ vChecks
    /\ fOk' = [fOk EXCEPT ![t] = fAllOk]
    /\ Unlock
    /\ Goto(t, "run")
    /\ UNCHANGED <<ctrs, done, nSeen, intr>>

(* Run the checks of the batch, until one fails. *)
Execute(t) ==
    /\ pc[t] = "run"
    /\ fOk' = [fOk EXCEPT ![t] = @ /\ batch[t] \cap bad = {}]
    /\ Goto(t, "cleanup")
    /\ UNCHANGED <<mutex, work, ctrs, done, nSeen, intr>>

(* A condition variable may return from wait() without a notification. *)
SpuriousWakeUp(t) ==
    /\ pc[t] = "wait"
    /\ Goto(t, "woken")
    /\ UNCHANGED <<mutex, work, fOk, ctrs, done, nSeen, intr>>

(* cond.wait takes the mutex again before it returns ... *)
Reacquire(t) ==
    /\ pc[t] = "woken"
    /\ Lock(t)
    /\ Goto(t, "wake")
    /\ UNCHANGED <<work, fOk, ctrs, done, nSeen, intr>>

(* ... and nIdle-- follows. *)
WakeUp(t) ==
    /\ pc[t] = "wake"
    /\ nIdle' = nIdle - 1
    /\ Goto(t, "test")
    /\ UNCHANGED <<mutex, work, fOk, nTotal, nTodo, done, nSeen, intr>>

-----------------------------------------------------------------------------
(* Shutdown and assertion failure. *)

(* DetectShutdownThread: threadGroup->interrupt_all(). *)
InterruptAll ==
    /\ Alive
    /\ ~fShutdown
    /\ fShutdown' = TRUE
    /\ interrupted' = Threads
    /\ UNCHANGED <<pc, mutex, work, fOk, ctrs, done, nSeen>>

(* Mutant of Interrupted: the destructor does not call Wait(). *)
InterruptedForGood(t) ==
    /\ t \in interrupted
    /\ pc[t] \in {"wait", "woken"}
    /\ mutex = NoThread
    /\ interrupted' = interrupted \ {t}
    /\ Goto(t, "gone")
    /\ UNCHANGED <<mutex, work, fOk, ctrs, done, nSeen, fShutdown>>

(* cond.wait throws thread_interrupted, with the mutex held again, which   *)
(* the stack unwinding releases.  nIdle and nTotal go on counting the      *)
(* thread.  A worker is gone; the master unwinds ConnectBlock, where       *)
(* ~CCheckQueueControl finds fDone false and calls Wait() once more.       *)
Interrupted(t) ==
    /\ t \in interrupted
    /\ pc[t] \in {"wait", "woken"}
    /\ mutex = NoThread
    /\ interrupted' = interrupted \ {t}
    /\ Goto(t, IF t = Master THEN "first" ELSE "gone")
    /\ UNCHANGED <<mutex, work, fOk, ctrs, done, nSeen, fShutdown>>

(* A failed assertion ends the process; nothing happens any more. *)
Aborted ==
    /\ pc[Master] = "aborted"
    /\ UNCHANGED vars

-----------------------------------------------------------------------------
(* What a thread does in Loop() when it waits for the mutex, when it has   *)
(* it or runs checks, and what only the library decides.                   *)
Locking(t) == FirstIteration(t) \/ CleanUp(t) \/ Reacquire(t)
Running(t) == Sleep(t) \/ Take(t) \/ Execute(t) \/ WakeUp(t) \/ (t = Master /\ Return)

Next ==
    \/ CtorReadTotal
    \/ CtorAsserts
    \/ \E vChecks \in SUBSET (Checks \ added) :
          \E vBad \in SUBSET vChecks : Add(vChecks, vBad)
    \/ Wait
    \/ \E t \in Threads :
          /\ Alive
          /\ Locking(t) \/ Running(t) \/ SpuriousWakeUp(t) \/ Interrupted(t)
    \/ InterruptAll
    \/ Aborted

Spec == Init /\ [][Next]_vars

(* The scheduler runs every runnable thread, a mutex that is free again    *)
(* and again is granted to every thread that asks for it, and a check      *)
(* terminates.  Spurious wake-ups and interruptions are never promised.    *)
Fairness ==
    \A t \in Threads : SF_vars(Alive /\ Locking(t)) /\ WF_vars(Alive /\ Running(t))

LiveSpec == Spec /\ Fairness

-----------------------------------------------------------------------------
TypeOK ==
    /\ pc \in [Threads -> WorkerPC \cup MasterPC]
    /\ pc[Master] \in MasterPC
    /\ \A w \in Workers : pc[w] \in WorkerPC
    /\ mutex \in Threads \cup {NoThread}
    /\ queue \subseteq Checks
    /\ batch \in [Threads -> SUBSET Checks]
    /\ fOk \in [Threads -> BOOLEAN]
    /\ nIdle \in Int /\ nTotal \in Int /\ nTodo \in Int
    /\ fAllOk \in BOOLEAN
    /\ added \subseteq Checks /\ bad \subseteq added
    /\ fRet \in BOOLEAN
    /\ nSeen \in Int
    /\ fShutdown \in BOOLEAN /\ interrupted \subseteq Threads

(* The control object as ConnectBlock sees it. *)
Phase ==
    CASE pc[Master] \in {"out", "ctor", "aborted"} -> "closed"
      [] pc[Master] = "adding" -> "open"
      [] OTHER -> "joining"

Verifier == INSTANCE BlockVerifier
            WITH phase <- Phase, unfinished <- Pending, verdict <- fRet,
                 fBad <- (Phase # "closed" /\ bad # {})

(* The queue implements the abstract verifier: whichever threads take the  *)
(* checks, whatever batches they form, whoever is interrupted, a check is  *)
(* accounted for once, only while the control object is there, and Wait()  *)
(* returns after all of them with the conjunction of their results.        *)
ImplementsVerifier == Verifier!Spec

(* The verdict Wait() hands to ConnectBlock is the conjunction of exactly  *)
(* the checks added for this block, whichever threads ran them, even       *)
(* though a failure makes later batches skip their checks.                 *)
VerdictIsConjunction ==
    [][(pc[Master] = "test" /\ pc'[Master] = "out") => (fRet' <=> bad = {})]_vars

(* When Wait() has returned no thread still holds or will run a check of   *)
(* the block: the transactions the checks point to may be freed.           *)
QueueFinished ==
    pc[Master] \in {"out", "ctor"} => Pending = {} /\ nTodo = 0 /\ fAllOk

(* nTodo counts every check that is queued or in somebody's batch, each    *)
(* once: it reaches zero when the block is done, and not before.           *)
TodoCountsPending ==
    /\ nTodo = Cardinality(Pending)
    /\ \A t \in Threads : batch[t] \cap queue = {}
    /\ \A t, u \in Threads : t # u => batch[t] \cap batch[u] = {}

(* Read under the mutex, the first assertion of the constructor would be   *)
(* right: with the queue at rest every worker in the pool is idle.         *)
IdleWhenUnlocked ==
    (mutex = NoThread /\ pc[Master] \in {"out", "ctor"}) => nTotal = nIdle

(* Wait() returns: no wake-up is lost, even when workers are interrupted   *)
(* while the block is being checked.                                       *)
WaitReturns == (pc[Master] = "first") ~> (pc[Master] = "out")

(* The assertions of the constructor ("passed queue is supposed to be      *)
(* unused") hold: they never abort the process.                            *)
ControlAssertionsHold == pc[Master] # "aborted"
=============================================================================
