----------------------------- MODULE WalletLock -----------------------------
(* The lock of an encrypted wallet: walletpassphrase unlocks it and starts *)
(* a thread that locks it again, walletlock locks it at once, and          *)
(* walletpassphrasechange locks and unlocks it on its way.  The commands   *)
(* hold cs_main and cs_wallet and exclude one another; the relocking       *)
(* threads hold only cs_nWalletUnlockTime, and Lock and Unlock only        *)
(* cs_KeyStore.  A command refused for a wrong passphrase before it        *)
(* changed anything is not a step.                                         *)
EXTENDS Integers

CONSTANTS
    Threads,    \* the relocking threads that exist at one time
    Timeouts,   \* the timeouts walletpassphrase is given
    MaxTime     \* no walletpassphrase comes after this time

ASSUME TimeoutsAssumption == Timeouts \subseteq Nat
ASSUME MaxTimeAssumption == MaxTime \in Nat

VARIABLES
    now,                \* GetTimeMillis()
    fLocked,            \* vMasterKey is empty
    nWalletUnlockTime,  \* when the wallet is to be locked, or 0
    phase,              \* of each thread
    at,                 \* its timeout; its nMyWakeTime; when it wakes up
    change,             \* where ChangeWalletPassphrase is
    fWasLocked,         \* its local
    promised,           \* history: the latest wake time a thread entered
    fUntimed            \* history: a command unlocked and left no one to relock

threads == <<nWalletUnlockTime, phase, at>>
changes == <<change, fWasLocked>>
vars    == <<now, fLocked, threads, changes, promised, fUntimed>>

Later(s, t) == IF s < t THEN t ELSE s

(* Unlock, and the new thread with its timeout. *)
walletpassphrase(t, nSleepTime) ==
    /\ change = "idle" /\ fLocked /\ now <= MaxTime
    /\ phase[t] = "free"
    /\ fLocked' = FALSE /\ fUntimed' = FALSE
    /\ phase' = [phase EXCEPT ![t] = "new"]
    /\ at' = [at EXCEPT ![t] = nSleepTime]
    /\ UNCHANGED <<now, nWalletUnlockTime, changes, promised>>

(* The timeout is not a number, which get_int64 finds after the Unlock. *)
walletpassphraseThrows ==
    /\ change = "idle" /\ fLocked
    /\ fLocked' = FALSE /\ fUntimed' = TRUE
    /\ UNCHANGED <<now, threads, changes, promised>>

walletlock ==
    /\ change = "idle"
    /\ fLocked' = TRUE /\ fUntimed' = FALSE
    /\ nWalletUnlockTime' = 0
    /\ promised' = 0
    /\ UNCHANGED <<now, phase, at, changes>>

(* ThreadCleanWalletPassphrase reads the clock before it waits for the     *)
(* critical section.                                                       *)
Start(t) ==
    /\ phase[t] = "new"
    /\ phase' = [phase EXCEPT ![t] = "started"]
    /\ at' = [at EXCEPT ![t] = now + @]
    /\ UNCHANGED <<now, fLocked, nWalletUnlockTime, changes, promised, fUntimed>>

End(t) ==
    /\ phase' = [phase EXCEPT ![t] = "free"]
    /\ at' = [at EXCEPT ![t] = 0]

(* The thread ends with Lock().  A change that found the wallet unlocked   *)
(* and has not unlocked it yet will unlock it after that.                  *)
Relock(t) ==
    /\ End(t)
    /\ nWalletUnlockTime' = 0
    /\ fLocked' = TRUE
    /\ fUntimed' = (change \in {"read", "locked"} /\ ~fWasLocked)
    /\ promised' = 0

Sleep(t, until) ==
    /\ phase' = [phase EXCEPT ![t] = "asleep"]
    /\ at' = [at EXCEPT ![t] = until]
    /\ nWalletUnlockTime' = until
    /\ UNCHANGED <<fLocked, fUntimed>>

(* It enters the critical section: the first thread sleeps, a later one    *)
(* leaves its time to the thread that does.                                *)
Enter(t) ==
    /\ phase[t] = "started"
    /\ \/ /\ nWalletUnlockTime = 0 /\ at[t] > now
          /\ Sleep(t, at[t])
          /\ promised' = Later(promised, at[t])
       \/ /\ nWalletUnlockTime = 0 /\ at[t] <= now
          /\ Relock(t)
       \/ /\ nWalletUnlockTime # 0
          /\ nWalletUnlockTime' = Later(nWalletUnlockTime, at[t])
          /\ End(t)
          /\ promised' = Later(promised, at[t])
          /\ UNCHANGED <<fLocked, fUntimed>>
    /\ UNCHANGED <<now, changes>>

(* Mutant: a thread locks the wallet at the time it went to sleep for. *)
WakeStale(t) ==
    /\ phase[t] = "asleep" /\ at[t] <= now
    /\ Relock(t)
    /\ UNCHANGED <<now, changes>>

(* Mutant: a thread that finds the time moved leaves the wallet to others. *)
WakeOnce(t) ==
    /\ phase[t] = "asleep" /\ at[t] <= now
    /\ IF nWalletUnlockTime \in 1 .. now
       THEN Relock(t)
       ELSE End(t) /\ UNCHANGED <<fLocked, nWalletUnlockTime, promised, fUntimed>>
    /\ UNCHANGED <<now, changes>>

(* It wakes up and reads nWalletUnlockTime again. *)
Wake(t) ==
    /\ phase[t] = "asleep" /\ at[t] <= now
    /\ \/ /\ nWalletUnlockTime = 0
          /\ End(t)
          /\ UNCHANGED <<fLocked, nWalletUnlockTime, promised, fUntimed>>
       \/ /\ nWalletUnlockTime > now
          /\ Sleep(t, nWalletUnlockTime)
          /\ UNCHANGED promised
       \/ /\ nWalletUnlockTime \in 1 .. now
          /\ Relock(t)
    /\ UNCHANGED <<now, changes>>

(* ChangeWalletPassphrase: fWasLocked = IsLocked(). *)
ChangeRead ==
    /\ change = "idle"
    /\ change' = "read" /\ fWasLocked' = fLocked
    /\ UNCHANGED <<now, fLocked, threads, promised, fUntimed>>

ChangeLock ==
    /\ change = "read"
    /\ change' = "locked" /\ fLocked' = TRUE
    /\ UNCHANGED <<now, threads, fWasLocked, promised, fUntimed>>

ChangeReturn ==
    /\ change' = "idle" /\ fWasLocked' = FALSE

(* The old passphrase is wrong: the wallet stays locked. *)
ChangeRefused ==
    /\ change = "locked"
    /\ ChangeReturn
    /\ fUntimed' = FALSE
    /\ UNCHANGED <<now, fLocked, threads, promised>>

ChangeUnlock ==
    /\ change = "locked"
    /\ change' = "unlocked" /\ fLocked' = FALSE
    /\ UNCHANGED <<now, threads, fWasLocked, promised, fUntimed>>

(* The new master key is written, and a locked wallet locked again. *)
ChangeDone ==
    /\ change = "unlocked"
    /\ ChangeReturn
    /\ fLocked' = (fLocked \/ fWasLocked)
    /\ UNCHANGED <<now, threads, promised, fUntimed>>

(* The cipher fails on the new passphrase, and the function returns before *)
(* it locks the wallet again.                                              *)
ChangeAborts ==
    /\ change = "unlocked"
    /\ ChangeReturn
    /\ fUntimed' = (fUntimed \/ (~fLocked /\ fWasLocked))
    /\ UNCHANGED <<now, fLocked, threads, promised>>

(* Time goes on up to MaxTime, and then while a thread sleeps. *)
Tick ==
    /\ now < MaxTime + 1 \/ \E t \in Threads : phase[t] = "asleep" /\ at[t] > now
    /\ now' = now + 1
    /\ UNCHANGED <<fLocked, threads, changes, promised, fUntimed>>

(* An encrypted wallet is loaded locked. *)
Init ==
    /\ now = 1
    /\ fLocked = TRUE
    /\ nWalletUnlockTime = 0
    /\ phase = [t \in Threads |-> "free"] /\ at = [t \in Threads |-> 0]
    /\ change = "idle" /\ fWasLocked = FALSE
    /\ promised = 0 /\ fUntimed = FALSE

Change == ChangeLock \/ ChangeRefused \/ ChangeUnlock \/ ChangeDone \/ ChangeAborts

Next ==
    \/ \E t \in Threads, n \in Timeouts : walletpassphrase(t, n)
    \/ \E t \in Threads : Start(t) \/ Enter(t) \/ Wake(t)
    \/ walletpassphraseThrows \/ walletlock \/ ChangeRead \/ Change \/ Tick

(* The clock goes on, a thread that can run does, and a command that has   *)
(* begun returns; nobody has to issue a command.                           *)
Fairness ==
    /\ WF_vars(Tick) /\ WF_vars(Change)
    /\ \A t \in Threads : WF_vars(Start(t) \/ Enter(t) \/ Wake(t))

Spec == Init /\ [][Next]_vars /\ Fairness

(* A relocking thread never locks an unlocked wallet before the time that  *)
(* any walletpassphrase asked for whose thread has got as far as           *)
(* nWalletUnlockTime, be it an older thread, a later or a shorter call:    *)
(* the loop of ThreadCleanWalletPassphrase reads the time again.           *)
RelockNotEarly ==
    [][(phase' # phase /\ ~fLocked /\ fLocked') => promised <= now]_vars

(* An unlocked wallet is locked again, whatever commands come in between   *)
(* and in whatever order the threads run, except after a change of the     *)
(* passphrase that unlocked it behind the relocking thread, or that the    *)
(* cipher failed (ChangeWalletPassphrase looks at fWasLocked only), and    *)
(* after a walletpassphrase whose timeout is not a number.                 *)
WalletRelocks ==
    (~fLocked /\ ~fUntimed) ~> (fLocked \/ fUntimed)

(* Does not hold: "Stores the wallet decryption key in memory for         *)
(* <timeout> seconds." (rpcwallet.cpp:1329): an unlocked wallet is always  *)
(* locked again.                                                           *)
WalletAlwaysRelocks ==
    ~fLocked ~> fLocked
=============================================================================
