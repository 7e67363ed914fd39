------------------------------ MODULE KeyPool ------------------------------
(***************************************************************************)
(* The key pool of the wallet (wallet.cpp): keys that are generated ahead  *)
(* of use, numbered, written to wallet.dat as "pool" records, reserved by  *)
(* whoever builds a transaction or a block, and then kept or returned.     *)
(*                                                                         *)
(* setKeyPool and the reservations are in memory, the records on disk; a   *)
(* reservation takes the index out of setKeyPool and leaves the record     *)
(* until KeepKey erases it.  All but KeepKey runs under cs_wallet; the     *)
(* relocking thread does not take it, but has no work before the wallet is *)
(* encrypted.                                                              *)
(* EncryptWallet holds cs_wallet while it replaces the pool record by      *)
(* record; pc tells how far it is.                                         *)
(*                                                                         *)
(* Keys are numbered in the order of their generation.  A CReserveKey is a *)
(* member of Holders; GetOldestKeyPoolTime is one that always returns.     *)
(***************************************************************************)
EXTENDS Integers, FiniteSets

CONSTANTS Holders,      \* the CReserveKey objects
          TargetSize,   \* -keypool
          MaxKeys       \* a bound on the keys generated

ASSUME TargetSizeAssumption == TargetSize \in Nat
ASSUME MaxKeysAssumption == MaxKeys \in Nat

VARIABLES
    setKeyPool,     \* the indices that may be reserved
    pool,           \* the "pool" records of wallet.dat: index to key
    nKeys,          \* the number of keys generated so far
    nIndex,         \* CReserveKey::nIndex, -1 for none
    vchPubKey,      \* CReserveKey::vchPubKey, 0 for none
    vchDefaultKey,
    fCrypted, fLocked,
    fStaleKey,      \* an attempt to encrypt left its key in mapMasterKeys
    pc,             \* EncryptWallet: "idle", "erase", "write" or "rewrite"
    used,           \* history: the keys that were kept
    doubtful,       \* history: the indices last given out while reserved, or
                    \* without a record
    nOldKeys,       \* history: nKeys when the wallet was encrypted
    oldHeld,        \* history: the keys that were reserved then
    fInterrupted    \* history: the node stopped before they were erased

holders == <<nIndex, vchPubKey>>
crypt   == <<fCrypted, fLocked, fStaleKey, pc, nOldKeys, oldHeld, fInterrupted>>
keyVars == <<setKeyPool, pool, nKeys, holders, vchDefaultKey, crypt, used, doubtful>>

NoIndex == -1
Held(h) == nIndex[h] # NoIndex

-----------------------------------------------------------------------------
(* The index that TopUpKeyPool gives to the next key: the one after the    *)
(* last of setKeyPool, or 1.                                               *)
IsNext(nEnd) ==
    IF setKeyPool = {} THEN nEnd = 1
    ELSE nEnd - 1 \in setKeyPool /\ \A i \in setKeyPool : i < nEnd

Ends == {nEnd \in {1} \cup {i + 1 : i \in setKeyPool} : IsNext(nEnd)}

IsOldest(S, i) == i \in S /\ \A j \in S : i <= j

(* The pool after n keys were generated and written from index nEnd on. *)
Filled(nEnd, n) ==
    LET new == nEnd .. nEnd + n - 1
    IN  [set  |-> setKeyPool \cup new,
         pool |-> [i \in DOMAIN pool \cup new |->
                      IF i \in new THEN nKeys + 1 + i - nEnd ELSE pool[i]],
         keys |-> nKeys + n,
         new  |-> new]

Missing ==
    IF Cardinality(setKeyPool) < TargetSize + 1
    THEN TargetSize + 1 - Cardinality(setKeyPool) ELSE 0

(* What ReserveKeyFromKeyPool finds once it has topped up the pool of an   *)
(* unlocked wallet.                                                        *)
ToppedUp ==
    IF fLocked THEN {Filled(1, 0)} ELSE {Filled(nEnd, Missing) : nEnd \in Ends}

(* The keys were generated, and the record of one in lost was not written. *)
GeneratedBut(kp, lost) ==
    /\ kp.keys <= MaxKeys
    /\ nKeys' = kp.keys
    /\ doubtful' = (doubtful \ kp.new) \cup lost
                        \cup {i \in kp.new : \E h \in Holders : nIndex[h] = i}

Generated(kp) == GeneratedBut(kp, {})

Without(f, i) == [j \in DOMAIN f \ {i} |-> f[j]]

-----------------------------------------------------------------------------
(* TopUpKeyPool, also from keypoolrefill and ThreadTopUpKeyPool. *)
TopUpKeyPool ==
    /\ pc = "idle" /\ ~fLocked
    /\ \E kp \in ToppedUp :
          /\ Generated(kp)
          /\ setKeyPool' = kp.set
          /\ pool' = kp.pool
    /\ UNCHANGED <<holders, vchDefaultKey, crypt, used>>

(* A write fails, or the wallet is locked by another thread, after n keys: *)
(* TopUpKeyPool throws out of whatever called it.                          *)
TopUpFails ==
    /\ pc = "idle" /\ ~fLocked
    /\ \E n \in 0 .. Missing - 1 : \E nEnd \in Ends :
          /\ Generated(Filled(nEnd, n))
          /\ setKeyPool' = Filled(nEnd, n).set
          /\ pool' = Filled(nEnd, n).pool
    /\ UNCHANGED <<holders, vchDefaultKey, crypt, used>>

(* Mutant of TakeOldest: the index stays in setKeyPool until the key is    *)
(* kept.                                                                   *)
TakeOldestLater(kp, i) ==
    /\ IsOldest(kp.set, i)
    /\ Generated(kp)
    /\ setKeyPool' = kp.set

(* ReserveKeyFromKeyPool takes the index out before it reads the record. *)
TakeOldest(kp, i) ==
    /\ IsOldest(kp.set, i)
    /\ Generated(kp)
    /\ setKeyPool' = kp.set \ {i}

(* CReserveKey::GetReservedKey, when the record is read. *)
GetReservedKey(h) ==
    /\ pc = "idle" /\ ~Held(h)
    /\ \E kp \in ToppedUp : \E i \in DOMAIN kp.pool :
          /\ TakeOldest(kp, i)
          /\ nIndex' = [nIndex EXCEPT ![h] = i]
          /\ vchPubKey' = [vchPubKey EXCEPT ![h] = kp.pool[i]]
          /\ pool' = kp.pool
    /\ UNCHANGED <<vchDefaultKey, crypt, used>>

(* The record is missing: "read failed" is thrown with nIndex set, and     *)
(* vchPubKey is empty or still a default key.                              *)
ReadFails(h) ==
    /\ pc = "idle" /\ ~Held(h)
    /\ \E kp \in ToppedUp : \E i \in kp.set \ DOMAIN kp.pool :
          /\ TakeOldest(kp, i)
          /\ nIndex' = [nIndex EXCEPT ![h] = i]
          /\ pool' = kp.pool
    /\ UNCHANGED <<vchPubKey, vchDefaultKey, crypt, used>>

(* The pool of a locked wallet is empty: the default key is used instead. *)
GetDefaultKey(h) ==
    /\ pc = "idle" /\ ~Held(h) /\ fLocked /\ setKeyPool = {}
    /\ vchPubKey' = [vchPubKey EXCEPT ![h] = vchDefaultKey]
    /\ UNCHANGED <<setKeyPool, pool, nKeys, nIndex, vchDefaultKey, crypt, used, doubtful>>

(* Mutant of ErasePool: the record is left to be overwritten. *)
KeepRecord(i, p) == p

(* CWallet::KeepKey. *)
ErasePool(i, p) == Without(p, i)

(* GetKeyFromPool, for getnewaddress, or for a new default key when the    *)
(* default key was paid.                                                   *)
GetKeyFromPool ==
    /\ pc = "idle"
    /\ \E kp \in ToppedUp : \E i \in DOMAIN kp.pool :
          /\ TakeOldest(kp, i)
          /\ pool' = ErasePool(i, kp.pool)
          /\ used' = used \cup {kp.pool[i]}
          /\ vchDefaultKey' \in {vchDefaultKey, kp.pool[i]}
    /\ UNCHANGED <<holders, crypt>>

(* ... which drops an index whose record is missing, and throws. *)
GetKeyFails ==
    /\ pc = "idle"
    /\ \E kp \in ToppedUp : \E i \in kp.set \ DOMAIN kp.pool :
          /\ TakeOldest(kp, i)
          /\ pool' = kp.pool
    /\ UNCHANGED <<holders, vchDefaultKey, crypt, used>>

Release(h) ==
    /\ nIndex' = [nIndex EXCEPT ![h] = NoIndex]
    /\ vchPubKey' = [vchPubKey EXCEPT ![h] = 0]

(* CReserveKey::KeepKey: the key is going to be used.  No cs_wallet. *)
KeepKey(h) ==
    /\ Held(h)
    /\ pool' = ErasePool(nIndex[h], pool)
    /\ used' = used \cup {vchPubKey[h]}
    /\ Release(h)
    /\ UNCHANGED <<setKeyPool, nKeys, vchDefaultKey, crypt, doubtful>>

(* CReserveKey::ReturnKey, also from its destructor. *)
ReturnKey(h) ==
    /\ pc = "idle" /\ Held(h)
    /\ setKeyPool' = setKeyPool \cup {nIndex[h]}
    /\ Release(h)
    /\ UNCHANGED <<pool, nKeys, vchDefaultKey, crypt, used, doubtful>>

-----------------------------------------------------------------------------
(* walletlock, and the thread that walletpassphrase starts. *)
Lock ==
    /\ pc = "idle" /\ fCrypted /\ ~fLocked
    /\ fLocked' = TRUE
    /\ UNCHANGED <<setKeyPool, pool, nKeys, holders, vchDefaultKey, fCrypted, fStaleKey, pc, used,
                   doubtful, nOldKeys, oldHeld, fInterrupted>>

Unlock ==
    /\ pc = "idle" /\ fLocked
    /\ fLocked' = FALSE
    /\ UNCHANGED <<setKeyPool, pool, nKeys, holders, vchDefaultKey, fCrypted, fStaleKey, pc, used,
                   doubtful, nOldKeys, oldHeld, fInterrupted>>

(* EncryptWallet adds its master key to mapMasterKeys, and returns when    *)
(* TxnBegin fails.                                                         *)
EncryptFails ==
    /\ pc = "idle" /\ ~fCrypted
    /\ fStaleKey' = TRUE
    /\ UNCHANGED <<setKeyPool, pool, nKeys, holders, vchDefaultKey, fCrypted, fLocked, pc, used,
                   doubtful, nOldKeys, oldHeld, fInterrupted>>

(* EncryptWallet up to the commit of the transaction that holds all keys   *)
(* in encrypted form, and the Unlock that follows, which tries the master  *)
(* keys in order and may give up at a stale one.                           *)
EncryptWallet ==
    /\ pc = "idle" /\ ~fCrypted
    /\ fCrypted' = TRUE
    /\ fLocked' \in IF fStaleKey THEN BOOLEAN ELSE {FALSE}
    /\ pc' = "erase"
    /\ nOldKeys' = nKeys
    /\ oldHeld' = {vchPubKey[h] : h \in {g \in Holders : Held(g)}}
    /\ UNCHANGED <<setKeyPool, pool, nKeys, holders, vchDefaultKey, fStaleKey, used,
                   doubtful, fInterrupted>>

(* NewKeyPool erases the records of setKeyPool, in order ... *)
EraseOld ==
    /\ pc = "erase"
    /\ \E i \in setKeyPool :
          /\ IsOldest(setKeyPool \cap DOMAIN pool, i)
          /\ pool' = Without(pool, i)
    /\ UNCHANGED <<setKeyPool, nKeys, holders, vchDefaultKey, crypt, used, doubtful>>

(* Mutant of ClearOld: the set is cleared before its records are erased. *)
ClearOldFirst ==
    /\ pc = "erase"
    /\ setKeyPool' = {}
    /\ pc' = IF fLocked THEN "rewrite" ELSE "write"
    /\ UNCHANGED <<pool, nKeys, holders, vchDefaultKey, fCrypted, fLocked, fStaleKey, used,
                   doubtful, nOldKeys, oldHeld, fInterrupted>>

(* ... clears it, and gives up if the wallet is locked ... *)
ClearOld ==
    /\ pc = "erase" /\ setKeyPool \cap DOMAIN pool = {}
    /\ setKeyPool' = {}
    /\ pc' = IF fLocked THEN "rewrite" ELSE "write"
    /\ UNCHANGED <<pool, nKeys, holders, vchDefaultKey, fCrypted, fLocked, fStaleKey, used,
                   doubtful, nOldKeys, oldHeld, fInterrupted>>

(* ... and writes a new one from index 1 on.  The result of WritePool is   *)
(* not looked at: when it fails the index has no record, or an old one.    *)
WriteNew ==
    /\ pc = "write" /\ Cardinality(setKeyPool) < TargetSize
    /\ \E nEnd \in Ends :
          /\ \/ Generated(Filled(nEnd, 1)) /\ pool' = Filled(nEnd, 1).pool
             \/ GeneratedBut(Filled(nEnd, 1), {nEnd}) /\ pool' = pool
          /\ setKeyPool' = Filled(nEnd, 1).set
    /\ UNCHANGED <<holders, vchDefaultKey, crypt, used>>

(* GenerateNewKey throws out of EncryptWallet, past its Lock() and Rewrite. *)
NewKeyFails ==
    /\ pc = "write" /\ Cardinality(setKeyPool) < TargetSize
    /\ pc' = "idle"
    /\ UNCHANGED <<setKeyPool, pool, nKeys, holders, vchDefaultKey, fCrypted, fLocked,
                   fStaleKey, used, doubtful, nOldKeys, oldHeld, fInterrupted>>

NewPoolDone ==
    /\ pc = "write" /\ Cardinality(setKeyPool) = TargetSize
    /\ pc' = "rewrite"
    /\ UNCHANGED <<setKeyPool, pool, nKeys, holders, vchDefaultKey, fCrypted, fLocked, fStaleKey, used,
                   doubtful, nOldKeys, oldHeld, fInterrupted>>

(* Lock() and CDB::Rewrite, which keeps every record. *)
Rewrite ==
    /\ pc = "rewrite"
    /\ fLocked' = TRUE
    /\ pc' = "idle"
    /\ UNCHANGED <<setKeyPool, pool, nKeys, holders, vchDefaultKey, fCrypted, fStaleKey, used,
                   doubtful, nOldKeys, oldHeld, fInterrupted>>

(* The process stops at any point and LoadWallet reads the records again. *)
Restart ==
    /\ setKeyPool' = DOMAIN pool
    /\ nIndex' = [h \in Holders |-> NoIndex]
    /\ vchPubKey' = [h \in Holders |-> 0]
    /\ fLocked' = fCrypted /\ fStaleKey' = FALSE
    /\ pc' = "idle"
    /\ doubtful' = {}
    /\ fInterrupted' = (fInterrupted \/ pc = "erase")
    /\ UNCHANGED <<pool, nKeys, vchDefaultKey, fCrypted, used, nOldKeys, oldHeld>>

(* A new wallet, after the first start took its default key: key 1. *)
Init ==
    /\ setKeyPool = 2 .. TargetSize + 1
    /\ pool = [i \in 2 .. TargetSize + 1 |-> i]
    /\ nKeys = TargetSize + 1
    /\ nIndex = [h \in Holders |-> NoIndex]
    /\ vchPubKey = [h \in Holders |-> 0]
    /\ vchDefaultKey = 1
    /\ fCrypted = FALSE /\ fLocked = FALSE /\ fStaleKey = FALSE /\ pc = "idle"
    /\ used = {1}
    /\ doubtful = {}
    /\ nOldKeys = 0 /\ oldHeld = {} /\ fInterrupted = FALSE

Next ==
    \/ TopUpKeyPool \/ TopUpFails
    \/ \E h \in Holders : \/ GetReservedKey(h) \/ ReadFails(h) \/ GetDefaultKey(h)
                          \/ KeepKey(h) \/ ReturnKey(h)
    \/ GetKeyFromPool \/ GetKeyFails
    \/ Lock \/ Unlock
    \/ EncryptFails \/ EncryptWallet \/ EraseOld \/ ClearOld \/ WriteNew \/ NewKeyFails
    \/ NewPoolDone \/ Rewrite
    \/ Restart

Spec == Init /\ [][Next]_keyVars

-----------------------------------------------------------------------------
(* The key of a reservation was not used, is no other reservation's, and   *)
(* cannot be reserved, unless its own index was given out again meanwhile  *)
(* or had no record: whatever happens at other indices, a second numbering *)
(* or a write that fails, does no harm to it.                              *)
KeysHandedOutOnce ==
    \A h \in Holders :
        Held(h) /\ nIndex[h] \notin doubtful =>
            /\ vchPubKey[h] \notin used
            /\ \A i \in setKeyPool \cap DOMAIN pool : pool[i] # vchPubKey[h]
            /\ \A g \in Holders \ {h} : Held(g) => vchPubKey[g] # vchPubKey[h]

(* "Take key pair from key pool so it won't be used again" (wallet.cpp:    *)
(* 1332): no two reservations have the same key.                           *)
ReservedOnce ==
    \A g, h \in Holders :
        Held(g) /\ Held(h) /\ g # h => vchPubKey[g] # vchPubKey[h] \/ vchPubKey[g] \in used \cup {0}

(* A key that was used is never on disk as a pool key: KeepKey comes       *)
(* before the use (wallet.cpp:1333, main.cpp:4526), so that no stop at any *)
(* moment, and no reuse of an index, brings it back into the pool.         *)
UsedKeysErased == \A i \in DOMAIN pool : pool[i] \notin used

(* "Mark old keypool keys as used, and generate all new keys"              *)
(* (wallet.cpp:1513).  Once NewKeyPool has cleared the pool of a wallet    *)
(* that was just encrypted, no key from before is in it, but for the ones  *)
(* that were reserved at that moment; a stop in between keeps them all.    *)
PoolFlushed ==
    (fCrypted /\ pc # "erase" /\ ~fInterrupted) =>
        \A i \in DOMAIN pool : pool[i] > nOldKeys \/ pool[i] \in oldHeld
=============================================================================
