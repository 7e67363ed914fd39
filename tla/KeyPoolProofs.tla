--------------------------- MODULE KeyPoolProofs ---------------------------
(***************************************************************************)
(* KeyPool keeps its promises for any number of reservations and any size  *)
(* of the pool.  Good(S, P, K, ren) is the invariant of a pool with the    *)
(* indices S, the records P, K keys generated and the doubtful indices D;  *)
(* it is stated with parameters because an action first tops up the pool   *)
(* (FillGood) and then takes a key from what it finds.                     *)
(***************************************************************************)
EXTENDS KeyPool, FiniteSetTheorems, TLAPS

(* Who reserved a record: the index and the key agree with it, as long as  *)
(* the record was not overwritten.                                         *)
Records(S, P, K) ==
    /\ IsFiniteSet(S) /\ S \subseteq Nat
    /\ IsFiniteSet(DOMAIN P) /\ DOMAIN P \subseteq Nat
    /\ P = [i \in DOMAIN P |-> P[i]]
    /\ K \in Nat /\ used \subseteq 0..K
    /\ \A i \in DOMAIN P : P[i] \in 1..K /\ P[i] \notin used
    /\ \A i, j \in DOMAIN P : P[i] = P[j] => i = j

Reserved(S, P, K) ==
    /\ \A h \in Holders : vchPubKey[h] \in 0..K
    /\ \A h \in Holders : ~Held(h) => vchPubKey[h] \in used \cup {0}
    /\ \A h \in Holders : Held(h) =>
          \A i \in DOMAIN P : P[i] = vchPubKey[h] => i = nIndex[h]
    /\ \A i \in DOMAIN P : i \in S \/ \E h \in Holders : Held(h) /\ P[i] = vchPubKey[h]

(* Outside the doubtful indices, who has reserved one is alone with it, and *)
(* an index that can be reserved has a record.                             *)
NoClash(S, P, D) ==
    /\ pc # "erase" => S \ DOMAIN P \subseteq D
    /\ \A h \in Holders : Held(h) /\ nIndex[h] \notin D =>
          /\ nIndex[h] \notin S
          /\ nIndex[h] \in DOMAIN P /\ P[nIndex[h]] = vchPubKey[h]
          /\ \A g \in Holders \ {h} : nIndex[g] # nIndex[h]

Flushed(S, P, K) ==
    /\ nOldKeys \in Nat /\ nOldKeys <= K
    /\ pc = "erase" => \A i \in DOMAIN P : i \in S \/ P[i] \in oldHeld
    /\ (fCrypted /\ pc # "erase" /\ ~fInterrupted) =>
          \A i \in DOMAIN P : P[i] > nOldKeys \/ P[i] \in oldHeld

Good(S, P, K, D) ==
    /\ Records(S, P, K)
    /\ Reserved(S, P, K)
    /\ NoClash(S, P, D)
    /\ Flushed(S, P, K)

HolderTypes ==
    /\ nIndex \in [Holders -> Nat \cup {NoIndex}]
    /\ vchPubKey \in [Holders -> Nat]
    /\ vchDefaultKey \in used /\ vchDefaultKey \in Nat
    /\ vchDefaultKey <= nKeys

IInv == HolderTypes /\ Good(setKeyPool, pool, nKeys, doubtful)

-----------------------------------------------------------------------------
(* The number of keys that TopUpKeyPool generates is a natural number. *)
LEMMA MissingNat == ASSUME IInv PROVE Missing \in Nat
<1>1. Cardinality(setKeyPool) \in Nat
  BY FS_CardinalityType DEF IInv, Good, Records
<1> QED BY <1>1, TargetSizeAssumption DEF Missing

(* An index that TopUpKeyPool starts from is positive. *)
LEMMA EndsNat == ASSUME IInv PROVE Ends \subseteq Nat \ {0}
BY DEF Ends, IInv, Good, Records

(* Topping up the pool, by any number of keys and from any index, keeps it *)
(* good, with the indices in doubt that were reserved.                     *)
LEMMA FillGood ==
    ASSUME IInv, NEW e \in Nat \ {0}, NEW n \in Nat, pc # "erase", Generated(Filled(e, n))
    PROVE  Good(Filled(e, n).set, Filled(e, n).pool, Filled(e, n).keys, doubtful')
<1> DEFINE new == e .. e + n - 1
           S == Filled(e, n).set
           P == Filled(e, n).pool
           K == nKeys + n
<1>0. /\ S = setKeyPool \cup new
      /\ P = [i \in DOMAIN pool \cup new |->
                 IF i \in new THEN nKeys + 1 + i - e ELSE pool[i]]
      /\ DOMAIN P = DOMAIN pool \cup new
      /\ Filled(e, n).keys = K
      /\ Filled(e, n).new = new
  BY DEF Filled
<1> HIDE DEF S, P
<1>1. new \subseteq Nat /\ IsFiniteSet(new)
  BY FS_Interval
<1>2. K \in Nat /\ nKeys \in Nat /\ nKeys <= K
  BY DEF IInv, Good, Records
<1>3. \A i \in DOMAIN P : IF i \in new THEN P[i] = nKeys + 1 + i - e /\ P[i] \in nKeys + 1 .. K
                          ELSE i \in DOMAIN pool /\ P[i] = pool[i] /\ P[i] \in 1 .. nKeys
  BY <1>0, <1>1, <1>2 DEF IInv, Good, Records
<1>4. Records(S, P, K)
  <2>1. IsFiniteSet(S) /\ IsFiniteSet(DOMAIN P)
    BY <1>0, <1>1, FS_Union DEF IInv, Good, Records
  <2>2. S \subseteq Nat /\ DOMAIN P \subseteq Nat
    BY <1>0, <1>1 DEF IInv, Good, Records
  <2>3. P = [i \in DOMAIN P |-> P[i]]
    BY <1>0
  <2>4. used \subseteq 0..K
    BY <1>2 DEF IInv, Good, Records
  <2>5. \A i \in DOMAIN P : P[i] \in 1..K
    BY <1>2, <1>3
  <2>6. \A i \in DOMAIN P : P[i] \notin used
    BY <1>2, <1>3 DEF IInv, Good, Records
  <2>7. ASSUME NEW i \in DOMAIN P, NEW j \in DOMAIN P, P[i] = P[j] PROVE i = j
    <3>1. CASE i \in new /\ j \in new
      <4>1. nKeys + 1 + i - e = nKeys + 1 + j - e /\ i \in Nat /\ j \in Nat
        BY <1>1, <1>3, <2>7, <3>1
      <4> QED BY <1>2, <4>1
    <3>2. CASE i \notin new /\ j \notin new
      BY <1>3, <2>7, <3>2 DEF IInv, Good, Records
    <3>3. CASE (i \in new) # (j \in new)
      BY <1>2, <1>3, <2>7, <3>3
    <3> QED BY <3>1, <3>2, <3>3
  <2> QED BY <1>2, <2>1, <2>2, <2>3, <2>4, <2>5, <2>6, <2>7 DEF Records
<1>5. Reserved(S, P, K)
  <2>1. \A h \in Holders : vchPubKey[h] \in 0..K /\ vchPubKey[h] <= nKeys
    BY <1>2 DEF IInv, Good, Reserved
  <2>2. \A h \in Holders : ~Held(h) => vchPubKey[h] \in used \cup {0}
    BY DEF IInv, Good, Reserved
  <2>3. ASSUME NEW h \in Holders, Held(h), NEW i \in DOMAIN P, P[i] = vchPubKey[h]
        PROVE  i = nIndex[h]
    BY <1>2, <1>3, <2>1, <2>3 DEF IInv, Good, Reserved
  <2>4. ASSUME NEW i \in DOMAIN P
        PROVE  i \in S \/ \E h \in Holders : Held(h) /\ P[i] = vchPubKey[h]
    BY <1>0, <1>3 DEF IInv, Good, Reserved
  <2> QED BY <2>1, <2>2, <2>3, <2>4 DEF Reserved
<1>6. NoClash(S, P, doubtful')
  <2>0. doubtful' = (doubtful \ new) \cup {i \in new : \E h \in Holders : nIndex[h] = i}
    BY <1>0 DEF Generated, GeneratedBut
  <2>1. S \ DOMAIN P \subseteq doubtful'
    BY <1>0, <2>0 DEF IInv, Good, NoClash
  <2>2. ASSUME NEW h \in Holders, Held(h), nIndex[h] \notin doubtful'
        PROVE  /\ nIndex[h] \notin S
               /\ nIndex[h] \in DOMAIN P /\ P[nIndex[h]] = vchPubKey[h]
               /\ \A g \in Holders \ {h} : nIndex[g] # nIndex[h]
    <3>1. nIndex[h] \notin new /\ nIndex[h] \notin doubtful
      BY <2>0, <2>2
    <3> QED BY <1>0, <1>3, <2>2, <3>1 DEF IInv, Good, NoClash
  <2> QED BY <2>1, <2>2 DEF NoClash
<1>7. Flushed(S, P, K)
  BY <1>2, <1>3 DEF IInv, Good, Flushed
<1> QED BY <1>0, <1>4, <1>5, <1>6, <1>7 DEF Good, S, P

(* What an action that generates keys finds is good. *)
LEMMA ToppedUpGood ==
    ASSUME IInv, pc = "idle", NEW kp \in ToppedUp, Generated(kp)
    PROVE  Good(kp.set, kp.pool, kp.keys, doubtful') /\ nKeys' = kp.keys /\ nKeys <= kp.keys
<1>1. PICK e \in Nat \ {0}, n \in Nat : kp = Filled(e, n)
  BY MissingNat, EndsNat DEF ToppedUp
<1>2. nKeys \in Nat /\ kp.keys = nKeys + n
  BY <1>1 DEF Filled, IInv, Good, Records
<1>3. Good(Filled(e, n).set, Filled(e, n).pool, Filled(e, n).keys, doubtful')
  BY <1>1, FillGood
<1> QED BY <1>1, <1>2, <1>3 DEF Generated, GeneratedBut

-----------------------------------------------------------------------------
(* Init satisfies the invariant. *)
LEMMA InitInv == Init => IInv
<1> SUFFICES ASSUME Init PROVE IInv
  OBVIOUS
<1>1. IsFiniteSet(2 .. TargetSize + 1) /\ TargetSize \in Nat
  BY FS_Interval, TargetSizeAssumption
<1>2. Records(setKeyPool, pool, nKeys)
  BY <1>1 DEF Init, Records
<1>3. Reserved(setKeyPool, pool, nKeys)
  BY <1>1 DEF Init, Reserved, Held, NoIndex
<1>4. NoClash(setKeyPool, pool, doubtful) /\ Flushed(setKeyPool, pool, nKeys)
  BY <1>1 DEF Init, NoClash, Flushed, Held, NoIndex
<1>5. HolderTypes
  BY <1>1 DEF Init, HolderTypes, NoIndex
<1> QED BY <1>2, <1>3, <1>4, <1>5 DEF IInv, Good

(* Topping up, completely or not. *)
LEMMA TopUpInv == ASSUME IInv, TopUpKeyPool \/ TopUpFails PROVE IInv'
<1> DEFINE Step(kp) == /\ Generated(kp) /\ setKeyPool' = kp.set /\ pool' = kp.pool
<1>0. /\ pc = "idle" /\ UNCHANGED <<holders, vchDefaultKey, crypt, used>>
  BY DEF TopUpKeyPool, TopUpFails
<1>1. \E e \in Nat \ {0}, n \in Nat : Step(Filled(e, n))
  <2>1. CASE TopUpKeyPool
    BY <2>1, MissingNat, EndsNat DEF TopUpKeyPool, ToppedUp
  <2>2. CASE TopUpFails
    BY <2>2, MissingNat, EndsNat DEF TopUpFails
  <2> QED BY <2>1, <2>2
<1>2. PICK e \in Nat \ {0}, n \in Nat : Step(Filled(e, n))
  BY <1>1
<1>4. Good(setKeyPool', pool', nKeys', doubtful')
  BY <1>0, <1>2, FillGood DEF Generated, GeneratedBut
<1>5. nKeys' = nKeys + n /\ nKeys \in Nat
  BY <1>2 DEF Generated, GeneratedBut, Filled, IInv, Good, Records
<1>6. Good(setKeyPool, pool, nKeys, doubtful)'
  BY <1>0, <1>4 DEF Good, Records, Reserved, NoClash, Flushed, Held, holders, crypt
<1>7. HolderTypes'
  BY <1>0, <1>5 DEF IInv, HolderTypes, holders
<1> QED BY <1>6, <1>7 DEF IInv

(* A reservation. *)
LEMMA ReserveInv ==
    ASSUME IInv, NEW h \in Holders, GetReservedKey(h) PROVE IInv'
<1>0. PICK kp \in ToppedUp : \E i \in DOMAIN kp.pool :
         /\ TakeOldest(kp, i)
         /\ nIndex' = [nIndex EXCEPT ![h] = i]
         /\ vchPubKey' = [vchPubKey EXCEPT ![h] = kp.pool[i]]
         /\ pool' = kp.pool
  BY DEF GetReservedKey
<1>1. PICK i \in DOMAIN kp.pool :
         /\ TakeOldest(kp, i)
         /\ nIndex' = [nIndex EXCEPT ![h] = i]
         /\ vchPubKey' = [vchPubKey EXCEPT ![h] = kp.pool[i]]
         /\ pool' = kp.pool
  BY <1>0
<1>2. /\ pc = "idle" /\ ~Held(h)
      /\ UNCHANGED <<vchDefaultKey, crypt, used>>
  BY DEF GetReservedKey
<1>3. /\ Good(kp.set, kp.pool, kp.keys, doubtful')
      /\ nKeys' = kp.keys /\ nKeys <= kp.keys
      /\ i \in kp.set /\ setKeyPool' = kp.set \ {i}
  BY <1>1, <1>2, ToppedUpGood DEF TakeOldest, IsOldest
<1>4. i \in Nat /\ kp.pool[i] \in 1..nKeys' /\ nKeys' \in Nat /\ nKeys \in Nat
  BY <1>1, <1>3 DEF Good, Records, IInv
<1>5. HolderTypes'
  BY <1>1, <1>2, <1>3, <1>4 DEF IInv, HolderTypes
<1>6. /\ nIndex'[h] = i /\ vchPubKey'[h] = kp.pool[i] /\ Held(h)'
      /\ \A g \in Holders \ {h} : /\ nIndex'[g] = nIndex[g] /\ vchPubKey'[g] = vchPubKey[g]
                                  /\ Held(g)' = Held(g)
  BY <1>1, <1>4 DEF IInv, HolderTypes, Held, NoIndex
<1>7. Records(setKeyPool, pool, nKeys)'
  <2>1. IsFiniteSet(kp.set \ {i})
    BY <1>3, FS_Subset DEF Good, Records
  <2> QED BY <1>1, <1>2, <1>3, <2>1 DEF Good, Records
<1>8. Reserved(setKeyPool, pool, nKeys)'
  <2>1. \A g \in Holders : vchPubKey'[g] \in 0..nKeys'
    BY <1>3, <1>4, <1>6 DEF Good, Reserved
  <2>2. \A g \in Holders : ~Held(g)' => vchPubKey'[g] \in used' \cup {0}
    BY <1>2, <1>3, <1>6 DEF Good, Reserved
  <2>3. ASSUME NEW g \in Holders, Held(g)', NEW j \in DOMAIN pool', pool'[j] = vchPubKey'[g]
        PROVE  j = nIndex'[g]
    BY <1>1, <1>3, <1>6, <2>3 DEF Good, Reserved, Records
  <2>4. ASSUME NEW j \in DOMAIN pool'
        PROVE  j \in setKeyPool' \/ \E g \in Holders : Held(g)' /\ pool'[j] = vchPubKey'[g]
    <3>1. CASE j = i
      BY <1>1, <1>6, <3>1
    <3>2. CASE j # i /\ j \in kp.set
      BY <1>3, <3>2
    <3>3. CASE j \notin kp.set
      <4>1. PICK g \in Holders : Held(g) /\ kp.pool[j] = vchPubKey[g]
        BY <1>1, <1>3, <3>3 DEF Good, Reserved
      <4> QED BY <1>1, <1>2, <1>6, <4>1
    <3> QED BY <3>1, <3>2, <3>3
  <2> QED BY <2>1, <2>2, <2>3, <2>4 DEF Reserved
<1>9. NoClash(setKeyPool, pool, doubtful)'
  <2>1. NoClash(kp.set, kp.pool, doubtful')
    BY <1>3 DEF Good
  <2>2. nIndex[h] = NoIndex
    BY <1>2 DEF Held
  <2>3. setKeyPool' \ DOMAIN pool' \subseteq doubtful'
    BY <1>1, <1>2, <1>3, <2>1 DEF NoClash
  <2>4. ASSUME NEW g \in Holders, Held(g)', nIndex'[g] \notin doubtful'
        PROVE  /\ nIndex'[g] \notin setKeyPool'
               /\ nIndex'[g] \in DOMAIN pool' /\ pool'[nIndex'[g]] = vchPubKey'[g]
               /\ \A f \in Holders \ {g} : nIndex'[f] # nIndex'[g]
    <3>1. CASE g = h
      <4>1. \A f \in Holders \ {h} : nIndex[f] # i
        BY <1>3, <1>4, <1>6, <2>1, <2>4, <3>1 DEF NoClash, Held, NoIndex
      <4> QED BY <1>1, <1>3, <1>6, <3>1, <4>1
    <3>2. CASE g # h
      <4>1. Held(g) /\ nIndex[g] \notin kp.set /\ nIndex[g] \in DOMAIN kp.pool
            /\ kp.pool[nIndex[g]] = vchPubKey[g]
            /\ \A f \in Holders \ {g} : nIndex[f] # nIndex[g]
        BY <1>6, <2>1, <2>4, <3>2 DEF NoClash
      <4> QED BY <1>1, <1>3, <1>6, <3>2, <4>1
    <3> QED BY <3>1, <3>2
  <2> QED BY <2>3, <2>4 DEF NoClash
<1>10. Flushed(setKeyPool, pool, nKeys)'
  BY <1>1, <1>2, <1>3 DEF Good, Flushed, crypt
<1> QED BY <1>5, <1>7, <1>8, <1>9, <1>10 DEF IInv, Good

(* A reservation whose record is missing: its index is in doubt. *)
LEMMA ReadFailsInv ==
    ASSUME IInv, NEW h \in Holders, ReadFails(h) PROVE IInv'
<1>0. PICK kp \in ToppedUp : \E i \in kp.set \ DOMAIN kp.pool :
         /\ TakeOldest(kp, i)
         /\ nIndex' = [nIndex EXCEPT ![h] = i]
         /\ pool' = kp.pool
  BY DEF ReadFails
<1>1. PICK i \in kp.set \ DOMAIN kp.pool :
         /\ TakeOldest(kp, i)
         /\ nIndex' = [nIndex EXCEPT ![h] = i]
         /\ pool' = kp.pool
  BY <1>0
<1>2. /\ pc = "idle" /\ ~Held(h)
      /\ UNCHANGED <<vchPubKey, vchDefaultKey, crypt, used>>
  BY DEF ReadFails
<1>3. /\ Good(kp.set, kp.pool, kp.keys, doubtful')
      /\ nKeys' = kp.keys /\ nKeys <= kp.keys
      /\ setKeyPool' = kp.set \ {i}
  BY <1>1, <1>2, ToppedUpGood DEF TakeOldest
<1>4. i \in Nat /\ nKeys' \in Nat /\ nKeys \in Nat
  BY <1>1, <1>3 DEF Good, Records, IInv
<1>5. HolderTypes'
  BY <1>1, <1>2, <1>3, <1>4 DEF IInv, HolderTypes
<1>6. /\ Held(h)' /\ nIndex'[h] = i
      /\ \A g \in Holders \ {h} : nIndex'[g] = nIndex[g] /\ Held(g)' = Held(g)
  BY <1>1, <1>4 DEF IInv, HolderTypes, Held, NoIndex
<1>7. Records(setKeyPool, pool, nKeys)'
  <2>1. IsFiniteSet(kp.set \ {i})
    BY <1>3, FS_Subset DEF Good, Records
  <2> QED BY <1>1, <1>2, <1>3, <2>1 DEF Good, Records
<1>8. Reserved(setKeyPool, pool, nKeys)'
  <2>1. \A j \in DOMAIN pool' : pool'[j] # vchPubKey[h]
    BY <1>1, <1>2, <1>3 DEF Good, Records, Reserved
  <2>2. \A g \in Holders : vchPubKey'[g] \in 0..nKeys'
    BY <1>2, <1>3 DEF Good, Reserved
  <2>3. \A g \in Holders : ~Held(g)' => vchPubKey'[g] \in used' \cup {0}
    BY <1>2, <1>3, <1>6 DEF Good, Reserved
  <2>4. ASSUME NEW g \in Holders, Held(g)', NEW j \in DOMAIN pool', pool'[j] = vchPubKey'[g]
        PROVE  j = nIndex'[g]
    BY <1>1, <1>2, <1>3, <1>6, <2>1, <2>4 DEF Good, Reserved
  <2>5. ASSUME NEW j \in DOMAIN pool'
        PROVE  j \in setKeyPool' \/ \E g \in Holders : Held(g)' /\ pool'[j] = vchPubKey'[g]
    BY <1>1, <1>2, <1>3, <1>6, <2>5 DEF Good, Reserved
  <2> QED BY <2>2, <2>3, <2>4, <2>5 DEF Reserved
<1>9. NoClash(setKeyPool, pool, doubtful)'
  <2>1. NoClash(kp.set, kp.pool, doubtful') /\ i \in doubtful'
    BY <1>1, <1>2, <1>3 DEF Good, NoClash
  <2>2. setKeyPool' \ DOMAIN pool' \subseteq doubtful'
    BY <1>1, <1>2, <1>3, <2>1 DEF NoClash
  <2>3. ASSUME NEW g \in Holders, Held(g)', nIndex'[g] \notin doubtful'
        PROVE  /\ nIndex'[g] \notin setKeyPool'
               /\ nIndex'[g] \in DOMAIN pool' /\ pool'[nIndex'[g]] = vchPubKey'[g]
               /\ \A f \in Holders \ {g} : nIndex'[f] # nIndex'[g]
    <3>1. g # h /\ Held(g) /\ nIndex'[g] = nIndex[g]
      BY <1>6, <2>1, <2>3
    <3>2. /\ nIndex[g] \notin kp.set
          /\ nIndex[g] \in DOMAIN kp.pool /\ kp.pool[nIndex[g]] = vchPubKey[g]
          /\ \A f \in Holders \ {g} : nIndex[f] # nIndex[g]
      BY <2>1, <2>3, <3>1 DEF NoClash
    <3> QED BY <1>1, <1>2, <1>3, <1>6, <2>1, <2>3, <3>1, <3>2
  <2> QED BY <2>2, <2>3 DEF NoClash
<1>10. Flushed(setKeyPool, pool, nKeys)'
  BY <1>1, <1>2, <1>3 DEF Good, Flushed, crypt
<1> QED BY <1>5, <1>7, <1>8, <1>9, <1>10 DEF IInv, Good

(* The fallback to the default key, which counts as used. *)
LEMMA DefaultInv ==
    ASSUME IInv, NEW h \in Holders, GetDefaultKey(h) PROVE IInv'
<1>1. /\ ~Held(h) /\ vchPubKey' = [vchPubKey EXCEPT ![h] = vchDefaultKey]
      /\ UNCHANGED <<setKeyPool, pool, nKeys, nIndex, vchDefaultKey, crypt, used, doubtful>>
  BY DEF GetDefaultKey
<1>2. HolderTypes'
  BY <1>1 DEF IInv, HolderTypes
<1>3. /\ vchPubKey'[h] = vchDefaultKey /\ vchDefaultKey \in used /\ vchDefaultKey \in 0..nKeys
      /\ \A g \in Holders \ {h} : vchPubKey'[g] = vchPubKey[g]
      /\ \A g \in Holders : Held(g)' = Held(g) /\ nIndex'[g] = nIndex[g]
  BY <1>1 DEF IInv, HolderTypes, Good, Records, Held
<1>4. Records(setKeyPool, pool, nKeys)'
  BY <1>1 DEF IInv, Good, Records
<1>5. Reserved(setKeyPool, pool, nKeys)'
  BY <1>1, <1>3 DEF IInv, Good, Reserved
<1>6. NoClash(setKeyPool, pool, doubtful)'
  BY <1>1, <1>3 DEF IInv, Good, NoClash, crypt
<1>7. Flushed(setKeyPool, pool, nKeys)'
  BY <1>1 DEF IInv, Good, Flushed, crypt
<1> QED BY <1>2, <1>4, <1>5, <1>6, <1>7 DEF IInv, Good

(* A key that is taken and used at once. *)
LEMMA GetKeyInv == ASSUME IInv, GetKeyFromPool PROVE IInv'
<1>0. PICK kp \in ToppedUp : \E i \in DOMAIN kp.pool :
         /\ TakeOldest(kp, i)
         /\ pool' = ErasePool(i, kp.pool)
         /\ used' = used \cup {kp.pool[i]}
         /\ vchDefaultKey' \in {vchDefaultKey, kp.pool[i]}
  BY DEF GetKeyFromPool
<1>1. PICK i \in DOMAIN kp.pool :
         /\ TakeOldest(kp, i)
         /\ pool' = ErasePool(i, kp.pool)
         /\ used' = used \cup {kp.pool[i]}
         /\ vchDefaultKey' \in {vchDefaultKey, kp.pool[i]}
  BY <1>0
<1>2. pc = "idle" /\ UNCHANGED <<holders, crypt>>
  BY DEF GetKeyFromPool
<1>3. /\ Good(kp.set, kp.pool, kp.keys, doubtful')
      /\ nKeys' = kp.keys /\ nKeys <= kp.keys
      /\ i \in kp.set /\ setKeyPool' = kp.set \ {i}
  BY <1>1, <1>2, ToppedUpGood DEF TakeOldest, IsOldest
<1>4. /\ DOMAIN pool' = DOMAIN kp.pool \ {i}
      /\ \A j \in DOMAIN pool' : pool'[j] = kp.pool[j]
      /\ pool' = [j \in DOMAIN pool' |-> pool'[j]]
  <2>1. pool' = [j \in DOMAIN kp.pool \ {i} |-> kp.pool[j]]
    BY <1>1 DEF ErasePool, Without
  <2> QED BY <2>1
<1>5. kp.pool[i] \in 1..nKeys' /\ nKeys' \in Nat /\ nKeys \in Nat
  BY <1>1, <1>3 DEF Good, Records, IInv
<1>6. HolderTypes'
  BY <1>1, <1>2, <1>3, <1>5 DEF IInv, HolderTypes, holders
<1>7. Records(setKeyPool, pool, nKeys)'
  <2>1. IsFiniteSet(kp.set \ {i}) /\ IsFiniteSet(DOMAIN kp.pool \ {i})
    BY <1>3, FS_Subset DEF Good, Records
  <2>2. \A j \in DOMAIN pool' : pool'[j] # kp.pool[i]
    BY <1>1, <1>3, <1>4 DEF Good, Records
  <2>3. used' \subseteq 0..nKeys'
    <3>1. used \subseteq 0..nKeys'
      BY <1>3 DEF Good, Records
    <3>2. kp.pool[i] \in 0..nKeys'
      BY <1>5
    <3> QED BY <1>1, <3>1, <3>2
  <2> QED BY <1>1, <1>3, <1>4, <2>1, <2>2, <2>3 DEF Good, Records
<1>8. Reserved(setKeyPool, pool, nKeys)'
  BY <1>1, <1>2, <1>3, <1>4 DEF Good, Reserved, Held, holders
<1>9. NoClash(setKeyPool, pool, doubtful)'
  <2>1. NoClash(kp.set, kp.pool, doubtful')
    BY <1>3 DEF Good
  <2> QED BY <1>2, <1>3, <1>4, <2>1 DEF NoClash, Held, holders, crypt
<1>10. Flushed(setKeyPool, pool, nKeys)'
  BY <1>2, <1>3, <1>4 DEF Good, Flushed, crypt
<1> QED BY <1>6, <1>7, <1>8, <1>9, <1>10 DEF IInv, Good

(* ... or that has no record. *)
LEMMA GetKeyFailsInv == ASSUME IInv, GetKeyFails PROVE IInv'
<1>0. PICK kp \in ToppedUp : \E i \in kp.set \ DOMAIN kp.pool :
         TakeOldest(kp, i) /\ pool' = kp.pool
  BY DEF GetKeyFails
<1>1. PICK i \in kp.set \ DOMAIN kp.pool : TakeOldest(kp, i) /\ pool' = kp.pool
  BY <1>0
<1>2. pc = "idle" /\ UNCHANGED <<holders, vchDefaultKey, crypt, used>>
  BY DEF GetKeyFails
<1>3. /\ Good(kp.set, kp.pool, kp.keys, doubtful')
      /\ nKeys' = kp.keys /\ nKeys <= kp.keys
      /\ setKeyPool' = kp.set \ {i}
  BY <1>1, <1>2, ToppedUpGood DEF TakeOldest
<1>4. nKeys' \in Nat /\ nKeys \in Nat
  BY <1>3 DEF Good, Records, IInv
<1>5. HolderTypes'
  BY <1>2, <1>3, <1>4 DEF IInv, HolderTypes, holders
<1>6. Records(setKeyPool, pool, nKeys)'
  <2>1. IsFiniteSet(kp.set \ {i})
    BY <1>3, FS_Subset DEF Good, Records
  <2> QED BY <1>1, <1>2, <1>3, <2>1 DEF Good, Records
<1>7. Reserved(setKeyPool, pool, nKeys)'
  BY <1>1, <1>2, <1>3 DEF Good, Reserved, Held, holders
<1>8. NoClash(setKeyPool, pool, doubtful)'
  BY <1>1, <1>2, <1>3 DEF Good, NoClash, Held, holders, crypt
<1>9. Flushed(setKeyPool, pool, nKeys)'
  BY <1>1, <1>2, <1>3 DEF Good, Flushed, crypt
<1> QED BY <1>5, <1>6, <1>7, <1>8, <1>9 DEF IInv, Good

(* A reservation that ends. *)
LEMMA ReleaseFacts ==
    ASSUME IInv, NEW h \in Holders, Release(h)
    PROVE  /\ ~Held(h)' /\ vchPubKey'[h] = 0
           /\ \A g \in Holders \ {h} : /\ nIndex'[g] = nIndex[g] /\ vchPubKey'[g] = vchPubKey[g]
                                       /\ Held(g)' = Held(g)
           /\ \A g \in Holders : Held(g)' => Held(g) /\ g # h
           /\ nIndex' \in [Holders -> Nat \cup {NoIndex}]
           /\ vchPubKey' \in [Holders -> Nat]
BY DEF IInv, HolderTypes, Release, Held, NoIndex

(* KeepKey erases the only record that can hold the key. *)
LEMMA KeepInv == ASSUME IInv, NEW h \in Holders, KeepKey(h) PROVE IInv'
<1> DEFINE i == nIndex[h]
<1>1. /\ Held(h) /\ pool' = [j \in DOMAIN pool \ {i} |-> pool[j]]
      /\ used' = used \cup {vchPubKey[h]}
      /\ Release(h)
      /\ UNCHANGED <<setKeyPool, nKeys, vchDefaultKey, crypt, doubtful>>
  BY DEF KeepKey, ErasePool, Without
<1>2. DOMAIN pool' = DOMAIN pool \ {i} /\ \A j \in DOMAIN pool' : pool'[j] = pool[j]
  BY <1>1
<1>3. \A j \in DOMAIN pool' : pool'[j] # vchPubKey[h]
  BY <1>1, <1>2 DEF IInv, Good, Reserved
<1>4. HolderTypes'
  BY <1>1, ReleaseFacts DEF IInv, HolderTypes
<1>5. Records(setKeyPool, pool, nKeys)'
  <2>1. IsFiniteSet(DOMAIN pool')
    BY <1>2, FS_Subset DEF IInv, Good, Records
  <2>2. used' \subseteq 0..nKeys'
    BY <1>1 DEF IInv, Good, Records, Reserved
  <2>3. pool' = [j \in DOMAIN pool' |-> pool'[j]]
    BY <1>1
  <2> QED BY <1>1, <1>2, <1>3, <2>1, <2>2, <2>3 DEF IInv, Good, Records
<1>6. Reserved(setKeyPool, pool, nKeys)'
  <2>1. \A g \in Holders : vchPubKey'[g] \in 0..nKeys'
    BY <1>1, ReleaseFacts DEF IInv, Good, Reserved, Records
  <2>2. \A g \in Holders : ~Held(g)' => vchPubKey'[g] \in used' \cup {0}
    BY <1>1, ReleaseFacts DEF IInv, Good, Reserved
  <2>3. ASSUME NEW g \in Holders, Held(g)', NEW j \in DOMAIN pool', pool'[j] = vchPubKey'[g]
        PROVE  j = nIndex'[g]
    BY <1>1, <1>2, <2>3, ReleaseFacts DEF IInv, Good, Reserved
  <2>4. ASSUME NEW j \in DOMAIN pool'
        PROVE  j \in setKeyPool' \/ \E g \in Holders : Held(g)' /\ pool'[j] = vchPubKey'[g]
    <3>1. CASE j \in setKeyPool
      BY <1>1, <3>1
    <3>2. CASE j \notin setKeyPool
      <4>1. PICK g \in Holders : Held(g) /\ pool[j] = vchPubKey[g]
        BY <1>2, <3>2 DEF IInv, Good, Reserved
      <4>2. g # h
        BY <1>2, <1>3, <4>1
      <4> QED BY <1>1, <1>2, <4>1, <4>2, ReleaseFacts
    <3> QED BY <3>1, <3>2
  <2> QED BY <2>1, <2>2, <2>3, <2>4 DEF Reserved
<1>7. NoClash(setKeyPool, pool, doubtful)'
  <2>1. NoClash(setKeyPool, pool, doubtful)
    BY DEF IInv, Good
  <2>2. pc' # "erase" => setKeyPool' \ DOMAIN pool' \subseteq doubtful'
    BY <1>1, <1>2, <2>1 DEF NoClash, crypt
  <2>3. ASSUME NEW g \in Holders, Held(g)', nIndex'[g] \notin doubtful'
        PROVE  /\ nIndex'[g] \notin setKeyPool'
               /\ nIndex'[g] \in DOMAIN pool' /\ pool'[nIndex'[g]] = vchPubKey'[g]
               /\ \A f \in Holders \ {g} : nIndex'[f] # nIndex'[g]
    <3>1. g # h /\ Held(g) /\ nIndex'[g] = nIndex[g] /\ vchPubKey'[g] = vchPubKey[g]
      BY <1>1, <2>3, ReleaseFacts
    <3>2. /\ nIndex[g] \notin setKeyPool
          /\ nIndex[g] \in DOMAIN pool /\ pool[nIndex[g]] = vchPubKey[g]
          /\ \A f \in Holders \ {g} : nIndex[f] # nIndex[g]
      BY <1>1, <2>1, <2>3, <3>1 DEF NoClash
    <3>3. \A f \in Holders \ {g} : nIndex'[f] # nIndex'[g]
      BY <1>1, <2>3, <3>1, <3>2, ReleaseFacts DEF Held
    <3> QED BY <1>1, <1>2, <3>1, <3>2, <3>3
  <2> QED BY <2>2, <2>3 DEF NoClash
<1>8. Flushed(setKeyPool, pool, nKeys)'
  BY <1>1, <1>2 DEF IInv, Good, Flushed, crypt
<1> QED BY <1>4, <1>5, <1>6, <1>7, <1>8 DEF IInv, Good

(* ReturnKey makes the record available again. *)
LEMMA ReturnInv == ASSUME IInv, NEW h \in Holders, ReturnKey(h) PROVE IInv'
<1>1. /\ pc = "idle" /\ Held(h)
      /\ setKeyPool' = setKeyPool \cup {nIndex[h]}
      /\ Release(h)
      /\ UNCHANGED <<pool, nKeys, vchDefaultKey, crypt, used, doubtful>>
  BY DEF ReturnKey
<1>2. nIndex[h] \in Nat
  BY <1>1 DEF IInv, HolderTypes, Held
<1>3. HolderTypes'
  BY <1>1, ReleaseFacts DEF IInv, HolderTypes
<1>4. Records(setKeyPool, pool, nKeys)'
  <2>1. IsFiniteSet(setKeyPool')
    BY <1>1, FS_AddElement DEF IInv, Good, Records
  <2> QED BY <1>1, <1>2, <2>1 DEF IInv, Good, Records
<1>5. Reserved(setKeyPool, pool, nKeys)'
  <2>1. \A g \in Holders : vchPubKey'[g] \in 0..nKeys'
    BY <1>1, ReleaseFacts DEF IInv, Good, Reserved, Records
  <2>2. \A g \in Holders : ~Held(g)' => vchPubKey'[g] \in used' \cup {0}
    BY <1>1, ReleaseFacts DEF IInv, Good, Reserved
  <2>3. ASSUME NEW g \in Holders, Held(g)', NEW j \in DOMAIN pool', pool'[j] = vchPubKey'[g]
        PROVE  j = nIndex'[g]
    BY <1>1, <2>3, ReleaseFacts DEF IInv, Good, Reserved
  <2>4. ASSUME NEW j \in DOMAIN pool'
        PROVE  j \in setKeyPool' \/ \E g \in Holders : Held(g)' /\ pool'[j] = vchPubKey'[g]
    <3>1. CASE j \in setKeyPool
      BY <1>1, <3>1
    <3>2. CASE j \notin setKeyPool
      <4>1. PICK g \in Holders : Held(g) /\ pool[j] = vchPubKey[g]
        BY <1>1, <3>2 DEF IInv, Good, Reserved
      <4>2. CASE g = h
        BY <1>1, <4>1, <4>2 DEF IInv, Good, Reserved
      <4>3. CASE g # h
        BY <1>1, <4>1, <4>3, ReleaseFacts
      <4> QED BY <4>2, <4>3
    <3> QED BY <3>1, <3>2
  <2> QED BY <2>1, <2>2, <2>3, <2>4 DEF Reserved
<1>6. NoClash(setKeyPool, pool, doubtful)'
  <2>1. NoClash(setKeyPool, pool, doubtful)
    BY DEF IInv, Good
  <2>2. setKeyPool' \ DOMAIN pool' \subseteq doubtful'
    BY <1>1, <2>1 DEF NoClash
  <2>3. ASSUME NEW g \in Holders, Held(g)', nIndex'[g] \notin doubtful'
        PROVE  /\ nIndex'[g] \notin setKeyPool'
               /\ nIndex'[g] \in DOMAIN pool' /\ pool'[nIndex'[g]] = vchPubKey'[g]
               /\ \A f \in Holders \ {g} : nIndex'[f] # nIndex'[g]
    <3>1. g # h /\ Held(g) /\ nIndex'[g] = nIndex[g] /\ vchPubKey'[g] = vchPubKey[g]
      BY <1>1, <2>3, ReleaseFacts
    <3>2. /\ nIndex[g] \notin setKeyPool
          /\ nIndex[g] \in DOMAIN pool /\ pool[nIndex[g]] = vchPubKey[g]
          /\ \A f \in Holders \ {g} : nIndex[f] # nIndex[g]
      BY <1>1, <2>1, <2>3, <3>1 DEF NoClash
    <3>3. \A f \in Holders \ {g} : nIndex'[f] # nIndex'[g]
      BY <1>1, <2>3, <3>1, <3>2, ReleaseFacts DEF Held
    <3> QED BY <1>1, <3>1, <3>2, <3>3
  <2> QED BY <2>2, <2>3 DEF NoClash
<1>7. Flushed(setKeyPool, pool, nKeys)'
  BY <1>1 DEF IInv, Good, Flushed, crypt
<1> QED BY <1>3, <1>4, <1>5, <1>6, <1>7 DEF IInv, Good

-----------------------------------------------------------------------------
(* Steps that change neither the pool nor the reservations; those that     *)
(* change pc leave it outside NewKeyPool's erasing.                        *)
LEMMA QuietInv ==
    ASSUME IInv, UNCHANGED <<setKeyPool, pool, nKeys, holders, vchDefaultKey, used, doubtful,
                             fCrypted, nOldKeys, oldHeld, fInterrupted>>,
           pc' = pc \/ (pc # "erase" /\ pc' # "erase")
    PROVE  IInv'
<1>1. HolderTypes' /\ Records(setKeyPool, pool, nKeys)'
  BY DEF IInv, HolderTypes, Good, Records, holders
<1>2. Reserved(setKeyPool, pool, nKeys)'
  BY DEF IInv, Good, Reserved, Held, holders
<1>3. NoClash(setKeyPool, pool, doubtful)'
  BY DEF IInv, Good, NoClash, Held, holders
<1>4. Flushed(setKeyPool, pool, nKeys)'
  BY DEF IInv, Good, Flushed
<1> QED BY <1>1, <1>2, <1>3, <1>4 DEF IInv, Good

(* When the wallet is encrypted, every record can be reserved or is. *)
LEMMA EncryptInv == ASSUME IInv, EncryptWallet PROVE IInv'
<1>1. /\ pc' = "erase" /\ nOldKeys' = nKeys
      /\ oldHeld' = {vchPubKey[h] : h \in {g \in Holders : Held(g)}}
      /\ UNCHANGED <<setKeyPool, pool, nKeys, holders, vchDefaultKey, used, doubtful>>
  BY DEF EncryptWallet
<1>2. HolderTypes' /\ Records(setKeyPool, pool, nKeys)'
  BY <1>1 DEF IInv, HolderTypes, Good, Records, holders
<1>3. Reserved(setKeyPool, pool, nKeys)'
  BY <1>1 DEF IInv, Good, Reserved, Held, holders
<1>4. NoClash(setKeyPool, pool, doubtful)'
  BY <1>1 DEF IInv, Good, NoClash, Held, holders
<1>5. Flushed(setKeyPool, pool, nKeys)'
  BY <1>1 DEF IInv, Good, Flushed, Records, Reserved
<1> QED BY <1>2, <1>3, <1>4, <1>5 DEF IInv, Good

(* NewKeyPool erases a record of setKeyPool. *)
LEMMA EraseInv == ASSUME IInv, EraseOld PROVE IInv'
<1>1. PICK i \in setKeyPool : pool' = Without(pool, i)
  BY DEF EraseOld
<1>2. /\ pool' = [j \in DOMAIN pool \ {i} |-> pool[j]]
      /\ DOMAIN pool' = DOMAIN pool \ {i} /\ \A j \in DOMAIN pool' : pool'[j] = pool[j]
  BY <1>1 DEF Without
<1>3. pc = "erase" /\ UNCHANGED <<setKeyPool, nKeys, holders, vchDefaultKey, crypt, used, doubtful>>
  BY DEF EraseOld
<1>4. HolderTypes'
  BY <1>3 DEF IInv, HolderTypes, holders
<1>5. Records(setKeyPool, pool, nKeys)'
  <2>1. IsFiniteSet(DOMAIN pool')
    BY <1>2, FS_Subset DEF IInv, Good, Records
  <2>2. pool' = [j \in DOMAIN pool' |-> pool'[j]]
    BY <1>2
  <2> QED BY <1>2, <1>3, <2>1, <2>2 DEF IInv, Good, Records
<1>6. Reserved(setKeyPool, pool, nKeys)'
  BY <1>2, <1>3 DEF IInv, Good, Reserved, Held, holders
<1>7. NoClash(setKeyPool, pool, doubtful)'
  BY <1>1, <1>2, <1>3 DEF IInv, Good, NoClash, Held, holders, crypt
<1>8. Flushed(setKeyPool, pool, nKeys)'
  BY <1>2, <1>3 DEF IInv, Good, Flushed, crypt
<1> QED BY <1>4, <1>5, <1>6, <1>7, <1>8 DEF IInv, Good

(* ... and clears the set. *)
LEMMA ClearInv == ASSUME IInv, ClearOld PROVE IInv'
<1>1. /\ pc = "erase" /\ setKeyPool \cap DOMAIN pool = {} /\ setKeyPool' = {}
      /\ pc' # "erase"
      /\ UNCHANGED <<pool, nKeys, holders, vchDefaultKey, fCrypted, used,
                     doubtful, nOldKeys, oldHeld, fInterrupted>>
  BY DEF ClearOld
<1>2. HolderTypes' /\ Records(setKeyPool, pool, nKeys)'
  BY <1>1, FS_EmptySet DEF IInv, HolderTypes, Good, Records, holders
<1>3. Reserved(setKeyPool, pool, nKeys)'
  BY <1>1 DEF IInv, Good, Reserved, Held, holders
<1>4. NoClash(setKeyPool, pool, doubtful)'
  BY <1>1 DEF IInv, Good, NoClash, Held, holders
<1>5. Flushed(setKeyPool, pool, nKeys)'
  BY <1>1 DEF IInv, Good, Flushed
<1> QED BY <1>2, <1>3, <1>4, <1>5 DEF IInv, Good

(* ... and numbers a new key, whose record may fail to be written. *)
LEMMA WriteInv == ASSUME IInv, WriteNew PROVE IInv'
<1>0. pc = "write" /\ UNCHANGED <<holders, vchDefaultKey, crypt, used>>
  BY DEF WriteNew
<1>1. PICK e \in Nat \ {0} :
         /\ \/ Generated(Filled(e, 1)) /\ pool' = Filled(e, 1).pool
            \/ GeneratedBut(Filled(e, 1), {e}) /\ pool' = pool
         /\ setKeyPool' = Filled(e, 1).set
  BY EndsNat DEF WriteNew
<1>2. nKeys' = nKeys + 1 /\ nKeys \in Nat
  BY <1>1 DEF Generated, GeneratedBut, Filled, IInv, Good, Records
<1>3. HolderTypes'
  BY <1>0, <1>2 DEF IInv, HolderTypes, holders
<1>4. CASE Generated(Filled(e, 1)) /\ pool' = Filled(e, 1).pool
  <2>1. Good(setKeyPool', pool', nKeys', doubtful')
    BY <1>0, <1>1, <1>4, FillGood DEF Generated, GeneratedBut
  <2>2. Good(setKeyPool, pool, nKeys, doubtful)'
    BY <1>0, <2>1 DEF Good, Records, Reserved, NoClash, Flushed, Held, holders, crypt
  <2> QED BY <1>3, <2>2 DEF IInv
<1>5. CASE GeneratedBut(Filled(e, 1), {e}) /\ pool' = pool
  <2>1. /\ setKeyPool' = setKeyPool \cup {e} /\ pool' = pool
        /\ doubtful \subseteq doubtful' /\ e \in doubtful'
    <3>1. Filled(e, 1).set = setKeyPool \cup {e} /\ Filled(e, 1).new = {e}
      BY DEF Filled
    <3> QED BY <1>1, <1>5, <3>1 DEF GeneratedBut
  <2>2. Records(setKeyPool, pool, nKeys)'
    <3>1. IsFiniteSet(setKeyPool')
      BY <2>1, FS_AddElement DEF IInv, Good, Records
    <3> QED BY <1>0, <1>2, <2>1, <3>1 DEF IInv, Good, Records
  <2>3. Reserved(setKeyPool, pool, nKeys)'
    BY <1>0, <1>2, <2>1 DEF IInv, Good, Reserved, Held, holders
  <2>4. NoClash(setKeyPool, pool, doubtful)'
    BY <1>0, <2>1 DEF IInv, Good, NoClash, Held, holders, crypt
  <2>5. Flushed(setKeyPool, pool, nKeys)'
    BY <1>0, <1>2, <2>1 DEF IInv, Good, Flushed, crypt
  <2> QED BY <1>3, <2>2, <2>3, <2>4, <2>5 DEF IInv, Good
<1> QED BY <1>1, <1>4, <1>5

(* A restart makes every record available; none holds a used key. *)
LEMMA RestartInv == ASSUME IInv, Restart PROVE IInv'
<1>1. /\ setKeyPool' = DOMAIN pool /\ pc' = "idle"
      /\ nIndex' = [h \in Holders |-> NoIndex] /\ vchPubKey' = [h \in Holders |-> 0]
      /\ fInterrupted' = (fInterrupted \/ pc = "erase")
      /\ UNCHANGED <<pool, nKeys, vchDefaultKey, fCrypted, used, nOldKeys, oldHeld>>
  BY DEF Restart
<1>2. \A h \in Holders : ~Held(h)' /\ vchPubKey'[h] = 0
  BY <1>1 DEF Held
<1>3. HolderTypes' /\ Records(setKeyPool, pool, nKeys)'
  BY <1>1 DEF IInv, HolderTypes, Good, Records
<1>4. Reserved(setKeyPool, pool, nKeys)'
  BY <1>1, <1>2 DEF IInv, Good, Reserved, Records
<1>5. NoClash(setKeyPool, pool, doubtful)'
  BY <1>1, <1>2 DEF NoClash
<1>6. Flushed(setKeyPool, pool, nKeys)'
  BY <1>1 DEF IInv, Good, Flushed
<1> QED BY <1>3, <1>4, <1>5, <1>6 DEF IInv, Good

-----------------------------------------------------------------------------
(* Every action of KeyPool keeps the invariant. *)
THEOREM Inductive == Spec => []IInv
<1>1. IInv /\ [Next]_keyVars => IInv'
  <2> SUFFICES ASSUME IInv, [Next]_keyVars PROVE IInv'
    OBVIOUS
  <2>1. CASE TopUpKeyPool \/ TopUpFails
    BY <2>1, TopUpInv
  <2>2. ASSUME NEW h \in Holders,
               \/ GetReservedKey(h) \/ ReadFails(h) \/ GetDefaultKey(h)
               \/ KeepKey(h) \/ ReturnKey(h)
        PROVE  IInv'
    BY <2>2, ReserveInv, ReadFailsInv, DefaultInv, KeepInv, ReturnInv
  <2>3. CASE GetKeyFromPool \/ GetKeyFails
    BY <2>3, GetKeyInv, GetKeyFailsInv
  <2>4. CASE Lock \/ Unlock \/ EncryptFails \/ NewKeyFails \/ NewPoolDone \/ Rewrite
    <3>1. /\ UNCHANGED <<setKeyPool, pool, nKeys, holders, vchDefaultKey, used, doubtful,
                         fCrypted, nOldKeys, oldHeld, fInterrupted>>
          /\ pc' = pc \/ (pc # "erase" /\ pc' # "erase")
      BY <2>4 DEF Lock, Unlock, EncryptFails, NewKeyFails, NewPoolDone, Rewrite
    <3> QED BY <3>1, QuietInv
  <2>5. CASE EncryptWallet \/ EraseOld \/ ClearOld \/ WriteNew
    BY <2>5, EncryptInv, EraseInv, ClearInv, WriteInv
  <2>6. CASE Restart
    BY <2>6, RestartInv
  <2>7. CASE UNCHANGED keyVars
    BY <2>7, QuietInv DEF keyVars, holders, crypt
  <2> QED BY <2>1, <2>2, <2>3, <2>4, <2>5, <2>6, <2>7 DEF Next
<1> QED BY <1>1, InitInv, PTL DEF Spec

(* A reservation whose own index was not given out again while reserved,   *)
(* and has a record, has its key alone: unused, in no other reservation    *)
(* and in no record that can be reserved (wallet.cpp:1515-1651).           *)
THEOREM HandedOutOnce == Spec => []KeysHandedOutOnce
<1>1. IInv => KeysHandedOutOnce
  <2> SUFFICES ASSUME IInv, NEW h \in Holders, Held(h), nIndex[h] \notin doubtful
               PROVE  /\ vchPubKey[h] \notin used
                      /\ \A i \in setKeyPool \cap DOMAIN pool : pool[i] # vchPubKey[h]
                      /\ \A g \in Holders \ {h} : Held(g) => vchPubKey[g] # vchPubKey[h]
    BY DEF KeysHandedOutOnce
  <2>1. /\ nIndex[h] \notin setKeyPool
        /\ nIndex[h] \in DOMAIN pool /\ pool[nIndex[h]] = vchPubKey[h]
        /\ \A g \in Holders \ {h} : nIndex[g] # nIndex[h]
    BY DEF IInv, Good, NoClash
  <2>2. \A i \in DOMAIN pool : pool[i] \notin used /\ (pool[i] = vchPubKey[h] => i = nIndex[h])
    BY <2>1 DEF IInv, Good, Records
  <2>3. \A g \in Holders : Held(g) /\ vchPubKey[g] = vchPubKey[h] => nIndex[h] = nIndex[g]
    BY <2>1 DEF IInv, Good, Reserved
  <2> QED BY <2>1, <2>2, <2>3
<1> QED BY <1>1, Inductive, PTL

(* A used key is never a pool key on disk, whenever the node stops. *)
THEOREM Erased == Spec => []UsedKeysErased
<1>1. IInv => UsedKeysErased
  BY DEF IInv, Good, Records, UsedKeysErased
<1> QED BY <1>1, Inductive, PTL

(* Encrypting the wallet replaces every pool key that is not reserved. *)
THEOREM EncryptionFlushes == Spec => []PoolFlushed
<1>1. IInv => PoolFlushed
  BY DEF IInv, Good, Flushed, PoolFlushed
<1> QED BY <1>1, Inductive, PTL
=============================================================================
