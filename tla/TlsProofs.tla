----------------------------- MODULE TlsProofs ------------------------------
(***************************************************************************)
(* Theorems about Tls, for any set of threads, keys and values.  A thread  *)
(* reads its own because the key that wins was never stored under before:  *)
(* nobody stores under a key that is not yet in the variable, and a key    *)
(* that the system hands out again is null in every thread.                *)
(***************************************************************************)
EXTENDS Tls, TLAPS

(* A key that is about to be offered holds nothing.                        *)
Fresh == \A t \in Threads : tmp[t] # INVALID => \A u \in Threads : slot[tmp[t]][u] = Nil

IInv == TypeOK /\ KeysExact /\ ReadsOwn /\ Fresh

Offering == {u \in Threads : tmp[u] # INVALID}

LEMMA InitIInv == Init => IInv
  BY TlsAssumption DEF Init, IInv, TypeOK, KeysExact, ReadsOwn, Fresh, Tls_Get

(* The key in use and the keys in hand are allocated.                      *)
LEMMA Allocated ==
  ASSUME IInv
  PROVE  /\ name # INVALID => name \in keys
         /\ \A t \in Threads : tmp[t] # INVALID => tmp[t] \in keys
  BY DEF IInv, KeysExact

LEMMA SetKeeps ==
  ASSUME IInv, NEW t \in Threads, NEW v \in Values, Tls_Set(t, v)
  PROVE  IInv'
<1>1. TypeOK'
  BY TlsAssumption DEF IInv, TypeOK, Tls_Set, Go
<1>2. KeysExact' /\ ReadsOwn' /\ Fresh'
  BY DEF IInv, KeysExact, ReadsOwn, Fresh, Tls_Get, Tls_Set
<1> QED BY <1>1, <1>2 DEF IInv

LEMMA AllocKeeps ==
  ASSUME IInv, NEW t \in Threads, NEW k \in Keys \ keys,
         tmp' = [tmp EXCEPT ![t] = k], keys' = keys \cup {k},
         slot' = [slot EXCEPT ![k] = [u \in Threads |-> Nil]],
         pc[t] = "alloc", pc' = [pc EXCEPT ![t] = "offer"], UNCHANGED <<name, val, mine, refused>>
  PROVE  IInv'
<1>3. TypeOK /\ k # INVALID /\ tmp[t] = INVALID
  BY TlsAssumption DEF IInv, TypeOK
<1>4. tmp'[t] = k /\ \A u \in Threads : u # t => tmp'[u] = tmp[u]
  BY <1>3 DEF TypeOK
<1>5. TypeOK'
  <2>1. slot' \in [Keys -> [Threads -> Values \cup {Nil}]]
    BY <1>3 DEF TypeOK
  <2>2. \A u \in Threads : /\ tmp'[u] # INVALID => pc'[u] = "offer"
                           /\ pc'[u] = "offer" => tmp'[u] # INVALID \/ u \in refused'
                           /\ pc'[u] = "set" => name' # INVALID \/ u \in refused'
    BY <1>3, <1>4 DEF TypeOK
  <2> QED BY <1>3, <2>1, <2>2 DEF TypeOK
<1>6. KeysExact'
  BY <1>3, <1>4, Allocated DEF IInv, KeysExact
<1>7. \A q \in Keys : q # k => slot'[q] = slot[q]
  BY <1>3 DEF TypeOK
<1>8. ReadsOwn'
  BY <1>3, <1>7, Allocated DEF IInv, ReadsOwn, Tls_Get, TypeOK
<1>9. Fresh'
  <2>1. \A u \in Threads : slot'[k][u] = Nil
    BY <1>3 DEF TypeOK
  <2>2. \A u \in Threads : u # t /\ tmp[u] # INVALID => tmp[u] # k /\ tmp[u] \in Keys
    BY <1>3, Allocated DEF TypeOK
  <2> QED BY <1>4, <1>7, <2>1, <2>2 DEF IInv, Fresh
<1> QED BY <1>5, <1>6, <1>8, <1>9 DEF IInv

(* There is no key for the thread: only it and its call know.              *)
LEMMA RefusedKeeps ==
  ASSUME IInv, NEW t \in Threads, pc[t] = "alloc", pc' = [pc EXCEPT ![t] = "offer"],
         refused' = refused \cup {t}, UNCHANGED <<name, keys, slot, tmp, val, mine>>
  PROVE  IInv'
<1>1. TypeOK'
  BY DEF IInv, TypeOK
<1>2. KeysExact' /\ ReadsOwn' /\ Fresh'
  BY DEF IInv, KeysExact, ReadsOwn, Fresh, Tls_Get
<1> QED BY <1>1, <1>2 DEF IInv

(* A key in hand becomes the one in use, or is freed.                      *)
LEMMA OfferKeeps ==
  ASSUME IInv, NEW t \in Threads, Offer(t), tmp[t] # INVALID
  PROVE  IInv'
<1>1. /\ pc[t] = "offer" /\ pc' = [pc EXCEPT ![t] = "set"]
      /\ name' = (IF name = INVALID THEN tmp[t] ELSE name)
      /\ keys' = keys \ (IF name = INVALID THEN {} ELSE {tmp[t]})
      /\ tmp' = [tmp EXCEPT ![t] = INVALID]
      /\ UNCHANGED <<slot, val, mine, refused>>
  BY DEF Offer, Go, Swapped, Freed
<1>2. TypeOK /\ tmp[t] \in Keys /\ name' # INVALID /\ name' \in Keys
  BY <1>1 DEF IInv, TypeOK
<1>3. tmp'[t] = INVALID /\ \A u \in Threads : u # t => tmp'[u] = tmp[u]
  BY <1>1, <1>2 DEF TypeOK
<1>4. TypeOK'
  <2>1. \A u \in Threads : /\ tmp'[u] # INVALID => pc'[u] = "offer"
                           /\ pc'[u] = "offer" => tmp'[u] # INVALID \/ u \in refused'
    BY <1>1, <1>2, <1>3 DEF TypeOK
  <2> QED BY <1>1, <1>2, <2>1 DEF TypeOK
<1>5. KeysExact'
  <2>1. Offering' = Offering \ {t}
    BY <1>2, <1>3 DEF Offering
  <2>2. KeysExact /\ keys = {tmp[u] : u \in Offering} \cup ({name} \ {INVALID})
    BY DEF IInv, KeysExact, Offering
  <2>3. keys' = {tmp'[u] : u \in Offering'} \cup ({name'} \ {INVALID})
    BY <1>1, <1>2, <1>3, <2>1, <2>2 DEF KeysExact, Offering
  <2>4. \A u, w \in Threads :
          tmp'[u] # INVALID => tmp'[u] # name' /\ (tmp'[u] = tmp'[w] => u = w)
    BY <1>1, <1>2, <1>3, <2>2 DEF KeysExact
  <2> QED BY <2>3, <2>4 DEF KeysExact, Offering
<1>6. ReadsOwn'
  BY <1>1, <1>2 DEF IInv, ReadsOwn, Fresh, Tls_Get
<1>7. Fresh'
  BY <1>1, <1>3 DEF IInv, Fresh
<1> QED BY <1>4, <1>5, <1>6, <1>7 DEF IInv

(* Without a key the swap and the TlsFree change nothing.                  *)
LEMMA OfferNothingKeeps ==
  ASSUME IInv, NEW t \in Threads, Offer(t), tmp[t] = INVALID
  PROVE  IInv'
<1>1. /\ pc[t] = "offer" /\ pc' = [pc EXCEPT ![t] = "set"]
      /\ name' = name /\ keys' = keys /\ tmp' = tmp /\ UNCHANGED <<slot, val, mine, refused>>
  BY TlsAssumption DEF Offer, Go, Swapped, Freed, IInv, TypeOK
<1>2. TypeOK'
  BY <1>1 DEF IInv, TypeOK
<1>3. KeysExact' /\ ReadsOwn' /\ Fresh'
  BY <1>1 DEF IInv, KeysExact, ReadsOwn, Fresh, Tls_Get
<1> QED BY <1>2, <1>3 DEF IInv

LEMMA SetValueKeeps ==
  ASSUME IInv, NEW t \in Threads, TlsSetValue(t), name # INVALID
  PROVE  IInv'
<1>1. /\ pc[t] = "set" /\ pc' = [pc EXCEPT ![t] = "out"]
      /\ slot' = [slot EXCEPT ![name][t] = val[t]]
      /\ val' = [val EXCEPT ![t] = Nil] /\ mine' = [mine EXCEPT ![t] = val[t]]
      /\ refused' = refused \ {t} /\ UNCHANGED <<name, keys, tmp>>
  BY DEF TlsSetValue, Go
<1>2. TypeOK /\ name \in Keys
  BY <1>1 DEF IInv, TypeOK
<1>3. /\ slot'[name][t] = val[t]
      /\ \A u \in Threads : u # t => slot'[name][u] = slot[name][u]
      /\ \A k \in Keys : k # name => slot'[k] = slot[k]
  BY <1>1, <1>2 DEF TypeOK
<1>4. TypeOK'
  BY <1>1, <1>2 DEF TypeOK
<1>5. KeysExact'
  BY <1>1 DEF IInv, KeysExact
<1>6. ReadsOwn'
  BY <1>1, <1>2, <1>3 DEF IInv, ReadsOwn, Tls_Get, TypeOK
<1>7. Fresh'
  BY <1>1, <1>2, <1>3 DEF IInv, Fresh, KeysExact, TypeOK
<1> QED BY <1>4, <1>5, <1>6, <1>7 DEF IInv

(* A refused thread stores nothing, and reads nothing.                     *)
LEMMA SetNothingKeeps ==
  ASSUME IInv, NEW t \in Threads, TlsSetValue(t), name = INVALID
  PROVE  IInv'
<1>1. /\ pc[t] = "set" /\ pc' = [pc EXCEPT ![t] = "out"]
      /\ val' = [val EXCEPT ![t] = Nil] /\ mine' = [mine EXCEPT ![t] = val[t]]
      /\ UNCHANGED <<name, keys, tmp, slot, refused>>
  BY DEF TlsSetValue, Go
<1>2. TypeOK /\ t \in refused
  BY <1>1 DEF IInv, TypeOK
<1>3. TypeOK'
  BY <1>1, <1>2 DEF TypeOK
<1>4. ReadsOwn'
  BY <1>1, <1>2 DEF IInv, ReadsOwn, Tls_Get, TypeOK
<1>5. KeysExact' /\ Fresh'
  BY <1>1 DEF IInv, KeysExact, Fresh
<1> QED BY <1>3, <1>4, <1>5 DEF IInv

LEMMA NextIInv == IInv /\ [Next]_vars => IInv'
<1> SUFFICES ASSUME IInv, [Next]_vars PROVE IInv'
  OBVIOUS
<1>1. CASE UNCHANGED vars
  BY <1>1 DEF vars, IInv, TypeOK, KeysExact, ReadsOwn, Fresh, Tls_Get
<1>2. CASE Next
  <2>1. ASSUME NEW t \in Threads, TlsAlloc(t) PROVE IInv'
    BY <2>1, AllocKeeps, RefusedKeeps DEF TlsAlloc, Go
  <2> QED BY <1>2, <2>1, SetKeeps, OfferKeeps, OfferNothingKeeps, SetValueKeeps, SetNothingKeeps DEF Next
<1> QED BY <1>1, <1>2

LEMMA Invariant == Spec => []IInv
  BY InitIInv, NextIInv, PTL DEF Spec

(* Every thread reads what it has set last, whichever thread's key won, or *)
(* null if the system had no key for it.                                   *)
THEOREM TlsReadsOwn == Spec => []ReadsOwn
<1>1. IInv => ReadsOwn BY DEF IInv
<1> QED BY <1>1, Invariant, PTL

(* No key is leaked, the key in use is never freed, and it stays typed.    *)
THEOREM TlsKeys == Spec => [](TypeOK /\ KeysExact)
<1>1. IInv => TypeOK /\ KeysExact BY DEF IInv
<1> QED BY <1>1, Invariant, PTL

=============================================================================
