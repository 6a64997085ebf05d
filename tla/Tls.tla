-------------------------------- MODULE Tls ---------------------------------
(***************************************************************************)
(* Thread-local storage of Include/c+/csup/tls.hc where the compiler has   *)
(* none of its own: a variable holds the key of a slot of the system.  The *)
(* first Tls_Set allocates the key; of several first ones the              *)
(* compare-and-swap picks one, the others free theirs, which the system    *)
(* may hand out again.  The system may also have no key left, which no     *)
(* caller hears of: the value is then stored nowhere.  csupport.hc keeps   *)
(* the support record of a thread in such a slot: Tls_Get, and if that is  *)
(* null, a new record and Tls_Set.                                         *)
(***************************************************************************)
EXTENDS Integers, FiniteSets

CONSTANTS
  Threads,
  Keys,      (* what TlsAlloc may return                                    *)
  Values,
  INVALID,   (* INVALID_TLS_VALUE                                           *)
  Nil        (* the null pointer                                            *)

ASSUME TlsAssumption == INVALID \notin Keys /\ Nil \notin Values

VARIABLES
  name,   (* the variable of __Tls_Define                                   *)
  keys,   (* the keys that are allocated                                    *)
  slot,   (* key -> thread -> the value of the slot                         *)
  pc,     (* thread -> where it is in Tls_Set                               *)
  tmp,    (* thread -> the key it has allocated and not yet offered         *)
  val,    (* thread -> the value it is setting                              *)
  mine,   (* thread -> the value it has set last (history)                  *)
  refused (* threads that were refused a key and have stored nothing since  *)

vars == <<name, keys, slot, pc, tmp, val, mine, refused>>

Init ==
  /\ name = INVALID /\ keys = {}
  /\ slot = [k \in Keys |-> [t \in Threads |-> Nil]]
  /\ pc = [t \in Threads |-> "out"] /\ tmp = [t \in Threads |-> INVALID]
  /\ val = [t \in Threads |-> Nil] /\ mine = [t \in Threads |-> Nil]
  /\ refused = {}

Go(t, from, to) == pc[t] = from /\ pc' = [pc EXCEPT ![t] = to]

(* Tls_Set: the unsynchronised test of the variable.                       *)
Tls_Set(t, v) ==
  /\ Go(t, "out", IF name = INVALID THEN "alloc" ELSE "set")
  /\ val' = [val EXCEPT ![t] = v]
  /\ UNCHANGED <<name, keys, slot, tmp, mine, refused>>

(* TlsAlloc: the slots of a new key are null in every thread.  Or there is *)
(* no key, and what it returns is INVALID_TLS_VALUE, TLS_OUT_OF_INDEXES.   *)
TlsAlloc(t) ==
  /\ Go(t, "alloc", "offer")
  /\ \/ \E k \in Keys \ keys :
          /\ tmp' = [tmp EXCEPT ![t] = k] /\ keys' = keys \cup {k}
          /\ slot' = [slot EXCEPT ![k] = [u \in Threads |-> Nil]]
          /\ UNCHANGED refused
     \/ refused' = refused \cup {t} /\ UNCHANGED <<tmp, keys, slot>>
  /\ UNCHANGED <<name, val, mine>>

Swapped_Blind(t) == tmp[t]
Swapped(t) == IF name = INVALID THEN tmp[t] ELSE name
Freed_Nothing(t) == {}
Freed(t) == IF name = INVALID THEN {} ELSE {tmp[t]}

(* The swap with INVALID_TLS_VALUE in hand changes nothing, and neither    *)
(* does the TlsFree of it.                                                 *)
Offer(t) ==
  /\ Go(t, "offer", "set")
  /\ name' = Swapped(t) /\ keys' = keys \ Freed(t)
  /\ tmp' = [tmp EXCEPT ![t] = INVALID]
  /\ UNCHANGED <<slot, val, mine, refused>>

(* TlsSetValue reads the variable again; without a key it does nothing.    *)
TlsSetValue(t) ==
  /\ Go(t, "set", "out")
  /\ \/ /\ name # INVALID
        /\ slot' = [slot EXCEPT ![name][t] = val[t]] /\ refused' = refused \ {t}
     \/ name = INVALID /\ UNCHANGED <<slot, refused>>
  /\ val' = [val EXCEPT ![t] = Nil] /\ mine' = [mine EXCEPT ![t] = val[t]]
  /\ UNCHANGED <<name, keys, tmp>>

(* Tls_Get takes the variable by value: one read, at the call.             *)
Tls_Get(t) == IF name = INVALID THEN Nil ELSE slot[name][t]

Next ==
  \E t \in Threads :
    \/ \E v \in Values : Tls_Set(t, v)
    \/ TlsAlloc(t) \/ Offer(t) \/ TlsSetValue(t)

Spec == Init /\ [][Next]_vars

-----------------------------------------------------------------------------
(* Properties.                                                             *)

(* Every variable keeps its type, and the variable has a key after a first *)
(* Tls_Set that was not refused one.                                       *)
TypeOK ==
  /\ name \in Keys \cup {INVALID} /\ keys \subseteq Keys
  /\ slot \in [Keys -> [Threads -> Values \cup {Nil}]]
  /\ pc \in [Threads -> {"out", "alloc", "offer", "set"}]
  /\ tmp \in [Threads -> Keys \cup {INVALID}]
  /\ val \in [Threads -> Values \cup {Nil}] /\ mine \in [Threads -> Values \cup {Nil}]
  /\ refused \subseteq Threads
  /\ \A t \in Threads : /\ tmp[t] # INVALID => pc[t] = "offer"
                        /\ pc[t] = "offer" => tmp[t] # INVALID \/ t \in refused
                        /\ pc[t] = "set" => name # INVALID \/ t \in refused

(* A thread reads what it has set last and nobody else's value, null if    *)
(* nothing: the support record of a thread is made once.  A value is lost  *)
(* only when the system refused the thread a key and nobody else has one.  *)
ReadsOwn ==
  \A t \in Threads : Tls_Get(t) = mine[t] \/ (t \in refused /\ Tls_Get(t) = Nil)

(* The keys that exist are the one in use and those about to be offered:   *)
(* the key in use is never freed, and the losers keep none.                *)
KeysExact ==
  /\ keys = {tmp[t] : t \in {u \in Threads : tmp[u] # INVALID}} \cup ({name} \ {INVALID})
  /\ \A t, u \in Threads : tmp[t] # INVALID => tmp[t] # name /\ (tmp[t] = tmp[u] => t = u)

=============================================================================
