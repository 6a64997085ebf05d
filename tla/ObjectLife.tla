----------------------------- MODULE ObjectLife -----------------------------
(***************************************************************************)
(* What Include/c+/csup/object.hc promises the programs that use objects:  *)
(* an object is made in memory that no other object has, it lives as long  *)
(* as something refers to it, it is destroyed once, when the last          *)
(* reference goes, and only then may its memory be used again.             *)
(***************************************************************************)
CONSTANTS Memory, Refs, Null

VARIABLES
  ref,     (* reference -> the object it refers to                          *)
  dying    (* the objects being destroyed                                   *)

vars == <<ref, dying>>

Live(p) == \E x \in Refs : ref[x] = p

Init == ref = [x \in Refs |-> Null] /\ dying = {}

Create(x, p) ==
  /\ ref[x] = Null /\ ~Live(p) /\ p \notin dying
  /\ ref' = [ref EXCEPT ![x] = p]
  /\ UNCHANGED dying

Share(x, p) ==
  /\ ref[x] = Null /\ Live(p)
  /\ ref' = [ref EXCEPT ![x] = p]
  /\ UNCHANGED dying

Drop(x) ==
  LET p == ref[x] IN
  /\ p # Null
  /\ ref' = [ref EXCEPT ![x] = Null]
  /\ dying' = IF \E y \in Refs \ {x} : ref[y] = p THEN dying ELSE dying \cup {p}

Return(p) ==
  /\ p \in dying
  /\ dying' = dying \ {p}
  /\ UNCHANGED ref

Next ==
  \/ \E x \in Refs, p \in Memory : Create(x, p) \/ Share(x, p)
  \/ \E x \in Refs : Drop(x)
  \/ \E p \in Memory : Return(p)

Spec == Init /\ [][Next]_vars
=============================================================================
