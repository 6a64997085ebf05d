------------------------------- MODULE MCCsup -------------------------------
(* Instances of Csup for TLC: t1 goes deep, t2 contends for the locks and  *)
(* drops references.                                                       *)
EXTENDS Csup, TLC

CONSTANTS t1, t2, p1, p2

Depths == [t \in Threads |-> IF t = t1 THEN 3 ELSE 1]
Pools  == [t \in Threads |-> IF t = t1 THEN 2 ELSE 0]

(* Init and Next treat the pointers alike.                                 *)
Symmetry == Permutations(Ptrs)

=============================================================================
