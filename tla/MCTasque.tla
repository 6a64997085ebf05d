------------------------------ MODULE MCTasque ------------------------------
(* Small instances of Tasque for TLC: see the cfg files for the bounds.     *)
EXTENDS Tasque, TLC

Symmetry == Permutations(Procs)
=============================================================================
