----------------------------- MODULE MCMempool -----------------------------
(* Instances of Mempool for TLC.                                           *)
EXTENDS Mempool, TLC

CONSTANTS s1, s2, b1, b2, t1, t2, t3, x1, x2, x3

TwoThreads == {t1, t2}
ThreeThreads == {t1, t2, t3}
OneSlot == {s1}
TwoSlots == {s1, s2}
TwoBlocks == {b1, b2}
TwoRefs == {x1, x2}
ThreeRefs == {x1, x2, x3}

(* Init and Next treat the threads alike, and so the slots, the blocks and *)
(* the references.                                                         *)
Symmetry == Permutations(Threads) \cup Permutations(Slots)
              \cup Permutations(Blocks) \cup Permutations(Refs)

=============================================================================
