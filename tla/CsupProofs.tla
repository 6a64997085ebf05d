----------------------------- MODULE CsupProofs -----------------------------
(***************************************************************************)
(* Theorems about Csup, for any threads, locks and objects and any depth   *)
(* of nesting.  What a thread keeps for itself is sound by itself: Sane    *)
(* speaks of one stack, its jump buffers and its pool, and the lemmas      *)
(* about it of the calls that change them.                                 *)
(***************************************************************************)
EXTENDS Csup, FiniteSetTheorems, WellFoundedInduction, TLAPS

FrameSet  == [kind : Kinds, n : Nat, keep : Ptrs \cup {Nil}, kept : BOOLEAN]
SlotSet   == [cs : Locks, at : Nat]
JmpBufSet == [env : Nat \ {0}, top : Nat, locks : SUBSET SlotSet]
Truncs    == {"endauto", "endtry", "raise"}
Tries     == {"try", "endtry"}

(* A truncation runs below a destructor and the sections it has entered.   *)
Unwound(s, u) ==
  /\ u => \E i \in 1 .. Len(s) : s[i].kind \in Truncs
  /\ \A i \in 1 .. Len(s) : s[i].kind \in Truncs \cup {"clean"} => u
  /\ \A i, k \in 1 .. Len(s) : s[i].kind \in Truncs /\ k > i =>
       s[k].kind = IF k = i + 1 THEN "clean" ELSE "lock"
  /\ \A k \in 1 .. Len(s) : s[k].kind = "clean" => k > 1 /\ s[k - 1].kind \in Truncs

(* The jump buffers are those of the open __Try blocks.                    *)
Lands(s, j) == \A k \in 1 .. Len(j) :
  j[k].env \in 1 .. Len(s) /\ s[j[k].env].kind \in Tries /\ s[j[k].env].n = j[k].top
InOrder(j) == \A k, m \in 1 .. Len(j) : k < m => j[k].env < j[m].env
Covered(s, j) ==
  \A i \in 1 .. Len(s) : s[i].kind \in Tries => \E k \in 1 .. Len(j) : j[k].env = i
Jumping(s, j) == \A i \in 1 .. Len(s) : s[i].kind = "raise" =>
  Len(j) > 0 /\ i = j[Len(j)].env + 1 /\ s[i].n = j[Len(j)].top
Jumps(s, j) == Lands(s, j) /\ InOrder(j) /\ Covered(s, j) /\ Jumping(s, j)

(* Scopes own consecutive parts of the pool.                               *)
Owners == Scopes \cup {"release"}
Stacked(s) == \A i, k \in 1 .. Len(s) :
  i < k /\ s[i].kind \in Owners /\ s[k].kind \in Scopes => s[i].n <= s[k].n
Within(s, p) == \A i \in 1 .. Len(s) :
  /\ s[i].kind \in Scopes => s[i].n <= Len(p)
  /\ s[i].kind = "release" => s[i].n \in 1 .. Len(p)
  /\ s[i].kind = "clean" => i > 1 /\ s[i].n = Len(p) /\ s[i - 1].n < Len(p)
Nested(s, p) == Stacked(s) /\ Within(s, p)

(* Sections are entered for locks.                                         *)
ForLocks(s) == \A i \in 1 .. Len(s) : s[i].kind = "lock" => s[i].n \in Locks

(* Jump buffer k records the section at i.                                 *)
Covers(s, j, k, i) ==
  /\ s[i].kind = "lock" /\ i > j[k].env
  /\ k < Len(j) => i < j[k + 1].env
  /\ \A c \in 1 .. Len(s) : s[c].kind = "clean" => i < c
Records(s, j) ==
  \A k \in 1 .. Len(j) :
    (k < Len(j) \/ \A i \in 1 .. Len(s) : s[i].kind # "raise") =>
      \A l \in Locks, i \in Nat :
        Slot(l, i) \in j[k].locks <=> i \in 1 .. Len(s) /\ Covers(s, j, k, i) /\ s[i].n = l

Typed(s, j, p, u) ==
  s \in Seq(FrameSet) /\ j \in Seq(JmpBufSet) /\ p \in Seq(Ptrs \cup {Nil}) /\ u \in BOOLEAN

Sane(s, j, p, u) ==
  /\ Typed(s, j, p, u)
  /\ Unwound(s, u) /\ Jumps(s, j) /\ Nested(s, p) /\ ForLocks(s) /\ Records(s, j)

(* How a stack changes: a frame more, the first n kept, a new frame on top.*)
Grows(s, s2)    == s2 \in Seq(FrameSet) /\ Len(s2) = Len(s) + 1 /\ \A i \in 1 .. Len(s) : s2[i] = s[i]
Cuts(s, s2, n)  == /\ s2 \in Seq(FrameSet) /\ n \in 0 .. Len(s) /\ Len(s2) = n
                   /\ \A i \in 1 .. n : s2[i] = s[i]
Retops(s, s2)   == /\ s2 \in Seq(FrameSet) /\ Len(s2) = Len(s) /\ Len(s) > 0
                   /\ \A i \in 1 .. Len(s) - 1 : s2[i] = s[i]

LEMMA FrameTypes ==
  ASSUME NEW s \in Seq(FrameSet)
  PROVE  \A i \in 1 .. Len(s) : /\ s[i].kind \in Kinds /\ s[i].n \in Nat
                                /\ s[i].keep \in Ptrs \cup {Nil} /\ s[i].kept \in BOOLEAN
<1>1. \A i \in 1 .. Len(s) : s[i] \in FrameSet
  OBVIOUS
<1> QED BY <1>1 DEF FrameSet

LEMMA GrowsAppend ==
  ASSUME NEW s \in Seq(FrameSet), NEW f \in FrameSet
  PROVE  Grows(s, Append(s, f)) /\ Append(s, f)[Len(s) + 1] = f
  BY DEF Grows

LEMMA PrefixOf ==
  ASSUME NEW S, NEW x \in Seq(S), NEW n \in 0 .. Len(x)
  PROVE  /\ SubSeq(x, 1, n) \in Seq(S) /\ Len(SubSeq(x, 1, n)) = n
         /\ \A i \in 1 .. n : SubSeq(x, 1, n)[i] = x[i]
  OBVIOUS

LEMMA CutsSubSeq ==
  ASSUME NEW s \in Seq(FrameSet), NEW n \in 0 .. Len(s)
  PROVE  Cuts(s, SubSeq(s, 1, n), n)
  BY DEF Cuts

LEMMA CutsFront ==
  ASSUME NEW s \in Seq(FrameSet), s # <<>>
  PROVE  Cuts(s, Front(s), Len(s) - 1)
<1>1. Len(s) - 1 \in 0 .. Len(s)
  OBVIOUS
<1> QED BY <1>1, CutsSubSeq DEF Front

LEMMA RetopsSet ==
  ASSUME NEW s \in Seq(FrameSet), s # <<>>, NEW f \in FrameSet
  PROVE  Retops(s, [s EXCEPT ![Len(s)] = f]) /\ [s EXCEPT ![Len(s)] = f][Len(s)] = f
  BY DEF Retops

-----------------------------------------------------------------------------
(* Truncations and what may stand above them                               *)

LEMMA UnwoundGrows ==
  ASSUME NEW s \in Seq(FrameSet), NEW u \in BOOLEAN, NEW s2, Unwound(s, u), Grows(s, s2),
         \/ s2[Len(s) + 1].kind \notin Truncs \cup {"clean"} /\ u = FALSE
         \/ s2[Len(s) + 1].kind = "lock" /\ s # <<>> /\ s[Len(s)].kind \notin Truncs
         \/ s2[Len(s) + 1].kind = "clean" /\ s # <<>> /\ s[Len(s)].kind \in Truncs
  PROVE  Unwound(s2, u)
<1> DEFINE f == s2[Len(s) + 1]
<1>1. \A i \in 1 .. Len(s2) : (i \in 1 .. Len(s) /\ s2[i] = s[i]) \/ (i = Len(s) + 1 /\ s2[i] = f)
  BY DEF Grows
<1>2. Len(s2) = Len(s) + 1 /\ \A i \in 1 .. Len(s) : i \in 1 .. Len(s2) /\ s2[i] = s[i]
  BY DEF Grows
<1>3. CASE f.kind \notin Truncs \cup {"clean"} /\ u = FALSE
  <2>1. \A i \in 1 .. Len(s2) : s2[i].kind \notin Truncs \cup {"clean"}
    BY <1>1, <1>3 DEF Unwound
  <2> QED BY <1>3, <2>1 DEF Unwound
<1>4. ASSUME s # <<>>, f.kind \in {"lock", "clean"},
             f.kind = "lock" <=> s[Len(s)].kind \notin Truncs
      PROVE  Unwound(s2, u)
  <2>1. Len(s) \in 1 .. Len(s) /\ f.kind \notin Truncs
    BY <1>4 DEF Truncs
  <2> HIDE DEF f
  <2>2. u => \E i \in 1 .. Len(s2) : s2[i].kind \in Truncs
    BY <1>2 DEF Unwound
  <2>3. \A i \in 1 .. Len(s2) : s2[i].kind \in Truncs \cup {"clean"} => u
    BY <1>1, <1>4, <2>1 DEF Unwound
  <2>4. ASSUME NEW i \in 1 .. Len(s2), NEW k \in 1 .. Len(s2), s2[i].kind \in Truncs, k > i
        PROVE  s2[k].kind = IF k = i + 1 THEN "clean" ELSE "lock"
    <3>1. i \in 1 .. Len(s) /\ s[i].kind \in Truncs
      BY <1>1, <2>1, <2>4
    <3>2. CASE k \in 1 .. Len(s) /\ s2[k] = s[k]
      BY <2>4, <3>1, <3>2 DEF Unwound
    <3>3. CASE k = Len(s) + 1 /\ s2[k] = f
      <4>1. i = Len(s) => f.kind = "clean"
        BY <1>4, <3>1
      <4>2. i # Len(s) => s[Len(s)].kind \in {"clean", "lock"}
        BY <2>1, <3>1 DEF Unwound
      <4>3. i # Len(s) => f.kind = "lock"
        BY <1>4, <4>2 DEF Truncs
      <4> QED BY <2>1, <3>1, <3>3, <4>1, <4>3
    <3> QED BY <1>1, <3>2, <3>3
  <2>5. ASSUME NEW k \in 1 .. Len(s2), s2[k].kind = "clean"
        PROVE  k > 1 /\ s2[k - 1].kind \in Truncs
    <3>1. CASE k \in 1 .. Len(s) /\ s2[k] = s[k]
      <4>1. k > 1 /\ s[k - 1].kind \in Truncs
        BY <2>5, <3>1 DEF Unwound
      <4>2. k - 1 \in 1 .. Len(s)
        BY <3>1, <4>1
      <4> QED BY <1>2, <4>1, <4>2
    <3>2. CASE k = Len(s) + 1 /\ s2[k] = f
      <4>1. s[Len(s)].kind \in Truncs
        BY <1>4, <2>5, <3>2
      <4> QED BY <1>2, <2>1, <3>2, <4>1
    <3> QED BY <1>1, <3>1, <3>2
  <2> QED BY <2>2, <2>3, <2>4, <2>5 DEF Unwound
<1> QED BY <1>3, <1>4

LEMMA UnwoundPops ==
  ASSUME NEW s \in Seq(FrameSet), NEW u \in BOOLEAN, NEW s2, Unwound(s, u), Cuts(s, s2, Len(s) - 1),
         s # <<>>, s[Len(s)].kind \notin Truncs
  PROVE  Unwound(s2, u)
  BY DEF Cuts, Unwound, Truncs

LEMMA UnwoundEnds ==
  ASSUME NEW s \in Seq(FrameSet), NEW s2, NEW n, Unwound(s, TRUE), Cuts(s, s2, n),
         n < Len(s), s[Len(s)].kind \in Truncs
  PROVE  Unwound(s2, FALSE)
  BY DEF Cuts, Unwound, Truncs

LEMMA UnwoundBegins ==
  ASSUME NEW s \in Seq(FrameSet), NEW s2, Unwound(s, FALSE),
         Retops(s, s2), s2[Len(s)].kind \in Truncs
  PROVE  Unwound(s2, TRUE)
  BY DEF Retops, Unwound, Truncs

LEMMA UnwoundRaises ==
  ASSUME NEW s \in Seq(FrameSet), NEW s2, NEW n, NEW s3, Unwound(s, FALSE),
         Cuts(s, s2, n), Grows(s2, s3), s3[n + 1].kind = "raise"
  PROVE  Unwound(s3, TRUE)
  BY DEF Cuts, Grows, Unwound, Truncs

LEMMA UnwoundSame ==
  ASSUME NEW s \in Seq(FrameSet), NEW s2, NEW u, Unwound(s, u),
         Retops(s, s2), s2[Len(s)].kind = s[Len(s)].kind
  PROVE  Unwound(s2, u)
  BY DEF Retops, Unwound, Truncs

-----------------------------------------------------------------------------
(* Sections and slots                                                      *)

LEMMA SlotIs ==
  /\ \A l, m, i, k : Slot(l, i) = Slot(m, k) <=> l = m /\ i = k
  /\ \A l \in Locks, i \in Nat : Slot(l, i) \in SlotSet
  /\ \A e \in SlotSet : e = Slot(e.cs, e.at) /\ e.cs \in Locks /\ e.at \in Nat
<1>1. \A l, m, i, k : Slot(l, i) = Slot(m, k) => l = m /\ i = k
  <2>1. \A l, i : Slot(l, i).cs = l /\ Slot(l, i).at = i
    BY DEF Slot
  <2> QED BY <2>1
<1>2. \A l, m, i, k : l = m /\ i = k => Slot(l, i) = Slot(m, k)
  OBVIOUS
<1>3. \A l \in Locks, i \in Nat : Slot(l, i) \in SlotSet
  BY DEF Slot, SlotSet
<1>4. \A e \in SlotSet : e = Slot(e.cs, e.at) /\ e.cs \in Locks /\ e.at \in Nat
  BY DEF Slot, SlotSet
<1> QED BY <1>1, <1>2, <1>3, <1>4

LEMMA ForLocksGrows ==
  ASSUME NEW s \in Seq(FrameSet), NEW s2, ForLocks(s), Grows(s, s2),
         s2[Len(s) + 1].kind = "lock" => s2[Len(s) + 1].n \in Locks
  PROVE  ForLocks(s2)
  BY DEF Grows, ForLocks

LEMMA ForLocksCuts ==
  ASSUME NEW s \in Seq(FrameSet), NEW s2, NEW n, ForLocks(s), Cuts(s, s2, n)
  PROVE  ForLocks(s2)
  BY DEF Cuts, ForLocks

LEMMA ForLocksRetops ==
  ASSUME NEW s \in Seq(FrameSet), NEW s2, ForLocks(s), Retops(s, s2), s2[Len(s)].kind # "lock"
  PROVE  ForLocks(s2)
  BY DEF Retops, ForLocks

-----------------------------------------------------------------------------
(* Scopes and the pool                                                     *)

LEMMA NestedGrows ==
  ASSUME NEW s \in Seq(FrameSet), NEW p, Len(p) \in Nat, NEW s2, Nested(s, p), Grows(s, s2),
         NEW f, f = s2[Len(s) + 1],
         \/ f.kind = "lock"
         \/ f.kind = "release" /\ f.n \in 1 .. Len(p)
         \/ f.kind = "clean" /\ f.n = Len(p) /\ s # <<>> /\ s[Len(s)].n < Len(p)
         \/ /\ f.kind \in Scopes /\ f.n <= Len(p)
            /\ \A i \in 1 .. Len(s) : s[i].kind \in Owners => s[i].n <= f.n
  PROVE  Nested(s2, p)
<1>1. \A i \in 1 .. Len(s2) : i \in 1 .. Len(s) \/ i = Len(s) + 1
  BY DEF Grows
<1>2. Stacked(s2)
  BY <1>1 DEF Grows, Nested, Stacked, Owners, Scopes
<1>3. Within(s2, p)
  BY <1>1 DEF Grows, Nested, Within, Scopes
<1> QED BY <1>2, <1>3 DEF Nested

LEMMA NestedCuts ==
  ASSUME NEW s \in Seq(FrameSet), NEW p, NEW s2, NEW n, Nested(s, p), Cuts(s, s2, n)
  PROVE  Nested(s2, p)
<1>1. \A i \in 1 .. Len(s2) : i \in 1 .. Len(s) /\ s2[i] = s[i] /\ (i > 1 => s2[i - 1] = s[i - 1])
  BY DEF Cuts
<1>2. Stacked(s2)
  BY <1>1 DEF Nested, Stacked
<1>3. Within(s2, p)
  BY <1>1 DEF Nested, Within
<1> QED BY <1>2, <1>3 DEF Nested

LEMMA NestedRetops ==
  ASSUME NEW s \in Seq(FrameSet), NEW p, NEW s2, Nested(s, p), Retops(s, s2),
         s[Len(s)].kind \in Scopes, s2[Len(s)].kind \in Scopes, s2[Len(s)].n = s[Len(s)].n
  PROVE  Nested(s2, p)
<1>1. /\ Len(s2) = Len(s) /\ \A i \in 1 .. Len(s) : s2[i].n = s[i].n /\ (i < Len(s) => s2[i] = s[i])
      /\ \A i \in 1 .. Len(s) : i > 1 => s2[i - 1] = s[i - 1]
  BY DEF Retops
<1>2. \A k \in 1 .. Len(s) : s2[k].kind \in Scopes => s[k].kind \in Scopes
  BY <1>1
<1>3. \A i, k \in 1 .. Len(s) : i < k => s2[i] = s[i]
  BY <1>1
<1>4. Stacked(s2)
  BY <1>1, <1>2, <1>3 DEF Nested, Stacked
<1>5. Within(s2, p)
  BY <1>1 DEF Nested, Within, Scopes
<1> QED BY <1>4, <1>5 DEF Nested

LEMMA NestedPools ==
  ASSUME NEW s \in Seq(FrameSet), NEW p, Len(p) \in Nat, NEW q, Len(q) \in Nat, Nested(s, p),
         Len(q) >= Len(p), Len(q) = Len(p) \/ \A i \in 1 .. Len(s) : s[i].kind # "clean"
  PROVE  Nested(s, q)
<1>1. \A i \in 1 .. Len(s) : s[i].n \in Nat
  BY FrameTypes
<1>2. Within(s, q)
  BY <1>1 DEF Nested, Within
<1> QED BY <1>2 DEF Nested

(* One entry less, above the breaker of the truncation.                    *)
LEMMA NestedLowers ==
  ASSUME NEW s \in Seq(FrameSet), NEW p, Len(p) \in Nat, NEW q, Nested(s, p),
         Len(q) = Len(p) - 1, s # <<>>, s[Len(s)].kind \in Truncs, s[Len(s)].n < Len(p),
         \A i \in 1 .. Len(s) : s[i].kind # "clean"
  PROVE  Nested(s, q)
<1>1. \A i \in 1 .. Len(s) : s[i].n \in Nat
  BY FrameTypes
<1>2. Len(s) \in 1 .. Len(s)
  OBVIOUS
<1>3. s[Len(s)].kind \in Scopes
  BY DEF Truncs, Scopes
<1>4. \A i \in 1 .. Len(s) : s[i].kind \in Owners => s[i].n <= s[Len(s)].n
  BY <1>1, <1>2, <1>3 DEF Nested, Stacked
<1>5. Within(s, q)
  BY <1>1, <1>2, <1>4 DEF Nested, Within, Owners
<1> QED BY <1>5 DEF Nested

-----------------------------------------------------------------------------
(* The jump buffers                                                        *)

(* The same jump buffers but for their locks, one fewer, one more.         *)
SameJumps(j, j2) == /\ Len(j2) = Len(j)
                    /\ \A k \in 1 .. Len(j) : j2[k].env = j[k].env /\ j2[k].top = j[k].top
Shorter(j, j2)   == /\ Len(j2) = Len(j) - 1 /\ Len(j) > 0
                    /\ \A k \in 1 .. Len(j) - 1 : j2[k] = j[k]
Longer(j, j2)    == Len(j2) = Len(j) + 1 /\ \A k \in 1 .. Len(j) : j2[k] = j[k]

LEMMA JmpBufTypes ==
  ASSUME NEW j \in Seq(JmpBufSet)
  PROVE  /\ Len(j) \in Nat
         /\ \A k \in 1 .. Len(j) : /\ j[k] \in JmpBufSet /\ j[k].env \in Nat /\ j[k].env > 0
                                   /\ j[k].top \in Nat /\ j[k].locks \in SUBSET SlotSet
<1>1. \A k \in 1 .. Len(j) : j[k] \in JmpBufSet
  OBVIOUS
<1> QED BY <1>1 DEF JmpBufSet

LEMMA JumpsSame ==
  ASSUME NEW s, NEW j \in Seq(JmpBufSet), NEW j2, Jumps(s, j), SameJumps(j, j2)
  PROVE  Jumps(s, j2)
<1>1. Lands(s, j2)
  BY DEF Jumps, SameJumps, Lands
<1>2. InOrder(j2)
  BY DEF Jumps, SameJumps, InOrder
<1>3. Covered(s, j2)
  BY DEF Jumps, SameJumps, Covered
<1>4. Jumping(s, j2)
  BY DEF Jumps, SameJumps, Jumping
<1> QED BY <1>1, <1>2, <1>3, <1>4 DEF Jumps

LEMMA JumpsGrows ==
  ASSUME NEW s \in Seq(FrameSet), NEW j \in Seq(JmpBufSet), NEW s2, Jumps(s, j), Grows(s, s2),
         s2[Len(s) + 1].kind \notin Tries \cup {"raise"}
  PROVE  Jumps(s2, j)
<1>1. Lands(s2, j)
  BY DEF Jumps, Grows, Lands
<1>2. Covered(s2, j)
  BY DEF Jumps, Grows, Covered
<1>3. Jumping(s2, j)
  BY DEF Jumps, Grows, Jumping
<1> QED BY <1>1, <1>2, <1>3 DEF Jumps

LEMMA JumpsPops ==
  ASSUME NEW s \in Seq(FrameSet), NEW j \in Seq(JmpBufSet), NEW s2, Jumps(s, j), Cuts(s, s2, Len(s) - 1),
         s # <<>>, s[Len(s)].kind \notin Tries
  PROVE  Jumps(s2, j)
<1>1. Lands(s2, j)
  <2> SUFFICES ASSUME NEW k \in 1 .. Len(j)
               PROVE  /\ j[k].env \in 1 .. Len(s2) /\ s2[j[k].env].kind \in Tries
                      /\ s2[j[k].env].n = j[k].top
    BY DEF Lands
  <2>1. /\ j[k].env \in 1 .. Len(s) /\ s[j[k].env].kind \in Tries
        /\ s[j[k].env].n = j[k].top
    BY DEF Jumps, Lands
  <2> DEFINE e == j[k].env
  <2>2. e # Len(s)
    BY <2>1
  <2>3. Len(s) \in Nat
    OBVIOUS
  <2> HIDE DEF e
  <2>4. e \in 1 .. Len(s) - 1
    BY <2>1, <2>2, <2>3 DEF e
  <2>5. e \in 1 .. Len(s2) /\ s2[e] = s[e]
    BY <2>4 DEF Cuts
  <2> QED BY <2>1, <2>5 DEF e
<1>2. \A i \in 1 .. Len(s2) : i \in 1 .. Len(s) /\ s2[i] = s[i]
  BY DEF Cuts
<1>3. Covered(s2, j)
  BY <1>2 DEF Jumps, Covered
<1>4. Jumping(s2, j)
  BY <1>2 DEF Jumps, Jumping
<1> QED BY <1>1, <1>3, <1>4 DEF Jumps

LEMMA JumpsRetops ==
  ASSUME NEW s \in Seq(FrameSet), NEW j \in Seq(JmpBufSet), NEW s2, Jumps(s, j), Retops(s, s2),
         s[Len(s)].kind \in Tries <=> s2[Len(s)].kind \in Tries,
         s2[Len(s)].kind = "raise" => s[Len(s)].kind = "raise",
         s2[Len(s)].n = s[Len(s)].n
  PROVE  Jumps(s2, j)
<1>0. \A i \in 1 .. Len(s) : /\ s2[i].kind \in Tries <=> s[i].kind \in Tries
                             /\ s2[i].kind = "raise" => s[i].kind = "raise"
                             /\ s2[i].n = s[i].n
  BY DEF Retops
<1>1. Lands(s2, j)
  BY <1>0 DEF Jumps, Retops, Lands
<1>2. Covered(s2, j)
  BY <1>0 DEF Jumps, Retops, Covered
<1>3. Jumping(s2, j)
  BY <1>0 DEF Jumps, Retops, Jumping
<1> QED BY <1>1, <1>2, <1>3 DEF Jumps

LEMMA JumpsTry ==
  ASSUME NEW s \in Seq(FrameSet), NEW j \in Seq(JmpBufSet), NEW s2, NEW j2, Jumps(s, j), Grows(s, s2),
         Longer(j, j2), j2[Len(j) + 1].env = Len(s) + 1, j2[Len(j) + 1].top = s2[Len(s) + 1].n,
         s2[Len(s) + 1].kind = "try", \A i \in 1 .. Len(s) : s[i].kind # "raise"
  PROVE  Jumps(s2, j2)
<1>0. \A k \in 1 .. Len(j2) : k \in 1 .. Len(j) \/ k = Len(j) + 1
  BY JmpBufTypes DEF Longer
<1>1. Lands(s2, j2)
  BY <1>0 DEF Jumps, Grows, Longer, Lands, Tries
<1>2. InOrder(j2)
  BY <1>0, JmpBufTypes DEF Jumps, Grows, Longer, InOrder, Lands
<1>3. Covered(s2, j2)
  <2> SUFFICES ASSUME NEW i \in 1 .. Len(s2), s2[i].kind \in Tries
               PROVE  \E k \in 1 .. Len(j2) : j2[k].env = i
    BY DEF Covered
  <2>1. CASE i = Len(s) + 1
    BY <2>1, JmpBufTypes DEF Longer
  <2>2. CASE i # Len(s) + 1
    <3>1. i \in 1 .. Len(s) /\ s[i].kind \in Tries
      BY <2>2 DEF Grows
    <3>2. PICK k \in 1 .. Len(j) : j[k].env = i
      BY <3>1 DEF Jumps, Covered
    <3> QED BY <3>2, JmpBufTypes DEF Longer
  <2> QED BY <2>1, <2>2
<1>4. Jumping(s2, j2)
  BY DEF Grows, Jumping
<1> QED BY <1>1, <1>2, <1>3, <1>4 DEF Jumps

(* The innermost of them.                                                  *)
LEMMA JumpsTop ==
  ASSUME NEW s, NEW j \in Seq(JmpBufSet), Jumps(s, j), Len(j) > 0
  PROVE  /\ j[Len(j)].env \in 1 .. Len(s) /\ s[j[Len(j)].env].kind \in Tries
         /\ s[j[Len(j)].env].n = j[Len(j)].top
         /\ \A i \in 1 .. Len(s) : s[i].kind \in Tries => i <= j[Len(j)].env
         /\ \A k \in 1 .. Len(j) - 1 : j[k].env \in 1 .. j[Len(j)].env - 1
<1>1. Len(j) \in 1 .. Len(j)
  BY JmpBufTypes
<1>2. \A k \in 1 .. Len(j) - 1 : j[k].env \in 1 .. j[Len(j)].env - 1
  BY <1>1, JmpBufTypes DEF Jumps, InOrder
<1>3. ASSUME NEW i \in 1 .. Len(s), s[i].kind \in Tries
      PROVE  i <= j[Len(j)].env
  <2>1. PICK k \in 1 .. Len(j) : j[k].env = i
    BY <1>3 DEF Jumps, Covered
  <2> QED BY <2>1, <1>2, JmpBufTypes
<1> QED BY <1>1, <1>2, <1>3 DEF Jumps, Lands

LEMMA JumpsRaises ==
  ASSUME NEW s \in Seq(FrameSet), NEW j \in Seq(JmpBufSet), NEW s2, NEW s3, Jumps(s, j), Len(j) > 0,
         Cuts(s, s2, j[Len(j)].env), Grows(s2, s3), s3[Len(s3)].kind = "raise",
         s3[Len(s3)].n = j[Len(j)].top, \A i \in 1 .. Len(s) : s[i].kind # "raise"
  PROVE  Jumps(s3, j)
<1>1. /\ j[Len(j)].env \in 1 .. Len(s)
      /\ \A k \in 1 .. Len(j) : j[k].env \in 1 .. j[Len(j)].env
  BY JumpsTop, JmpBufTypes
<1>2. /\ Len(s3) = j[Len(j)].env + 1 /\ \A i \in 1 .. j[Len(j)].env : s3[i] = s[i]
  BY <1>1 DEF Cuts, Grows
<1> DEFINE e == j[Len(j)].env
<1> HIDE DEF e
<1>3. ASSUME NEW k \in 1 .. Len(j)
      PROVE  /\ j[k].env \in 1 .. Len(s3) /\ s3[j[k].env].kind \in Tries
             /\ s3[j[k].env].n = j[k].top
  <2>1. /\ j[k].env \in 1 .. e /\ e \in 1 .. Len(s) /\ Len(s3) = e + 1
        /\ s3[j[k].env] = s[j[k].env]
    BY <1>1, <1>2 DEF e
  <2>2. s[j[k].env].kind \in Tries /\ s[j[k].env].n = j[k].top
    BY DEF Jumps, Lands
  <2> QED BY <2>1, <2>2
<1>4. Lands(s3, j)
  BY <1>3 DEF Lands
<1>5. ASSUME NEW i \in 1 .. Len(s3), s3[i].kind \in Tries
      PROVE  \E k \in 1 .. Len(j) : j[k].env = i
  <2>1. i # e + 1
    BY <1>2, <1>5 DEF Tries, e
  <2>2. i \in 1 .. e /\ s3[i] = s[i]
    BY <1>1, <1>2, <2>1 DEF e
  <2>3. i \in 1 .. Len(s) /\ s[i].kind \in Tries
    BY <1>1, <1>5, <2>2 DEF e
  <2> QED BY <2>3 DEF Jumps, Covered
<1>6. Covered(s3, j)
  BY <1>5 DEF Covered
<1>7. ASSUME NEW i \in 1 .. Len(s3), s3[i].kind = "raise"
      PROVE  i = e + 1
  <2>1. i <= e => i \in 1 .. Len(s) /\ s3[i] = s[i]
    BY <1>1, <1>2 DEF e
  <2> QED BY <1>1, <1>2, <1>7, <2>1 DEF e
<1>8. Jumping(s3, j)
  BY <1>2, <1>7 DEF Jumping, e
<1> QED BY <1>4, <1>6, <1>8 DEF Jumps

(* The innermost __Try and what stands above it are gone.                  *)
LEMMA JumpsCut ==
  ASSUME NEW s \in Seq(FrameSet), NEW j \in Seq(JmpBufSet), NEW s2, NEW j2, Jumps(s, j),
         Cuts(s, s2, j[Len(j)].env - 1), Shorter(j, j2),
         \A i \in 1 .. Len(s) : s[i].kind = "raise" => i = j[Len(j)].env + 1
  PROVE  Jumps(s2, j2)
<1> DEFINE e == j[Len(j)].env
<1>1. e \in 1 .. Len(s) /\ Len(s2) = e - 1 /\ \A i \in 1 .. e - 1 : s2[i] = s[i]
  BY JumpsTop DEF Shorter, Cuts
<1>2. \A k \in 1 .. Len(j2) : /\ k \in 1 .. Len(j) - 1 /\ k \in 1 .. Len(j)
                              /\ j2[k] = j[k] /\ j[k].env \in 1 .. e - 1
  BY JumpsTop, JmpBufTypes DEF Shorter
<1> HIDE DEF e
<1>3. Lands(s2, j2)
  <2> SUFFICES ASSUME NEW k \in 1 .. Len(j2)
               PROVE  /\ j2[k].env \in 1 .. Len(s2) /\ s2[j2[k].env].kind \in Tries
                      /\ s2[j2[k].env].n = j2[k].top
    BY DEF Lands
  <2>1. k \in 1 .. Len(j) /\ j2[k] = j[k] /\ j[k].env \in 1 .. e - 1
    BY <1>2
  <2>2. s[j[k].env].kind \in Tries /\ s[j[k].env].n = j[k].top
    BY <2>1 DEF Jumps, Lands
  <2> QED BY <1>1, <2>1, <2>2
<1>4. InOrder(j2)
  BY <1>2 DEF Jumps, InOrder
<1>5. ASSUME NEW i \in 1 .. Len(s2), s2[i].kind \in Tries
      PROVE  \E k \in 1 .. Len(j2) : j2[k].env = i
  <2>1. i \in 1 .. Len(s) /\ s[i].kind \in Tries /\ i # e
    BY <1>1, <1>5
  <2>2. PICK k \in 1 .. Len(j) : j[k].env = i
    BY <2>1 DEF Jumps, Covered
  <2>3. k # Len(j)
    BY <2>1, <2>2 DEF e
  <2>4. k \in 1 .. Len(j2) /\ j2[k] = j[k]
    <3>1. Len(j) \in Nat /\ Len(j2) = Len(j) - 1 /\ \A m \in 1 .. Len(j) - 1 : j2[m] = j[m]
      BY JmpBufTypes DEF Shorter
    <3> QED BY <2>3, <3>1
  <2> QED BY <2>2, <2>4
<1>6. Covered(s2, j2)
  BY <1>5 DEF Covered
<1>7. Jumping(s2, j2)
  <2>1. ASSUME NEW i \in 1 .. Len(s2)
        PROVE  i \in 1 .. Len(s) /\ s2[i] = s[i] /\ i # e + 1
    BY <1>1
  <2>2. \A i \in 1 .. Len(s2) : s2[i].kind # "raise"
    BY <2>1 DEF e
  <2> QED BY <2>2 DEF Jumping
<1> QED BY <1>3, <1>4, <1>6, <1>7 DEF Jumps

LEMMA JumpsEndTry ==
  ASSUME NEW s \in Seq(FrameSet), NEW j \in Seq(JmpBufSet), NEW s2, NEW j2, Jumps(s, j), s # <<>>,
         s[Len(s)].kind \in Tries, Cuts(s, s2, Len(s) - 1), Shorter(j, j2),
         \A i \in 1 .. Len(s) : s[i].kind # "raise"
  PROVE  Jumps(s2, j2)
<1>1. j[Len(j)].env = Len(s)
  BY JumpsTop DEF Shorter
<1> QED BY <1>1, JumpsCut

LEMMA JumpsLand ==
  ASSUME NEW s \in Seq(FrameSet), NEW j \in Seq(JmpBufSet), NEW s2, NEW j2, Jumps(s, j), s # <<>>,
         s[Len(s)].kind = "raise", Cuts(s, s2, j[Len(j)].env - 1), Shorter(j, j2)
  PROVE  Jumps(s2, j2)
<1>1. \A i \in 1 .. Len(s) : s[i].kind = "raise" => i = j[Len(j)].env + 1
  BY DEF Jumps, Jumping
<1> QED BY <1>1, JumpsCut

-----------------------------------------------------------------------------
(* The sections on record                                                  *)

Raised(s)         == \E i \in 1 .. Len(s) : s[i].kind = "raise"
RecordAt(s, j, k) ==
  \A l \in Locks, i \in Nat :
    Slot(l, i) \in j[k].locks <=> i \in 1 .. Len(s) /\ Covers(s, j, k, i) /\ s[i].n = l

(* The same sections are covered by the same buffer.                       *)
SameRecord(s, j, k, s2, j2) ==
  /\ j2[k].locks = j[k].locks
  /\ \A i \in 1 .. Len(s) :
       Covers(s, j, k, i) => i \in 1 .. Len(s2) /\ Covers(s2, j2, k, i) /\ s2[i].n = s[i].n
  /\ \A i \in 1 .. Len(s2) :
       Covers(s2, j2, k, i) => i \in 1 .. Len(s) /\ Covers(s, j, k, i) /\ s2[i].n = s[i].n

LEMMA RecordsIs ==
  ASSUME NEW s, NEW j
  PROVE  Records(s, j) <=> \A k \in 1 .. Len(j) : k < Len(j) \/ ~Raised(s) => RecordAt(s, j, k)
  BY DEF Records, Raised, RecordAt

LEMMA RecordKept ==
  ASSUME NEW s, NEW j, NEW k, NEW s2, NEW j2, RecordAt(s, j, k), SameRecord(s, j, k, s2, j2)
  PROVE  RecordAt(s2, j2, k)
<1> SUFFICES ASSUME NEW l \in Locks, NEW i \in Nat
             PROVE  Slot(l, i) \in j[k].locks
                      <=> i \in 1 .. Len(s2) /\ Covers(s2, j2, k, i) /\ s2[i].n = l
  BY DEF RecordAt, SameRecord
<1>1. Slot(l, i) \in j[k].locks <=> i \in 1 .. Len(s) /\ Covers(s, j, k, i) /\ s[i].n = l
  BY DEF RecordAt
<1>2. i \in 1 .. Len(s) /\ Covers(s, j, k, i)
        => i \in 1 .. Len(s2) /\ Covers(s2, j2, k, i) /\ s2[i].n = s[i].n
  BY DEF SameRecord
<1>3. i \in 1 .. Len(s2) /\ Covers(s2, j2, k, i)
        => i \in 1 .. Len(s) /\ Covers(s, j, k, i) /\ s2[i].n = s[i].n
  BY DEF SameRecord
<1> QED BY <1>1, <1>2, <1>3

(* A frame more that is no section, or that is one above a destructor.     *)
LEMMA RecordsGrows ==
  ASSUME NEW s \in Seq(FrameSet), NEW j \in Seq(JmpBufSet), NEW s2, Records(s, j), Grows(s, s2),
         \/ s2[Len(s) + 1].kind # "lock"
         \/ s2[Len(s) + 1].kind = "lock" /\ \E c \in 1 .. Len(s) : s[c].kind = "clean"
  PROVE  Records(s2, j)
<1>1. ASSUME NEW k \in 1 .. Len(j)
      PROVE  SameRecord(s, j, k, s2, j)
  <2>1. ASSUME NEW i \in 1 .. Len(s)
        PROVE  Covers(s, j, k, i) <=> Covers(s2, j, k, i)
    <3>1. \A c \in 1 .. Len(s2) : (c \in 1 .. Len(s) /\ s2[c] = s[c]) \/ (c = Len(s) + 1 /\ i < c)
      BY DEF Grows
    <3>2. \A c \in 1 .. Len(s) : c \in 1 .. Len(s2) /\ s2[c] = s[c]
      BY DEF Grows
    <3> QED BY <3>1, <3>2 DEF Covers
  <2>2. ~Covers(s2, j, k, Len(s) + 1)
    BY DEF Grows, Covers
  <2>3. \A i \in 1 .. Len(s2) : i \in 1 .. Len(s) \/ i = Len(s) + 1
    BY DEF Grows
  <2> QED BY <2>1, <2>2, <2>3 DEF SameRecord, Grows
<1>2. Raised(s) => Raised(s2)
  BY DEF Raised, Grows
<1> QED BY <1>1, <1>2, RecordsIs, RecordKept

(* The top frame is gone, which was none on record.                        *)
LEMMA RecordsPops ==
  ASSUME NEW s \in Seq(FrameSet), NEW j \in Seq(JmpBufSet), NEW s2, Records(s, j), s # <<>>,
         Cuts(s, s2, Len(s) - 1), s[Len(s)].kind # "raise",
         \/ s[Len(s)].kind # "lock"
         \/ s[Len(s)].kind = "lock" /\ \E c \in 1 .. Len(s) : s[c].kind = "clean"
  PROVE  Records(s2, j)
<1>1. ASSUME NEW k \in 1 .. Len(j)
      PROVE  SameRecord(s, j, k, s2, j)
  <2>1. ASSUME NEW i \in 1 .. Len(s2)
        PROVE  i \in 1 .. Len(s) /\ (Covers(s, j, k, i) <=> Covers(s2, j, k, i))
    <3>0. Len(s) \in Nat /\ Len(s2) = Len(s) - 1
      BY DEF Cuts
    <3>1. i \in 1 .. Len(s) /\ i < Len(s) /\ s2[i] = s[i]
      BY <3>0 DEF Cuts
    <3>2. \A c \in 1 .. Len(s2) : c \in 1 .. Len(s) /\ s2[c] = s[c]
      BY DEF Cuts
    <3>3. \A c \in 1 .. Len(s) : c \in 1 .. Len(s2) \/ c = Len(s)
      BY <3>0
    <3> QED BY <3>1, <3>2, <3>3 DEF Covers
  <2>2. ~Covers(s, j, k, Len(s))
    BY DEF Covers
  <2>3. \A i \in 1 .. Len(s) : i \in 1 .. Len(s2) \/ i = Len(s)
    BY DEF Cuts
  <2> QED BY <2>1, <2>2, <2>3 DEF SameRecord, Cuts
<1>2. Raised(s) => Raised(s2)
  BY DEF Raised, Cuts
<1> QED BY <1>1, <1>2, RecordsIs, RecordKept

LEMMA RecordsRetops ==
  ASSUME NEW s \in Seq(FrameSet), NEW j \in Seq(JmpBufSet), NEW s2, Records(s, j), Retops(s, s2),
         s[Len(s)].kind \notin {"lock", "clean"}, s2[Len(s)].kind \notin {"lock", "clean"},
         s[Len(s)].kind = "raise" => s2[Len(s)].kind = "raise"
  PROVE  Records(s2, j)
<1>0. \A i \in 1 .. Len(s) : /\ s2[i].kind = "lock" <=> s[i].kind = "lock"
                             /\ s2[i].kind = "clean" <=> s[i].kind = "clean"
                             /\ s[i].kind = "lock" => s2[i] = s[i]
  BY DEF Retops
<1>1. ASSUME NEW k \in 1 .. Len(j)
      PROVE  SameRecord(s, j, k, s2, j)
  <2>1. ASSUME NEW i \in 1 .. Len(s)
        PROVE  Covers(s, j, k, i) <=> Covers(s2, j, k, i)
    BY <1>0 DEF Retops, Covers
  <2> QED BY <1>0, <2>1 DEF SameRecord, Retops, Covers
<1>2. Raised(s) => Raised(s2)
  BY DEF Raised, Retops
<1> QED BY <1>1, <1>2, RecordsIs, RecordKept

(* A raise abandons what stands above the innermost __Try.                 *)
LEMMA RecordsRaises ==
  ASSUME NEW s \in Seq(FrameSet), NEW j \in Seq(JmpBufSet), NEW s2, NEW s3, Records(s, j), Jumps(s, j),
         Len(j) > 0, Cuts(s, s2, j[Len(j)].env), Grows(s2, s3), s3[Len(s3)].kind = "raise",
         \A i \in 1 .. Len(s) : s[i].kind # "clean"
  PROVE  Records(s3, j)
<1> DEFINE e == j[Len(j)].env
<1>1. e \in 1 .. Len(s) /\ Len(s3) = e + 1 /\ \A i \in 1 .. e : s3[i] = s[i]
  BY JumpsTop DEF Cuts, Grows
<1>2. ASSUME NEW k \in 1 .. Len(j), k < Len(j)
      PROVE  k + 1 \in 1 .. Len(j) /\ j[k + 1].env \in 1 .. e
  <2>1. k + 1 \in 1 .. Len(j) /\ k + 1 <= Len(j)
    BY <1>2, JmpBufTypes
  <2>2. k + 1 = Len(j) \/ k + 1 \in 1 .. Len(j) - 1
    BY <2>1, JmpBufTypes
  <2>3. j[k + 1].env \in 1 .. e
    BY <1>1, <2>2, JumpsTop
  <2> QED BY <2>1, <2>3
<1>3. Raised(s3)
  BY <1>1 DEF Raised
<1> HIDE DEF e
<1>4. ASSUME NEW k \in 1 .. Len(j), k < Len(j)
      PROVE  SameRecord(s, j, k, s3, j)
  <2>0. j[k + 1].env \in 1 .. e
    BY <1>2, <1>4
  <2>1. \A i \in 1 .. Len(s) : Covers(s, j, k, i) => i \in 1 .. e /\ i \in 1 .. Len(s3)
    BY <1>1, <1>4, <2>0 DEF Covers
  <2>2. \A i \in 1 .. Len(s3) : Covers(s3, j, k, i) => i \in 1 .. e /\ i \in 1 .. Len(s)
    BY <1>1, <1>4, <2>0 DEF Covers
  <2>3. \A c \in 1 .. Len(s3) : s3[c].kind # "clean"
    <3>1. \A c \in 1 .. Len(s3) : c \in 1 .. e \/ c = Len(s3)
      BY <1>1
    <3> QED BY <1>1, <3>1
  <2>4. \A i \in 1 .. e : Covers(s, j, k, i) <=> Covers(s3, j, k, i)
    BY <1>1, <2>3 DEF Covers
  <2> QED BY <1>1, <2>1, <2>2, <2>4 DEF SameRecord
<1>5. \A k \in 1 .. Len(j) : k < Len(j) => RecordAt(s3, j, k)
  BY <1>4, RecordsIs, RecordKept
<1> QED BY <1>3, <1>5, RecordsIs

(* The innermost __Try is over, by its end or by a raise.                  *)
LEMMA RecordsCut ==
  ASSUME NEW s \in Seq(FrameSet), NEW j \in Seq(JmpBufSet), NEW s2, NEW j2, Records(s, j), Jumps(s, j),
         Shorter(j, j2), Cuts(s, s2, j[Len(j)].env - 1),
         \A i \in 1 .. Len(s) : s[i].kind # "clean"
  PROVE  Records(s2, j2)
<1> DEFINE e == j[Len(j)].env
<1>1. e \in 1 .. Len(s) /\ Len(s2) = e - 1 /\ \A i \in 1 .. e - 1 : s2[i] = s[i]
  BY JumpsTop DEF Shorter, Cuts
<1>2. \A k \in 1 .. Len(j2) : /\ k \in 1 .. Len(j) /\ k < Len(j) /\ j2[k] = j[k]
                              /\ k < Len(j2) => j2[k + 1] = j[k + 1]
                              /\ ~(k < Len(j2)) => k + 1 = Len(j)
  <2>1. Len(j) \in Nat /\ Len(j2) = Len(j) - 1 /\ \A k \in 1 .. Len(j) - 1 : j2[k] = j[k]
    BY JmpBufTypes DEF Shorter
  <2> QED BY <2>1
<1>3. ASSUME NEW k \in 1 .. Len(j2)
      PROVE  j[k + 1].env \in 1 .. e
  <2>1. k + 1 = Len(j) \/ k + 1 \in 1 .. Len(j) - 1
    BY <1>2, JmpBufTypes DEF Shorter
  <2> QED BY <1>1, <2>1, JumpsTop DEF Shorter
<1>e. Len(j) \in Nat /\ Len(j2) \in Nat
  BY JmpBufTypes DEF Shorter
<1> HIDE DEF e
<1>4. ASSUME NEW k \in 1 .. Len(j2)
      PROVE  SameRecord(s, j, k, s2, j2)
  <2>1. ASSUME NEW i \in 1 .. Len(s), Covers(s, j, k, i)
        PROVE  i \in 1 .. Len(s2)
    <3>1. i < j[k + 1].env
      BY <1>2, <2>1 DEF Covers
    <3> QED BY <1>1, <1>3, <3>1
  <2>2. \A c \in 1 .. Len(s2) : c \in 1 .. Len(s) /\ s2[c] = s[c] /\ c < e
    BY <1>1
  <2>3. \A c \in 1 .. Len(s2) : s2[c].kind # "clean"
    BY <2>2
  <2>4. ASSUME NEW i \in 1 .. Len(s2)
        PROVE  Covers(s, j, k, i) <=> Covers(s2, j2, k, i)
    <3>1. CASE k < Len(j2)
      BY <1>2, <2>2, <2>3, <3>1 DEF Covers
    <3>2. CASE ~(k < Len(j2))
      <4>1. j[k + 1].env = e /\ i < j[k + 1].env
        BY <1>2, <2>2, <3>2 DEF e
      <4>2. Covers(s, j, k, i) <=> s[i].kind = "lock" /\ i > j[k].env
        BY <1>2, <4>1 DEF Covers
      <4>3. Covers(s2, j2, k, i) <=> s2[i].kind = "lock" /\ i > j2[k].env
        BY <2>3, <3>2 DEF Covers
      <4> QED BY <1>2, <2>2, <4>2, <4>3
    <3> QED BY <3>1, <3>2
  <2> QED BY <1>2, <2>1, <2>2, <2>4 DEF SameRecord
<1>5. \A k \in 1 .. Len(j2) : RecordAt(s2, j2, k)
  BY <1>2, <1>4, RecordsIs, RecordKept
<1> QED BY <1>5, RecordsIs

(* A new __Try has no section yet.                                         *)
LEMMA RecordsTry ==
  ASSUME NEW s \in Seq(FrameSet), NEW j \in Seq(JmpBufSet), NEW s2, NEW j2, Records(s, j),
         Grows(s, s2), Longer(j, j2), s2[Len(s) + 1].kind = "try",
         j2[Len(j) + 1].env = Len(s) + 1, j2[Len(j) + 1].locks = {}, ~Raised(s)
  PROVE  Records(s2, j2)
<1>e. Len(j) \in Nat /\ Len(j2) = Len(j) + 1 /\ Len(s) \in Nat /\ Len(s2) = Len(s) + 1
  BY JmpBufTypes DEF Longer, Grows
<1>1. \A k \in 1 .. Len(j) : /\ j2[k] = j[k] /\ k < Len(j2)
                             /\ k < Len(j) => j2[k + 1] = j[k + 1]
                             /\ ~(k < Len(j)) => j2[k + 1].env = Len(s) + 1
  <2>1. \A k \in 1 .. Len(j) : ~(k < Len(j)) => k + 1 = Len(j) + 1
    BY <1>e
  <2> QED BY <1>e, <2>1 DEF Longer
<1>2. \A i \in 1 .. Len(s2) : (i \in 1 .. Len(s) /\ s2[i] = s[i] /\ i < Len(s) + 1) \/ i = Len(s) + 1
  BY <1>e DEF Grows
<1>3. \A i \in 1 .. Len(s) : i \in 1 .. Len(s2) /\ s2[i] = s[i] /\ i < Len(s) + 1
  BY <1>e DEF Grows
<1>4. ASSUME NEW k \in 1 .. Len(j)
      PROVE  SameRecord(s, j, k, s2, j2)
  <2>1. ASSUME NEW i \in 1 .. Len(s)
        PROVE  Covers(s, j, k, i) <=> Covers(s2, j2, k, i)
    <3>0. (\A c \in 1 .. Len(s) : s[c].kind = "clean" => i < c)
            <=> \A c \in 1 .. Len(s2) : s2[c].kind = "clean" => i < c
      BY <1>2, <1>3
    <3>1. CASE k < Len(j)
      BY <1>1, <1>3, <3>0, <3>1 DEF Covers
    <3>2. CASE ~(k < Len(j))
      BY <1>1, <1>3, <3>0, <3>2 DEF Covers
    <3> QED BY <3>1, <3>2
  <2>2. ~Covers(s2, j2, k, Len(s) + 1)
    BY DEF Covers
  <2> QED BY <1>1, <1>2, <1>3, <2>1, <2>2 DEF SameRecord
<1>5. \A k \in 1 .. Len(j) : RecordAt(s2, j2, k)
  BY <1>4, RecordsIs, RecordKept
<1>6. RecordAt(s2, j2, Len(j) + 1)
  <2>1. \A i \in 1 .. Len(s2) : ~Covers(s2, j2, Len(j) + 1, i)
    BY <1>e DEF Covers
  <2> QED BY <2>1 DEF RecordAt
<1>7. \A k \in 1 .. Len(j2) : k \in 1 .. Len(j) \/ k = Len(j) + 1
  BY <1>e
<1> QED BY <1>5, <1>6, <1>7, RecordsIs

(* C_JmpBuf_Push_Cs: the innermost buffer records the section.             *)
LEMMA RecordsEnter ==
  ASSUME NEW s \in Seq(FrameSet), NEW j \in Seq(JmpBufSet), NEW s2, NEW j2, NEW l \in Locks,
         Records(s, j), Lands(s, j), Grows(s, s2), SameJumps(j, j2), Len(j) > 0,
         s2[Len(s) + 1].kind = "lock", s2[Len(s) + 1].n = l,
         \A k \in 1 .. Len(j) - 1 : j2[k].locks = j[k].locks,
         j2[Len(j)].locks = j[Len(j)].locks \cup {Slot(l, Len(s) + 1)},
         \A i \in 1 .. Len(s) : s[i].kind \notin {"clean", "raise"}
  PROVE  Records(s2, j2)
<1>e. /\ Len(j) \in 1 .. Len(j) /\ Len(j2) = Len(j) /\ Len(s) \in Nat /\ Len(s2) = Len(s) + 1
      /\ \A k \in 1 .. Len(j) : k < Len(j) => k \in 1 .. Len(j) - 1 /\ k + 1 \in 1 .. Len(j)
      /\ \A k \in 1 .. Len(j) : k < Len(j) \/ k = Len(j)
  BY JmpBufTypes DEF SameJumps, Grows
<1>1. \A i \in 1 .. Len(s2) : (i \in 1 .. Len(s) /\ s2[i] = s[i]) \/ i = Len(s) + 1
  BY <1>e DEF Grows
<1>2. \A i \in 1 .. Len(s) : i \in 1 .. Len(s2) /\ s2[i] = s[i] /\ s[i].kind # "clean"
  BY <1>e DEF Grows
<1>3. \A i \in 1 .. Len(s2) : s2[i].kind # "clean"
  BY <1>1, <1>2
<1>4. \A k \in 1 .. Len(j) : j2[k].env = j[k].env /\ j[k].env \in 1 .. Len(s)
  BY DEF SameJumps, Lands
<1>5. ASSUME NEW k \in 1 .. Len(j), NEW i \in 1 .. Len(s)
      PROVE  Covers(s, j, k, i) <=> Covers(s2, j2, k, i)
  BY <1>e, <1>2, <1>3, <1>4 DEF Covers
<1>6. ASSUME NEW k \in 1 .. Len(j), k < Len(j)
      PROVE  RecordAt(s2, j2, k)
  <2>1. j[k + 1].env \in 1 .. Len(s)
    BY <1>e, <1>4, <1>6
  <2>2. ~(Len(s) + 1 < j[k + 1].env)
    BY <1>e, <2>1
  <2>3. ~Covers(s2, j2, k, Len(s) + 1)
    BY <1>e, <1>4, <1>6, <2>2 DEF Covers
  <2>4. SameRecord(s, j, k, s2, j2)
    BY <1>e, <1>1, <1>2, <1>5, <1>6, <2>3 DEF SameRecord
  <2> QED BY <1>6, <2>4, RecordsIs, RecordKept
<1>7. RecordAt(s2, j2, Len(j))
  <2> SUFFICES ASSUME NEW m \in Locks, NEW i \in Nat
               PROVE  Slot(m, i) \in j2[Len(j)].locks
                        <=> i \in 1 .. Len(s2) /\ Covers(s2, j2, Len(j), i) /\ s2[i].n = m
    BY DEF RecordAt
  <2>1. Slot(m, i) \in j[Len(j)].locks
          <=> i \in 1 .. Len(s) /\ Covers(s, j, Len(j), i) /\ s[i].n = m
    <3>1. ~Raised(s)
      BY DEF Raised
    <3> QED BY <1>e, <3>1, RecordsIs DEF RecordAt
  <2>2. /\ Len(s) + 1 \in 1 .. Len(s2) /\ Covers(s2, j2, Len(j), Len(s) + 1)
        /\ s2[Len(s) + 1].n = l
    BY <1>e, <1>3, <1>4 DEF Covers
  <2>3. Slot(m, i) = Slot(l, Len(s) + 1) <=> m = l /\ i = Len(s) + 1
    BY SlotIs
  <2>4. CASE i = Len(s) + 1
    <3>1. i \notin 1 .. Len(s)
      BY <1>e, <2>4
    <3> QED BY <2>1, <2>2, <2>3, <2>4, <3>1
  <2>5. CASE i # Len(s) + 1
    <3>1. i \in 1 .. Len(s2) <=> i \in 1 .. Len(s)
      BY <1>1, <1>2, <2>5
    <3>2. i \in 1 .. Len(s) =>
            (Covers(s, j, Len(j), i) <=> Covers(s2, j2, Len(j), i)) /\ s2[i].n = s[i].n
      BY <1>e, <1>2, <1>5
    <3> QED BY <2>1, <2>3, <2>5, <3>1, <3>2
  <2> QED BY <2>4, <2>5
<1> QED BY <1>e, <1>6, <1>7, RecordsIs

(* C_JmpBuf_Pop_Cs: the section was on record, once.                       *)
LEMMA RecordsLeave ==
  ASSUME NEW s \in Seq(FrameSet), NEW j \in Seq(JmpBufSet), NEW s2, NEW j2, NEW l \in Locks,
         Records(s, j), Lands(s, j), s # <<>>, Cuts(s, s2, Len(s) - 1),
         SameJumps(j, j2), Len(j) > 0, s[Len(s)].kind = "lock", s[Len(s)].n = l,
         \A k \in 1 .. Len(j) - 1 : j2[k].locks = j[k].locks,
         j2[Len(j)].locks = j[Len(j)].locks \ {Slot(l, Len(s))},
         \A i \in 1 .. Len(s) : s[i].kind \notin {"clean", "raise"}
  PROVE  Records(s2, j2)
<1>e. /\ Len(j) \in 1 .. Len(j) /\ Len(j2) = Len(j) /\ Len(s) \in 1 .. Len(s) /\ Len(s2) = Len(s) - 1
      /\ \A k \in 1 .. Len(j) : k < Len(j) => k \in 1 .. Len(j) - 1 /\ k + 1 \in 1 .. Len(j)
      /\ \A k \in 1 .. Len(j) : k < Len(j) \/ k = Len(j)
  <2>1. Len(s) \in 1 .. Len(s) /\ Len(s2) = Len(s) - 1
    BY DEF Cuts
  <2> QED BY <2>1, JmpBufTypes DEF SameJumps
<1>1. \A i \in 1 .. Len(s) : i \in 1 .. Len(s2) \/ i = Len(s)
  BY <1>e
<1>2. \A i \in 1 .. Len(s2) : /\ i \in 1 .. Len(s) /\ i < Len(s) /\ s2[i] = s[i]
                              /\ s2[i].kind # "clean"
  BY <1>e DEF Cuts
<1>4. \A k \in 1 .. Len(j) : j2[k].env = j[k].env /\ j[k].env \in 1 .. Len(s)
  BY DEF SameJumps, Lands
<1>5. ASSUME NEW k \in 1 .. Len(j), NEW i \in 1 .. Len(s2)
      PROVE  Covers(s, j, k, i) <=> Covers(s2, j2, k, i)
  BY <1>e, <1>2, <1>4 DEF Covers
<1>6. ASSUME NEW k \in 1 .. Len(j), k < Len(j)
      PROVE  RecordAt(s2, j2, k)
  <2>1. j[k + 1].env \in 1 .. Len(s)
    BY <1>e, <1>4, <1>6
  <2>2. ~(Len(s) < j[k + 1].env)
    BY <1>e, <2>1
  <2>3. ~Covers(s, j, k, Len(s))
    BY <1>e, <1>6, <2>2 DEF Covers
  <2>4. SameRecord(s, j, k, s2, j2)
    BY <1>e, <1>1, <1>2, <1>5, <1>6, <2>3 DEF SameRecord
  <2> QED BY <1>6, <2>4, RecordsIs, RecordKept
<1>7. RecordAt(s2, j2, Len(j))
  <2> SUFFICES ASSUME NEW m \in Locks, NEW i \in Nat
               PROVE  Slot(m, i) \in j2[Len(j)].locks
                        <=> i \in 1 .. Len(s2) /\ Covers(s2, j2, Len(j), i) /\ s2[i].n = m
    BY DEF RecordAt
  <2>1. Slot(m, i) \in j[Len(j)].locks
          <=> i \in 1 .. Len(s) /\ Covers(s, j, Len(j), i) /\ s[i].n = m
    <3>1. ~Raised(s)
      BY DEF Raised
    <3> QED BY <1>e, <3>1, RecordsIs DEF RecordAt
  <2>2. Slot(m, i) = Slot(l, Len(s)) <=> m = l /\ i = Len(s)
    BY SlotIs
  <2>3. CASE i = Len(s)
    <3>1. i \notin 1 .. Len(s2)
      BY <1>e, <2>3
    <3> QED BY <2>1, <2>2, <2>3, <3>1
  <2>4. CASE i # Len(s)
    <3>1. i \in 1 .. Len(s2) <=> i \in 1 .. Len(s)
      BY <1>1, <1>2, <2>4
    <3>2. i \in 1 .. Len(s2) =>
            (Covers(s, j, Len(j), i) <=> Covers(s2, j2, Len(j), i)) /\ s2[i].n = s[i].n
      BY <1>e, <1>2, <1>5
    <3> QED BY <2>1, <2>2, <2>4, <3>1, <3>2
  <2> QED BY <2>3, <2>4
<1> QED BY <1>e, <1>6, <1>7, RecordsIs

-----------------------------------------------------------------------------
(* One thread                                                              *)

(* No truncation runs, so that no destructor of one does.                  *)
LEMMA Calmed ==
  ASSUME NEW s, Unwound(s, FALSE)
  PROVE  /\ \A i \in 1 .. Len(s) : s[i].kind \notin Truncs \cup {"clean"}
         /\ ~Raised(s)
  BY DEF Unwound, Raised, Truncs

(* Client code runs during a truncation only in a destructor.              *)
LEMMA Cleaning ==
  ASSUME NEW s \in Seq(FrameSet), Unwound(s, TRUE), s = <<>> \/ s[Len(s)].kind \notin Truncs
  PROVE  s # <<>> /\ \E c \in 1 .. Len(s) : s[c].kind = "clean"
<1>1. PICK i \in 1 .. Len(s) : s[i].kind \in Truncs
  BY DEF Unwound
<1>2. i + 1 \in 1 .. Len(s)
  BY <1>1
<1> QED BY <1>1, <1>2 DEF Unwound

(* A truncation that runs its loop has no destructor above it.             *)
LEMMA Truncs1 ==
  ASSUME NEW s \in Seq(FrameSet), NEW u \in BOOLEAN, Unwound(s, u), s # <<>>, s[Len(s)].kind \in Truncs
  PROVE  /\ u = TRUE /\ \A i \in 1 .. Len(s) : s[i].kind # "clean"
         /\ \A i \in 1 .. Len(s) - 1 : s[i].kind \notin Truncs
<1>1. Len(s) \in 1 .. Len(s)
  OBVIOUS
<1>2. u = TRUE
  BY <1>1 DEF Unwound, Truncs
<1>3. \A i \in 1 .. Len(s) - 1 : s[i].kind \notin Truncs
  BY <1>1 DEF Unwound, Truncs
<1>4. \A i \in 1 .. Len(s) : s[i].kind # "clean"
  <2> SUFFICES ASSUME NEW i \in 1 .. Len(s), s[i].kind = "clean"
               PROVE  FALSE
    OBVIOUS
  <2>1. i > 1 /\ s[i - 1].kind \in Truncs
    BY DEF Unwound
  <2>2. i - 1 \in 1 .. Len(s) - 1
    BY <2>1
  <2> QED BY <1>3, <2>1, <2>2
<1> QED BY <1>2, <1>3, <1>4

(* A block, a release or a destructor is entered.                          *)
LEMMA SaneGrows ==
  ASSUME NEW s, NEW j, NEW p, NEW u, Sane(s, j, p, u), NEW f \in FrameSet,
         \/ f.kind = "release" /\ f.n \in 1 .. Len(p) /\ u = FALSE
         \/ f.kind = "auto" /\ f.n = Len(p) /\ u = FALSE
         \/ f.kind = "clean" /\ f.n = Len(p) /\ s # <<>> /\ s[Len(s)].kind \in Truncs /\ s[Len(s)].n < Len(p)
  PROVE  Sane(Append(s, f), j, p, u)
<1> DEFINE s2 == Append(s, f)
<1>1. Typed(s, j, p, u) /\ Unwound(s, u) /\ Jumps(s, j) /\ Nested(s, p) /\ ForLocks(s) /\ Records(s, j)
  BY DEF Sane
<1>2. /\ s \in Seq(FrameSet) /\ j \in Seq(JmpBufSet) /\ p \in Seq(Ptrs \cup {Nil}) /\ u \in BOOLEAN
      /\ Len(p) \in Nat
  BY <1>1 DEF Typed
<1>3. Grows(s, s2) /\ s2[Len(s) + 1] = f /\ s2 \in Seq(FrameSet)
  BY <1>2, GrowsAppend
<1> HIDE DEF s2
<1>4. Typed(s2, j, p, u)
  BY <1>2, <1>3 DEF Typed
<1>5. Unwound(s2, u)
  BY <1>1, <1>2, <1>3, UnwoundGrows DEF Truncs
<1>6. Jumps(s2, j)
  BY <1>1, <1>2, <1>3, JumpsGrows DEF Tries
<1>7. ForLocks(s2)
  BY <1>1, <1>2, <1>3, ForLocksGrows
<1>8. Records(s2, j)
  BY <1>1, <1>2, <1>3, RecordsGrows
<1>9. Nested(s2, p)
  <2>1. \A i \in 1 .. Len(s) : s[i].kind \in Owners => s[i].n <= Len(p)
    BY <1>1, <1>2 DEF Nested, Within, Owners
  <2> QED BY <1>1, <1>2, <1>3, <2>1, NestedGrows DEF Scopes
<1> QED BY <1>4, <1>5, <1>6, <1>7, <1>8, <1>9 DEF Sane, s2

LEMMA SaneTry ==
  ASSUME NEW s, NEW j, NEW p, Sane(s, j, p, FALSE), NEW keep \in Ptrs \cup {Nil}, NEW b \in JmpBufSet,
         b.env = Len(s) + 1, b.top = Len(p), b.locks = {}
  PROVE  Sane(Append(s, Frame("try", Len(p), keep)), Append(j, b), p, FALSE)
<1> DEFINE f  == Frame("try", Len(p), keep)
           s2 == Append(s, f)
           j2 == Append(j, b)
<1>1. /\ Typed(s, j, p, FALSE) /\ Unwound(s, FALSE) /\ Jumps(s, j) /\ Nested(s, p) /\ ForLocks(s)
      /\ Records(s, j)
  BY DEF Sane
<1>2. s \in Seq(FrameSet) /\ j \in Seq(JmpBufSet) /\ p \in Seq(Ptrs \cup {Nil}) /\ Len(p) \in Nat
  BY <1>1 DEF Typed
<1>3. f \in FrameSet /\ f.kind = "try" /\ f.n = Len(p)
  BY <1>2 DEF Frame, FrameSet, Kinds
<1>4. Grows(s, s2) /\ s2[Len(s) + 1] = f /\ s2 \in Seq(FrameSet)
  BY <1>2, <1>3, GrowsAppend
<1>5. Longer(j, j2) /\ j2[Len(j) + 1] = b /\ j2 \in Seq(JmpBufSet)
  BY <1>2 DEF Longer
<1> HIDE DEF s2, j2, f
<1>6. Typed(s2, j2, p, FALSE)
  BY <1>2, <1>4, <1>5 DEF Typed
<1>7. Unwound(s2, FALSE)
  BY <1>1, <1>2, <1>3, <1>4, UnwoundGrows DEF Truncs
<1>8. ~Raised(s) /\ \A i \in 1 .. Len(s) : s[i].kind # "raise"
  BY <1>1, Calmed DEF Truncs
<1>9. Jumps(s2, j2)
  BY <1>1, <1>2, <1>3, <1>4, <1>5, <1>8, JumpsTry
<1>10. ForLocks(s2)
  BY <1>1, <1>2, <1>3, <1>4, ForLocksGrows
<1>11. Records(s2, j2)
  BY <1>1, <1>2, <1>3, <1>4, <1>5, <1>8, RecordsTry
<1>12. Nested(s2, p)
  <2>1. \A i \in 1 .. Len(s) : s[i].kind \in Owners => s[i].n <= Len(p)
    BY <1>1, <1>2 DEF Nested, Within, Owners
  <2>2. s2[Len(s) + 1].kind \in Scopes /\ s2[Len(s) + 1].n <= Len(p)
    BY <1>2, <1>3, <1>4 DEF Scopes
  <2>3. \A i \in 1 .. Len(s) : s[i].kind \in Owners => s[i].n <= s2[Len(s) + 1].n
    BY <1>3, <1>4, <2>1
  <2> QED BY <1>1, <1>2, <1>4, <2>2, <2>3, NestedGrows
<1> QED BY <1>6, <1>7, <1>9, <1>10, <1>11, <1>12 DEF Sane, s2, j2, f

(* A section is entered or left, on record or above a destructor.          *)
LEMMA SaneEnter ==
  ASSUME NEW s, NEW j, NEW p, NEW u, Sane(s, j, p, u), NEW l \in Locks, NEW j2 \in Seq(JmpBufSet),
         s = <<>> \/ s[Len(s)].kind \notin Truncs,
         \/ (j = <<>> \/ u = TRUE) /\ j2 = j
         \/ /\ j # <<>> /\ u = FALSE /\ SameJumps(j, j2)
            /\ \A k \in 1 .. Len(j) - 1 : j2[k].locks = j[k].locks
            /\ j2[Len(j)].locks = j[Len(j)].locks \cup {Slot(l, Len(s) + 1)}
  PROVE  Sane(Append(s, Frame("lock", l, Nil)), j2, p, u)
<1> DEFINE f  == Frame("lock", l, Nil)
           s2 == Append(s, f)
<1>1. /\ Typed(s, j, p, u) /\ Unwound(s, u) /\ Jumps(s, j) /\ Nested(s, p) /\ ForLocks(s)
      /\ Records(s, j)
  BY DEF Sane
<1>2. /\ s \in Seq(FrameSet) /\ j \in Seq(JmpBufSet) /\ p \in Seq(Ptrs \cup {Nil}) /\ u \in BOOLEAN
      /\ Len(p) \in Nat
  BY <1>1 DEF Typed
<1>3. f \in FrameSet /\ f.kind = "lock" /\ f.n = l
  <2>1. l \in Nat
    BY DEF Locks
  <2> QED BY <2>1 DEF Frame, FrameSet, Kinds
<1>4. Grows(s, s2) /\ s2[Len(s) + 1] = f /\ s2 \in Seq(FrameSet)
  BY <1>2, <1>3, GrowsAppend
<1> HIDE DEF s2, f
<1>5. s2[Len(s) + 1].kind = "lock" /\ s2[Len(s) + 1].n = l
  BY <1>3, <1>4
<1>6. Typed(s2, j2, p, u)
  BY <1>2, <1>4 DEF Typed
<1>7. Unwound(s2, u)
  <2>1. CASE u = FALSE
    BY <1>1, <1>2, <1>4, <1>5, <2>1, UnwoundGrows DEF Truncs
  <2>2. CASE u = TRUE
    BY <1>1, <1>2, <1>4, <1>5, <2>2, UnwoundGrows, Cleaning DEF Truncs
  <2> QED BY <1>2, <2>1, <2>2
<1>8. ForLocks(s2)
  BY <1>1, <1>2, <1>4, <1>5, ForLocksGrows
<1>9. Nested(s2, p)
  BY <1>1, <1>2, <1>4, <1>5, NestedGrows
<1>10. Jumps(s2, j)
  BY <1>1, <1>2, <1>4, <1>5, JumpsGrows DEF Tries
<1>11. Jumps(s2, j2)
  BY <1>2, <1>10, JumpsSame
<1>12. Records(s2, j2)
  <2>1. CASE j = <<>> /\ j2 = j
    BY <2>1 DEF Records
  <2>2. CASE u = TRUE /\ j2 = j
    BY <1>1, <1>2, <1>4, <1>5, <2>2, Cleaning, RecordsGrows
  <2>3. CASE /\ j # <<>> /\ u = FALSE /\ SameJumps(j, j2)
             /\ \A k \in 1 .. Len(j) - 1 : j2[k].locks = j[k].locks
             /\ j2[Len(j)].locks = j[Len(j)].locks \cup {Slot(l, Len(s) + 1)}
    <3>1. Len(j) > 0 /\ Lands(s, j)
      BY <1>1, <1>2, <2>3 DEF Jumps
    <3>2. \A i \in 1 .. Len(s) : s[i].kind \notin {"clean", "raise"}
      BY <1>1, <2>3, Calmed DEF Truncs
    <3> QED BY <1>1, <1>2, <1>4, <1>5, <2>3, <3>1, <3>2, RecordsEnter
  <2> QED BY <2>1, <2>2, <2>3
<1> QED BY <1>6, <1>7, <1>8, <1>9, <1>11, <1>12 DEF Sane, s2, f

LEMMA SaneLeave ==
  ASSUME NEW s, NEW j, NEW p, NEW u, Sane(s, j, p, u), NEW j2 \in Seq(JmpBufSet),
         s # <<>>, s[Len(s)].kind = "lock",
         \/ (j = <<>> \/ u = TRUE) /\ j2 = j
         \/ /\ j # <<>> /\ u = FALSE /\ SameJumps(j, j2)
            /\ \A k \in 1 .. Len(j) - 1 : j2[k].locks = j[k].locks
            /\ j2[Len(j)].locks = j[Len(j)].locks \ {Slot(s[Len(s)].n, Len(s))}
  PROVE  Sane(Front(s), j2, p, u)
<1> DEFINE s2 == Front(s)
           l  == s[Len(s)].n
<1>1. /\ Typed(s, j, p, u) /\ Unwound(s, u) /\ Jumps(s, j) /\ Nested(s, p) /\ ForLocks(s)
      /\ Records(s, j)
  BY DEF Sane
<1>2. /\ s \in Seq(FrameSet) /\ j \in Seq(JmpBufSet) /\ p \in Seq(Ptrs \cup {Nil}) /\ u \in BOOLEAN
      /\ Len(p) \in Nat /\ Len(s) \in 1 .. Len(s)
  BY <1>1 DEF Typed
<1>3. l \in Locks
  BY <1>1, <1>2 DEF ForLocks
<1>4. Cuts(s, s2, Len(s) - 1) /\ s2 \in Seq(FrameSet)
  BY <1>2, CutsFront DEF Cuts
<1> HIDE DEF s2
<1>6. Typed(s2, j2, p, u)
  BY <1>2, <1>4 DEF Typed
<1>7. Unwound(s2, u)
  BY <1>1, <1>2, <1>4, UnwoundPops DEF Truncs
<1>8. ForLocks(s2)
  BY <1>1, <1>2, <1>4, ForLocksCuts
<1>9. Nested(s2, p)
  BY <1>1, <1>2, <1>4, NestedCuts
<1>10. Jumps(s2, j)
  BY <1>1, <1>2, <1>4, JumpsPops DEF Tries
<1>11. Jumps(s2, j2)
  BY <1>2, <1>10, JumpsSame
<1>12. Records(s2, j2)
  <2>1. CASE j = <<>> /\ j2 = j
    BY <2>1 DEF Records
  <2>2. CASE u = TRUE /\ j2 = j
    <3>1. \E c \in 1 .. Len(s) : s[c].kind = "clean"
      BY <1>1, <1>2, <2>2, Cleaning DEF Truncs
    <3> QED BY <1>1, <1>2, <1>4, <2>2, <3>1, RecordsPops
  <2>3. CASE /\ j # <<>> /\ u = FALSE /\ SameJumps(j, j2)
             /\ \A k \in 1 .. Len(j) - 1 : j2[k].locks = j[k].locks
             /\ j2[Len(j)].locks = j[Len(j)].locks \ {Slot(l, Len(s))}
    <3>1. Len(j) > 0 /\ Lands(s, j)
      BY <1>1, <1>2, <2>3 DEF Jumps
    <3>2. \A i \in 1 .. Len(s) : s[i].kind \notin {"clean", "raise"}
      BY <1>1, <2>3, Calmed DEF Truncs
    <3> QED BY <1>1, <1>2, <1>3, <1>4, <2>3, <3>1, <3>2, RecordsLeave
  <2> QED BY <2>1, <2>2, <2>3
<1> QED BY <1>6, <1>7, <1>8, <1>9, <1>11, <1>12 DEF Sane, s2

(* The end of a release or of a destructor, or of an automatic scope.      *)
LEMMA SanePops ==
  ASSUME NEW s, NEW j, NEW p, NEW u, Sane(s, j, p, u), s # <<>>,
         NEW q \in Seq(Ptrs \cup {Nil}), NEW v \in BOOLEAN,
         \/ s[Len(s)].kind = "release" /\ Len(q) = Len(p) /\ v = u
         \/ s[Len(s)].kind = "clean" /\ Len(q) = Len(p) - 1 /\ v = u
         \/ s[Len(s)].kind = "endauto" /\ Len(q) >= Len(p) /\ v = FALSE
  PROVE  Sane(Front(s), j, q, v)
<1> DEFINE s2 == Front(s)
<1>1. /\ Typed(s, j, p, u) /\ Unwound(s, u) /\ Jumps(s, j) /\ Nested(s, p) /\ ForLocks(s)
      /\ Records(s, j)
  BY DEF Sane
<1>2. /\ s \in Seq(FrameSet) /\ j \in Seq(JmpBufSet) /\ p \in Seq(Ptrs \cup {Nil}) /\ u \in BOOLEAN
      /\ Len(p) \in Nat /\ Len(q) \in Nat /\ Len(s) \in 1 .. Len(s)
  BY <1>1 DEF Typed
<1>4. Cuts(s, s2, Len(s) - 1) /\ s2 \in Seq(FrameSet)
  BY <1>2, CutsFront DEF Cuts
<1> HIDE DEF s2
<1>6. Typed(s2, j, q, v)
  BY <1>2, <1>4 DEF Typed
<1>7. Unwound(s2, v)
  <2>1. CASE s[Len(s)].kind = "endauto" /\ v = FALSE
    <3>1. u = TRUE
      BY <1>1, <1>2, <2>1, Truncs1 DEF Truncs
    <3>2. Unwound(s, TRUE)
      BY <1>1, <3>1
    <3>3. Len(s) - 1 < Len(s) /\ s[Len(s)].kind \in Truncs
      BY <1>2, <2>1 DEF Truncs
    <3> QED BY <1>2, <1>4, <2>1, <3>2, <3>3, UnwoundEnds
  <2>2. CASE s[Len(s)].kind \in {"release", "clean"} /\ v = u
    BY <1>1, <1>2, <1>4, <2>2, UnwoundPops DEF Truncs
  <2> QED BY <2>1, <2>2
<1>8. ForLocks(s2)
  BY <1>1, <1>2, <1>4, ForLocksCuts
<1>9. Jumps(s2, j)
  BY <1>1, <1>2, <1>4, JumpsPops DEF Tries
<1>10. Records(s2, j)
  BY <1>1, <1>2, <1>4, RecordsPops
<1>11. Nested(s2, p)
  BY <1>1, <1>2, <1>4, NestedCuts
<1>12. Nested(s2, q)
  <2>1. CASE s[Len(s)].kind = "release"
    BY <1>2, <1>4, <1>11, <2>1, NestedPools
  <2>2. CASE s[Len(s)].kind = "endauto"
    <3>1. \A i \in 1 .. Len(s) : s[i].kind # "clean"
      BY <1>1, <1>2, <2>2, Truncs1 DEF Truncs
    <3>2. \A i \in 1 .. Len(s2) : s2[i].kind # "clean"
      BY <1>4, <3>1 DEF Cuts
    <3> QED BY <1>2, <1>4, <1>11, <2>2, <3>2, NestedPools
  <2>3. CASE s[Len(s)].kind = "clean"
    <3>1. Len(s) > 1 /\ s[Len(s) - 1].n < Len(p) /\ s[Len(s) - 1].kind \in Truncs
      BY <1>1, <1>2, <2>3 DEF Nested, Within, Unwound
    <3>2. s2 # <<>> /\ s2[Len(s2)] = s[Len(s) - 1]
      BY <1>2, <1>4, <3>1 DEF Cuts
    <3>3. Unwound(s2, u)
      BY <1>7, <2>3
    <3>4. \A i \in 1 .. Len(s2) : s2[i].kind # "clean"
      BY <1>2, <1>4, <3>1, <3>2, <3>3, Truncs1
    <3> QED BY <1>2, <1>4, <1>11, <2>3, <3>1, <3>2, <3>4, NestedLowers
  <2> QED BY <2>1, <2>2, <2>3
<1> QED BY <1>6, <1>7, <1>8, <1>9, <1>10, <1>12 DEF Sane, s2

(* A truncation begins at the end of a block, or goes on to the next entry *)
(* of the pool.                                                            *)
LEMMA SaneRetops ==
  ASSUME NEW s, NEW j, NEW p, NEW u, Sane(s, j, p, u), s # <<>>, NEW f \in FrameSet,
         NEW q \in Seq(Ptrs \cup {Nil}), f.n = s[Len(s)].n,
         \/ s[Len(s)].kind = "auto" /\ f.kind = "endauto" /\ u = FALSE /\ q = p
         \/ s[Len(s)].kind = "try" /\ f.kind = "endtry" /\ u = FALSE /\ q = p
         \/ /\ s[Len(s)].kind \in Truncs /\ f.kind = s[Len(s)].kind
            /\ s[Len(s)].n < Len(p) /\ Len(q) = Len(p) - 1
  PROVE  Sane([s EXCEPT ![Len(s)] = f], j, q, TRUE)
<1> DEFINE s2 == [s EXCEPT ![Len(s)] = f]
<1>1. /\ Typed(s, j, p, u) /\ Unwound(s, u) /\ Jumps(s, j) /\ Nested(s, p) /\ ForLocks(s)
      /\ Records(s, j)
  BY DEF Sane
<1>2. /\ s \in Seq(FrameSet) /\ j \in Seq(JmpBufSet) /\ p \in Seq(Ptrs \cup {Nil}) /\ u \in BOOLEAN
      /\ Len(p) \in Nat /\ Len(q) \in Nat /\ Len(s) \in 1 .. Len(s)
  BY <1>1 DEF Typed
<1>3. Retops(s, s2) /\ s2[Len(s)] = f /\ s2 \in Seq(FrameSet) /\ Len(s2) = Len(s) /\ s2 # <<>>
  BY <1>2, RetopsSet DEF Retops
<1> HIDE DEF s2
<1>4. /\ s[Len(s)].kind \in Scopes /\ f.kind \in Truncs /\ f.kind \in Scopes
      /\ s[Len(s)].kind \in Tries <=> f.kind \in Tries
      /\ s[Len(s)].kind = "raise" <=> f.kind = "raise"
  BY DEF Truncs, Tries, Scopes
<1>5. Typed(s2, j, q, TRUE)
  BY <1>2, <1>3 DEF Typed
<1>6. Unwound(s2, TRUE)
  <2>1. CASE u = FALSE
    BY <1>1, <1>2, <1>3, <1>4, <2>1, UnwoundBegins
  <2>2. CASE s[Len(s)].kind \in Truncs /\ f.kind = s[Len(s)].kind
    <3>1. u = TRUE
      BY <1>1, <1>2, <2>2, Truncs1
    <3> QED BY <1>1, <1>2, <1>3, <2>2, <3>1, UnwoundSame
  <2> QED BY <2>1, <2>2
<1>7. ForLocks(s2)
  BY <1>1, <1>2, <1>3, <1>4, ForLocksRetops DEF Scopes
<1>8. Jumps(s2, j)
  BY <1>1, <1>2, <1>3, <1>4, JumpsRetops
<1>9. Records(s2, j)
  <2>1. s[Len(s)].kind \notin {"lock", "clean"} /\ f.kind \notin {"lock", "clean"}
    BY <1>4 DEF Scopes
  <2> QED BY <1>1, <1>2, <1>3, <1>4, <2>1, RecordsRetops
<1>10. Nested(s2, p)
  BY <1>1, <1>2, <1>3, <1>4, NestedRetops
<1>11. Nested(s2, q)
  <2>1. CASE q = p
    BY <1>10, <2>1
  <2>2. CASE s[Len(s)].n < Len(p) /\ Len(q) = Len(p) - 1
    <3>1. \A i \in 1 .. Len(s2) : s2[i].kind # "clean"
      BY <1>3, <1>4, <1>6, Truncs1
    <3> QED BY <1>2, <1>3, <1>4, <1>10, <2>2, <3>1, NestedLowers
  <2> QED BY <2>1, <2>2
<1> QED BY <1>5, <1>6, <1>7, <1>8, <1>9, <1>11 DEF Sane, s2

(* What a raise abandons, and what it truncates.                           *)
LEMMA SaneRaises ==
  ASSUME NEW s, NEW j, NEW p, Sane(s, j, p, FALSE), j # <<>>
  PROVE  Sane(Append(SubSeq(s, 1, Top(j).env), Frame("raise", Top(j).top, Nil)), j, p, TRUE)
<1> DEFINE e  == j[Len(j)].env
           f  == Frame("raise", j[Len(j)].top, Nil)
           s1 == SubSeq(s, 1, e)
           s2 == Append(s1, f)
<1>1. /\ Typed(s, j, p, FALSE) /\ Unwound(s, FALSE) /\ Jumps(s, j) /\ Nested(s, p) /\ ForLocks(s)
      /\ Records(s, j)
  BY DEF Sane
<1>2. /\ s \in Seq(FrameSet) /\ j \in Seq(JmpBufSet) /\ p \in Seq(Ptrs \cup {Nil})
      /\ Len(p) \in Nat /\ Len(s) \in Nat /\ Len(j) > 0 /\ Len(j) \in 1 .. Len(j)
  BY <1>1 DEF Typed
<1>3. f \in FrameSet /\ f.kind = "raise" /\ f.n = j[Len(j)].top
  <2>1. j[Len(j)].top \in Nat
    BY <1>2, JmpBufTypes
  <2> QED BY <2>1 DEF Frame, FrameSet, Kinds
<1>4. /\ e \in 1 .. Len(s) /\ s[e].kind \in Tries /\ s[e].n = f.n
  BY <1>1, <1>2, <1>3, JumpsTop
<1> HIDE DEF e, f
<1>5. Cuts(s, s1, e) /\ s1 \in Seq(FrameSet) /\ Len(s1) = e
  <2>1. e \in 0 .. Len(s)
    BY <1>4
  <2> QED BY <1>2, <2>1, CutsSubSeq DEF Cuts
<1> HIDE DEF s1
<1>6. Grows(s1, s2) /\ s2[Len(s1) + 1] = f /\ s2 \in Seq(FrameSet) /\ Len(s2) = Len(s1) + 1
  BY <1>3, <1>5, GrowsAppend DEF Grows
<1> HIDE DEF s2
<1>7. \A i \in 1 .. Len(s) : s[i].kind # "raise" /\ s[i].kind # "clean"
  BY <1>1, Calmed DEF Truncs
<1>8. Typed(s2, j, p, TRUE)
  BY <1>2, <1>6 DEF Typed
<1>9. Unwound(s2, TRUE)
  BY <1>1, <1>2, <1>3, <1>5, <1>6, UnwoundRaises
<1>10. ForLocks(s2)
  <2>1. ForLocks(s1)
    BY <1>1, <1>2, <1>5, ForLocksCuts
  <2> QED BY <1>3, <1>5, <1>6, <2>1, ForLocksGrows
<1>11. Jumps(s2, j)
  BY <1>1, <1>2, <1>3, <1>5, <1>6, <1>7, JumpsRaises DEF e
<1>12. Records(s2, j)
  BY <1>1, <1>2, <1>3, <1>5, <1>6, <1>7, RecordsRaises DEF e
<1>13. Nested(s2, p)
  <2>1. Nested(s1, p)
    BY <1>1, <1>2, <1>5, NestedCuts
  <2>2. e \in 1 .. Len(s1) /\ s1[e] = s[e]
    BY <1>4, <1>5 DEF Cuts
  <2>3. s1[e].kind \in Scopes /\ s1[e].n = f.n
    BY <1>4, <2>2 DEF Scopes, Tries
  <2>4. f.n <= Len(p)
    BY <2>1, <2>2, <2>3 DEF Nested, Within
  <2>5. \A i \in 1 .. Len(s1) : s1[i].kind \in Owners => s1[i].n <= f.n
    <3>1. \A i \in 1 .. Len(s1) : s1[i].n \in Nat /\ (i < e \/ i = e)
      BY <1>5, <2>2, FrameTypes
    <3> QED BY <2>1, <2>2, <2>3, <3>1 DEF Nested, Stacked
  <2>6. f.kind \in Scopes
    BY <1>3 DEF Scopes
  <2> QED BY <1>2, <1>5, <1>6, <2>1, <2>4, <2>5, <2>6, NestedGrows
<1> QED BY <1>8, <1>9, <1>10, <1>11, <1>12, <1>13 DEF Sane, s2, s1, e, f, Top

(* The end of a __Try, or of the truncation that a raise ran for it.       *)
LEMMA SaneCut ==
  ASSUME NEW s, NEW j, NEW p, NEW u, Sane(s, j, p, u), s # <<>>, NEW q \in Seq(Ptrs \cup {Nil}),
         s[Len(s)].kind \in {"endtry", "raise"}, Len(q) >= Len(p)
  PROVE  /\ Len(j) > 0 /\ Top(j).env \in 1 .. Len(s)
         /\ s[Len(s)].kind = "endtry" => Top(j).env = Len(s)
         /\ Sane(SubSeq(s, 1, Top(j).env - 1), Front(j), q, FALSE)
<1> DEFINE e  == j[Len(j)].env
           s2 == SubSeq(s, 1, e - 1)
           j2 == Front(j)
<1>1. /\ Typed(s, j, p, u) /\ Unwound(s, u) /\ Jumps(s, j) /\ Nested(s, p) /\ ForLocks(s)
      /\ Records(s, j)
  BY DEF Sane
<1>2. /\ s \in Seq(FrameSet) /\ j \in Seq(JmpBufSet) /\ p \in Seq(Ptrs \cup {Nil}) /\ u \in BOOLEAN
      /\ Len(p) \in Nat /\ Len(q) \in Nat /\ Len(s) \in 1 .. Len(s) /\ s[Len(s)].kind \in Truncs
  BY <1>1 DEF Typed, Truncs
<1>3. Unwound(s, TRUE) /\ \A i \in 1 .. Len(s) : s[i].kind # "clean"
  BY <1>1, <1>2, Truncs1
<1>4. Len(j) > 0
  <2>1. CASE s[Len(s)].kind = "raise"
    BY <1>1, <1>2, <2>1 DEF Jumps, Jumping
  <2>2. CASE s[Len(s)].kind = "endtry"
    <3>1. PICK k \in 1 .. Len(j) : j[k].env = Len(s)
      BY <1>1, <1>2, <2>2 DEF Jumps, Covered, Tries
    <3> QED BY <1>2, <3>1, JmpBufTypes
  <2> QED BY <2>1, <2>2
<1>5. e \in 1 .. Len(s) /\ \A i \in 1 .. Len(s) : s[i].kind \in Tries => i <= e
  BY <1>1, <1>2, <1>4, JumpsTop
<1>6. s[Len(s)].kind = "endtry" => e = Len(s)
  BY <1>2, <1>5 DEF Tries
<1>7. Shorter(j, j2) /\ j2 \in Seq(JmpBufSet)
  <2>1. Len(j) - 1 \in 0 .. Len(j)
    BY <1>2, <1>4
  <2>2. /\ SubSeq(j, 1, Len(j) - 1) \in Seq(JmpBufSet) /\ Len(SubSeq(j, 1, Len(j) - 1)) = Len(j) - 1
        /\ \A k \in 1 .. Len(j) - 1 : SubSeq(j, 1, Len(j) - 1)[k] = j[k]
    BY <1>2, <2>1, PrefixOf
  <2> QED BY <1>4, <2>2 DEF Front, Shorter
<1> HIDE DEF e, j2
<1>8. Cuts(s, s2, e - 1) /\ s2 \in Seq(FrameSet)
  <2>1. e - 1 \in 0 .. Len(s)
    BY <1>5
  <2> QED BY <1>2, <2>1, CutsSubSeq DEF Cuts
<1> HIDE DEF s2
<1>9. Typed(s2, j2, q, FALSE)
  BY <1>2, <1>7, <1>8 DEF Typed
<1>10. Unwound(s2, FALSE)
  <2>1. e - 1 < Len(s)
    BY <1>5
  <2> QED BY <1>2, <1>3, <1>8, <2>1, UnwoundEnds
<1>11. ForLocks(s2)
  BY <1>1, <1>2, <1>8, ForLocksCuts
<1>12. Nested(s2, q)
  <2>1. Nested(s2, p)
    BY <1>1, <1>2, <1>8, NestedCuts
  <2>2. \A i \in 1 .. Len(s2) : s2[i].kind # "clean"
    BY <1>10, Calmed
  <2> QED BY <1>2, <1>8, <2>1, <2>2, NestedPools
<1>13. Jumps(s2, j2)
  <2>1. \A i \in 1 .. Len(s) : s[i].kind = "raise" => i = e + 1
    BY <1>1 DEF Jumps, Jumping, e
  <2> QED BY <1>1, <1>2, <1>7, <1>8, <2>1, JumpsCut DEF e
<1>14. Records(s2, j2)
  BY <1>1, <1>2, <1>3, <1>7, <1>8, RecordsCut DEF e
<1> QED BY <1>4, <1>5, <1>6, <1>9, <1>10, <1>11, <1>12, <1>13, <1>14 DEF Sane, s2, j2, e, Top

(* Only the entries of the pool change, or one is added in client code.    *)
LEMMA SanePools ==
  ASSUME NEW s, NEW j, NEW p, NEW u, Sane(s, j, p, u), NEW q \in Seq(Ptrs \cup {Nil}),
         Len(q) = Len(p) \/ (Len(q) >= Len(p) /\ u = FALSE)
  PROVE  Sane(s, j, q, u)
<1>1. Typed(s, j, p, u) /\ Unwound(s, u) /\ Nested(s, p)
  BY DEF Sane
<1>2. u = FALSE => \A i \in 1 .. Len(s) : s[i].kind # "clean"
  BY <1>1 DEF Unwound
<1>3. s \in Seq(FrameSet) /\ Len(p) \in Nat /\ Len(q) \in Nat
  BY <1>1 DEF Typed
<1>4. Nested(s, q)
  BY <1>1, <1>2, <1>3, NestedPools
<1> QED BY <1>4 DEF Sane, Typed

-----------------------------------------------------------------------------
(* The invariant                                                           *)

Types ==
  /\ stack \in [Threads -> Seq(FrameSet)] /\ jb \in [Threads -> Seq(JmpBufSet)]
  /\ pool \in [Threads -> Seq(Ptrs \cup {Nil})] /\ unwinding \in [Threads -> BOOLEAN]
  /\ lock \in [Locks -> [Threads -> Nat]]

SaneAt(t) == Sane(stack[t], jb[t], pool[t], unwinding[t])

(* A lock is taken once for each section that is open for it, by one       *)
(* thread.                                                                 *)
Held(s, l) == {i \in 1 .. Len(s) : s[i].kind = "lock" /\ s[i].n = l}
Locked ==
  \A l \in Locks :
    /\ \A t \in Threads : lock[l][t] = Cardinality(Held(stack[t], l))
    /\ \A t, o \in Threads : t # o => lock[l][t] = 0 \/ lock[l][o] = 0

Halting ==
  /\ halted \in {"no", "raise", "slots", "pool"}
  /\ FatalJustified

IInv == Types /\ (\A t \in Threads : SaneAt(t)) /\ Locked /\ Halting

(* A step of thread t.                                                     *)
Moved(t, s2, j2, p2, u2) ==
  /\ stack' = [stack EXCEPT ![t] = s2] /\ jb' = [jb EXCEPT ![t] = j2]
  /\ pool' = [pool EXCEPT ![t] = p2] /\ unwinding' = [unwinding EXCEPT ![t] = u2]

(* The counts of a thread when its stack becomes s2: it may enter what no  *)
(* other thread is in.                                                     *)
Tallied(t, s2) ==
  \A l \in Locks :
    /\ lock'[l][t] = Cardinality(Held(s2, l))
    /\ \A o \in Threads : o # t => lock'[l][o] = lock[l][o]
    /\ (lock[l][t] = 0 => lock'[l][t] = 0) \/ \A o \in Threads : o # t => lock[l][o] = 0

LEMMA StepInv ==
  ASSUME IInv, NEW t \in Threads, NEW s2, NEW j2, NEW p2, NEW u2,
         Moved(t, s2, j2, p2, u2), Sane(s2, j2, p2, u2), lock' \in [Locks -> [Threads -> Nat]],
         Tallied(t, s2),
         halted = "no", halted' = "no"
  PROVE  IInv'
<1>1. /\ s2 \in Seq(FrameSet) /\ j2 \in Seq(JmpBufSet) /\ p2 \in Seq(Ptrs \cup {Nil})
      /\ u2 \in BOOLEAN
  BY DEF Sane, Typed
<1>2. /\ stack \in [Threads -> Seq(FrameSet)] /\ jb \in [Threads -> Seq(JmpBufSet)]
      /\ pool \in [Threads -> Seq(Ptrs \cup {Nil})] /\ unwinding \in [Threads -> BOOLEAN]
  BY DEF IInv, Types
<1>3. /\ stack' \in [Threads -> Seq(FrameSet)] /\ jb' \in [Threads -> Seq(JmpBufSet)]
      /\ pool' \in [Threads -> Seq(Ptrs \cup {Nil})]
  BY <1>1, <1>2 DEF Moved
<1>4. unwinding' \in [Threads -> BOOLEAN]
  BY <1>1, <1>2, Zenon DEF Moved
<1>5. Types'
  BY <1>3, <1>4 DEF Types
<1>6. \A o \in Threads : /\ o = t => /\ stack'[o] = s2 /\ jb'[o] = j2 /\ pool'[o] = p2
                                     /\ unwinding'[o] = u2
                         /\ o # t => /\ stack'[o] = stack[o] /\ jb'[o] = jb[o] /\ pool'[o] = pool[o]
                                     /\ unwinding'[o] = unwinding[o]
  BY <1>2, Zenon DEF Moved
<1>7. \A o \in Threads : SaneAt(o)'
  BY <1>6, Zenon DEF SaneAt, IInv
<1>8. Locked'
  <2> SUFFICES ASSUME NEW l \in Locks
               PROVE  /\ \A o \in Threads : lock'[l][o] = Cardinality(Held(stack'[o], l))
                      /\ \A x, o \in Threads : x # o => lock'[l][x] = 0 \/ lock'[l][o] = 0
    BY DEF Locked, Held
  <2>1. /\ \A o \in Threads : lock[l][o] = Cardinality(Held(stack[o], l))
        /\ \A x, o \in Threads : x # o => lock[l][x] = 0 \/ lock[l][o] = 0
    BY DEF IInv, Locked
  <2>2. /\ lock'[l][t] = Cardinality(Held(s2, l))
        /\ \A o \in Threads : o # t => lock'[l][o] = lock[l][o]
        /\ (lock[l][t] = 0 => lock'[l][t] = 0) \/ \A o \in Threads : o # t => lock[l][o] = 0
    BY DEF Tallied
  <2>3. \A o \in Threads : o # t => stack'[o] = stack[o]
    BY <1>6
  <2>4. \A o \in Threads : lock'[l][o] = Cardinality(Held(stack'[o], l))
    <3> TAKE o \in Threads
    <3>1. CASE o = t
      <4>1. stack'[o] = s2
        BY <1>6, <3>1
      <4> QED BY <2>2, <3>1, <4>1
    <3>2. CASE o # t
      BY <2>1, <2>2, <2>3, <3>2
    <3> QED BY <3>1, <3>2
  <2>5. \A x, o \in Threads : x # o => lock'[l][x] = 0 \/ lock'[l][o] = 0
    BY <2>1, <2>2
  <2> QED BY <2>4, <2>5
<1>9. Halting'
  BY DEF Halting, FatalJustified
<1> QED BY <1>5, <1>7, <1>8, <1>9 DEF IInv

(* The sections of a stack that changes.                                   *)
LEMMA HeldFinite ==
  ASSUME NEW s \in Seq(FrameSet), NEW l
  PROVE  IsFiniteSet(Held(s, l)) /\ Cardinality(Held(s, l)) \in Nat
<1>1. Held(s, l) \subseteq 1 .. Len(s)
  BY DEF Held
<1>2. IsFiniteSet(1 .. Len(s))
  BY FS_Interval
<1> QED BY <1>1, <1>2, FS_Subset, FS_CardinalityType

LEMMA LocksGrows ==
  ASSUME NEW s \in Seq(FrameSet), NEW s2, Grows(s, s2), NEW l
  PROVE  Held(s2, l) =
           IF s2[Len(s) + 1].kind = "lock" /\ s2[Len(s) + 1].n = l
             THEN Held(s, l) \cup {Len(s) + 1} ELSE Held(s, l)
<1>1. \A i : i \in 1 .. Len(s2) <=> i \in 1 .. Len(s) \/ i = Len(s) + 1
  BY DEF Grows
<1>2. \A i \in 1 .. Len(s) : s2[i] = s[i] /\ i # Len(s) + 1
  BY DEF Grows
<1> QED BY <1>1, <1>2 DEF Held

LEMMA LocksAppend ==
  ASSUME NEW s \in Seq(FrameSet), NEW f \in FrameSet, f.kind # "lock", NEW l
  PROVE  Held(Append(s, f), l) = Held(s, l)
<1>1. Grows(s, Append(s, f)) /\ Append(s, f)[Len(s) + 1] = f
  BY GrowsAppend
<1>2. Append(s, f)[Len(s) + 1].kind # "lock"
  BY <1>1
<1> QED BY <1>1, <1>2, LocksGrows

LEMMA LocksCuts ==
  ASSUME NEW s \in Seq(FrameSet), NEW s2, NEW n, Cuts(s, s2, n), NEW l
  PROVE  Held(s2, l) = {i \in 1 .. n : s[i].kind = "lock" /\ s[i].n = l}
  BY DEF Cuts, Held

LEMMA LocksRetops ==
  ASSUME NEW s \in Seq(FrameSet), NEW s2, Retops(s, s2), NEW l,
         s[Len(s)].kind # "lock", s2[Len(s)].kind # "lock"
  PROVE  Held(s2, l) = Held(s, l)
<1>1. \A i \in 1 .. Len(s) : i = Len(s) \/ s2[i] = s[i]
  BY DEF Retops
<1>2. Len(s2) = Len(s)
  BY DEF Retops
<1> QED BY <1>1, <1>2 DEF Held

LEMMA LocksPops ==
  ASSUME NEW s \in Seq(FrameSet), s # <<>>, NEW l, s[Len(s)].kind # "lock"
  PROVE  Held(Front(s), l) = Held(s, l)
<1>1. Cuts(s, Front(s), Len(s) - 1)
  BY CutsFront
<1>2. \A i : i \in 1 .. Len(s) <=> i \in 1 .. Len(s) - 1 \/ i = Len(s)
  OBVIOUS
<1>3. Held(Front(s), l) = {i \in 1 .. Len(s) - 1 : s[i].kind = "lock" /\ s[i].n = l}
  BY <1>1, LocksCuts
<1> QED BY <1>2, <1>3 DEF Held

-----------------------------------------------------------------------------
(* The entries of the pool                                                 *)

LEMMA LowestIs ==
  ASSUME NEW S, S \subseteq Nat, S # {}
  PROVE  \E m \in S : \A i \in S : m <= i
<1>1. PICK m \in S : \A i \in S : ~ (<<i, m>> \in OpToRel(<, Nat))
  BY WFMin, NatLessThanWellFounded, Zenon
<1>2. \A i \in S : ~ (i < m)
  BY <1>1 DEF OpToRel
<1> QED BY <1>2

LEMMA HighestIs ==
  ASSUME NEW n \in Nat, NEW S, S \subseteq 1 .. n, S # {}
  PROVE  Highest(S) \in S /\ \A i \in S : i <= Highest(S)
<1> DEFINE D == {n - i : i \in S}
<1>1. D \subseteq Nat /\ D # {}
  <2>1. \A i \in S : n - i \in Nat
    OBVIOUS
  <2> QED BY <2>1
<1>2. PICK d \in D : \A e \in D : d <= e
  BY <1>1, LowestIs
<1>3. PICK m \in S : d = n - m
  OBVIOUS
<1>4. \A i \in S : i <= m
  <2> TAKE i \in S
  <2>1. n - m <= n - i
    BY <1>2, <1>3
  <2> QED BY <2>1
<1> QED BY <1>4 DEF Highest

LEMMA HighestIn ==
  ASSUME NEW t, NEW p, pool[t] \in Seq(Ptrs \cup {Nil}), Where(t, p) # {}
  PROVE  /\ Highest(Where(t, p)) \in 1 .. Len(pool[t]) /\ Highest(Where(t, p)) \in Where(t, p)
         /\ pool[t][Highest(Where(t, p))] = p
<1>1. Len(pool[t]) \in Nat /\ Where(t, p) \subseteq 1 .. Len(pool[t])
  BY DEF Where
<1>2. Highest(Where(t, p)) \in Where(t, p)
  BY <1>1, HighestIs
<1> QED BY <1>1, <1>2 DEF Where
-----------------------------------------------------------------------------
(* The steps                                                               *)

(* What the invariant says of one thread, and of a step that leaves its    *)
(* stack or its sections alone.                                            *)
LEMMA AtThread ==
  ASSUME IInv, NEW t \in Threads
  PROVE  /\ Sane(stack[t], jb[t], pool[t], unwinding[t])
         /\ stack[t] \in Seq(FrameSet) /\ jb[t] \in Seq(JmpBufSet)
         /\ pool[t] \in Seq(Ptrs \cup {Nil}) /\ unwinding[t] \in BOOLEAN
         /\ Unwound(stack[t], unwinding[t]) /\ Jumps(stack[t], jb[t]) /\ Nested(stack[t], pool[t])
         /\ ForLocks(stack[t]) /\ Records(stack[t], jb[t])
         /\ Len(stack[t]) \in Nat /\ Len(pool[t]) \in Nat /\ Len(jb[t]) \in Nat
<1>1. SaneAt(t)
  BY DEF IInv
<1> QED BY <1>1 DEF SaneAt, Sane, Typed

LEMMA Stays ==
  ASSUME IInv, NEW t \in Threads
  PROVE  /\ UNCHANGED stack => stack' = [stack EXCEPT ![t] = stack[t]]
         /\ UNCHANGED jb => jb' = [jb EXCEPT ![t] = jb[t]]
         /\ UNCHANGED pool => pool' = [pool EXCEPT ![t] = pool[t]]
         /\ UNCHANGED unwinding => unwinding' = [unwinding EXCEPT ![t] = unwinding[t]]
  BY DEF IInv, Types

(* A step of one thread that opens and closes no section.                  *)
LEMMA StepQuiet ==
  ASSUME IInv, NEW t \in Threads, NEW s2, NEW j2, NEW p2, NEW u2,
         Moved(t, s2, j2, p2, u2), Sane(s2, j2, p2, u2), UNCHANGED lock,
         \A l \in Locks : Held(s2, l) = Held(stack[t], l),
         halted = "no", halted' = "no"
  PROVE  IInv'
<1>1. lock' \in [Locks -> [Threads -> Nat]]
  BY DEF IInv, Types
<1>2. Tallied(t, s2)
  BY DEF Tallied, IInv, Locked
<1> QED BY <1>1, <1>2, StepInv

(* Client code runs where no truncation is in its loop.                    *)
LEMMA RunsAt ==
  ASSUME IInv, NEW t \in Threads, Running(t)
  PROVE  /\ halted = "no" /\ (stack[t] = <<>> \/ stack[t][Len(stack[t])].kind \notin Truncs)
         /\ Calm(t) => unwinding[t] = FALSE
<1>1. halted = "no" /\ (stack[t] = <<>> \/ stack[t][Len(stack[t])].kind \notin Truncs)
  BY DEF Running, Going, AtTop, Top, Truncs
<1>2. unwinding[t] \in BOOLEAN
  BY AtThread
<1> QED BY <1>1, <1>2 DEF Calm

(* A step that changes the pool of one thread, or nothing of it.           *)
LEMMA StepPool ==
  ASSUME IInv, NEW t \in Threads, NEW q \in Seq(Ptrs \cup {Nil}), pool' = [pool EXCEPT ![t] = q],
         UNCHANGED <<stack, jb, unwinding, lock>>,
         Len(q) = Len(pool[t]) \/ (Len(q) >= Len(pool[t]) /\ unwinding[t] = FALSE),
         halted = "no", halted' = "no"
  PROVE  IInv'
<1>1. Moved(t, stack[t], jb[t], q, unwinding[t])
  BY Stays DEF Moved
<1>2. Sane(stack[t], jb[t], q, unwinding[t])
  BY AtThread, SanePools
<1> QED BY <1>1, <1>2, StepQuiet

LEMMA PoolNewInv == ASSUME IInv, NEW t \in Threads, NEW p \in Ptrs, PoolNew(t, p) PROVE IInv'
<1>1. Calm(t) /\ Running(t) /\ pool' = [pool EXCEPT ![t] = Append(pool[t], p)]
  BY DEF PoolNew, AppendTo, Calm
<1>2. Append(pool[t], p) \in Seq(Ptrs \cup {Nil}) /\ Len(Append(pool[t], p)) >= Len(pool[t])
  BY AtThread
<1>3. UNCHANGED <<stack, jb, unwinding, lock, halted>>
  BY DEF PoolNew
<1> QED BY <1>1, <1>2, <1>3, RunsAt, StepPool

LEMMA PoolRefInv == ASSUME IInv, NEW t \in Threads, NEW p \in Ptrs, PoolRef(t, p) PROVE IInv'
<1>1. Calm(t) /\ Running(t) /\ pool' = [pool EXCEPT ![t] = Append(pool[t], p)]
  BY DEF PoolRef, AppendTo, Calm
<1>2. Append(pool[t], p) \in Seq(Ptrs \cup {Nil}) /\ Len(Append(pool[t], p)) >= Len(pool[t])
  BY AtThread
<1>3. UNCHANGED <<stack, jb, unwinding, lock, halted>>
  BY DEF PoolRef
<1> QED BY <1>1, <1>2, <1>3, RunsAt, StepPool

(* An entry of the pool is overwritten.                                    *)
LEMMA Overwritten ==
  ASSUME NEW p \in Seq(Ptrs \cup {Nil}), NEW i \in 1 .. Len(p), NEW x \in Ptrs \cup {Nil}
  PROVE  [p EXCEPT ![i] = x] \in Seq(Ptrs \cup {Nil}) /\ Len([p EXCEPT ![i] = x]) = Len(p)
  OBVIOUS

LEMMA RetainInv == ASSUME IInv, NEW t \in Threads, NEW p \in Ptrs, Retain(t, p) PROVE IInv'
<1> DEFINE q == [pool[t] EXCEPT ![Highest(Where(t, p))] = Nil]
<1>1. Running(t) /\ pool' = [pool EXCEPT ![t] = q]
  BY DEF Retain, Calm
<1>0. Highest(Where(t, p)) \in 1 .. Len(pool[t])
  BY AtThread, HighestIn DEF Retain
<1>2. q \in Seq(Ptrs \cup {Nil}) /\ Len(q) = Len(pool[t])
  BY <1>0, AtThread, Overwritten
<1>3. UNCHANGED <<stack, jb, unwinding, lock, halted>>
  BY DEF Retain
<1> HIDE DEF q
<1> QED BY <1>1, <1>2, <1>3, RunsAt, StepPool

LEMMA DropInv == ASSUME IInv, NEW t \in Threads, NEW p \in Ptrs, Drop(t, p) PROVE IInv'
<1>1. Running(t) /\ UNCHANGED <<stack, jb, pool, unwinding, lock, halted>>
  BY DEF Drop
<1>2. pool[t] \in Seq(Ptrs \cup {Nil})
  BY AtThread
<1>3. halted = "no" /\ halted' = "no"
  BY <1>1, RunsAt
<1>4. pool' = [pool EXCEPT ![t] = pool[t]]
  BY <1>1, Stays
<1> QED BY <1>1, <1>2, <1>3, <1>4, StepPool

LEMMA ReleaseInv == ASSUME IInv, NEW t \in Threads, NEW p \in Ptrs, Release(t, p) PROVE IInv'
<1> DEFINE h == Highest(Where(t, p))
           f == Frame("release", h, Nil)
<1>1. Calm(t) /\ Running(t) /\ stack' = [stack EXCEPT ![t] = Append(stack[t], f)]
  BY DEF Release, Enter, Calm
<1>2. UNCHANGED <<jb, pool, unwinding, lock, halted>>
  BY DEF Release
<1>3. h \in 1 .. Len(pool[t])
  BY AtThread, HighestIn DEF Release
<1> HIDE DEF h
<1>4. f \in FrameSet /\ f.kind = "release" /\ f.n = h
  BY <1>3 DEF Frame, FrameSet, Kinds
<1>5. Moved(t, Append(stack[t], f), jb[t], pool[t], unwinding[t])
  BY <1>1, <1>2, Stays DEF Moved
<1>6. unwinding[t] = FALSE /\ halted = "no"
  BY <1>1, RunsAt
<1> HIDE DEF f
<1>7. Sane(Append(stack[t], f), jb[t], pool[t], unwinding[t])
  BY <1>3, <1>4, <1>6, AtThread, SaneGrows
<1>8. \A l \in Locks : Held(Append(stack[t], f), l) = Held(stack[t], l)
  BY <1>4, AtThread, LocksAppend
<1> QED BY <1>2, <1>5, <1>6, <1>7, <1>8, StepQuiet

LEMMA ReleaseDoneInv == ASSUME IInv, NEW t \in Threads, ReleaseDone(t) PROVE IInv'
<1> DEFINE s == stack[t]
           q == [pool[t] EXCEPT ![Top(stack[t]).n] = Nil]
<1>1. /\ Running(t) /\ stack' = [stack EXCEPT ![t] = Front(s)] /\ pool' = [pool EXCEPT ![t] = q]
      /\ s # <<>> /\ s[Len(s)].kind = "release"
  BY DEF ReleaseDone, Emptied, AtTop, Top
<1>2. UNCHANGED <<jb, unwinding, lock, halted>>
  BY DEF ReleaseDone
<1>0. s[Len(s)].n \in 1 .. Len(pool[t])
  BY <1>1, AtThread DEF Nested, Within
<1>3. q \in Seq(Ptrs \cup {Nil}) /\ Len(q) = Len(pool[t])
  BY <1>0, AtThread, Overwritten DEF Top
<1> HIDE DEF q
<1>4. Moved(t, Front(s), jb[t], q, unwinding[t])
  BY <1>1, <1>2, Stays DEF Moved
<1>5. Sane(Front(s), jb[t], q, unwinding[t])
  BY <1>1, <1>3, AtThread, SanePops
<1>6. \A l \in Locks : Held(Front(s), l) = Held(s, l)
  BY <1>1, AtThread, LocksPops
<1> QED BY <1>1, <1>2, <1>4, <1>5, <1>6, RunsAt, StepQuiet

(* The program aborts, and nothing else changes.                           *)
LEMMA StepFatal ==
  ASSUME IInv, NEW why \in {"raise", "slots", "pool"}, Fatal(why),
         why = "raise" => \E t \in Threads : jb[t] = <<>> \/ Frames(t, {"clean"}) # {},
         why = "slots" =>
           \E t \in Threads : Cardinality(Frames(t, {"lock"})) >= CSCOUNT
  PROVE  IInv'
<1>1. UNCHANGED <<stack, jb, pool, unwinding, lock>> /\ halted' = why
  BY DEF Fatal
<1>2. Types' /\ (\A t \in Threads : SaneAt(t)')
  BY <1>1 DEF IInv, Types, SaneAt
<1>3. Locked'
  BY <1>1 DEF IInv, Locked
<1>4. Halting'
  <2>1. \A t \in Threads : Frames(t, {"clean"})' = Frames(t, {"clean"})
                           /\ Frames(t, {"lock"})' = Frames(t, {"lock"})
    BY <1>1 DEF Frames
  <2> QED BY <1>1, <2>1 DEF Halting, FatalJustified
<1> QED BY <1>2, <1>3, <1>4 DEF IInv

LEMMA RefreshInv ==
  ASSUME IInv, NEW t \in Threads, NEW old \in Ptrs, NEW new \in Ptrs, Refresh(t, old, new)
  PROVE  IInv'
<1>1. Running(t)
  BY DEF Refresh, Calm
<1>2. CASE Where(t, old) = {}
  BY <1>2, StepFatal DEF Refresh
<1>3. CASE Where(t, old) # {}
  <2> DEFINE q == [pool[t] EXCEPT ![Highest(Where(t, old))] = new]
  <2>1. pool' = [pool EXCEPT ![t] = q] /\ UNCHANGED <<stack, jb, unwinding, lock, halted>>
    BY <1>3 DEF Refresh
  <2>2. Highest(Where(t, old)) \in 1 .. Len(pool[t])
    BY <1>3, AtThread, HighestIn
  <2>3. q \in Seq(Ptrs \cup {Nil}) /\ Len(q) = Len(pool[t])
    BY <2>2, AtThread, Overwritten
  <2> HIDE DEF q
  <2> QED BY <1>1, <2>1, <2>3, RunsAt, StepPool
<1> QED BY <1>2, <1>3

LEMMA EnterAutoInv == ASSUME IInv, NEW t \in Threads, EnterAuto(t) PROVE IInv'
<1> DEFINE f == Frame("auto", Len(pool[t]), Nil)
<1>1. Calm(t) /\ Running(t) /\ stack' = [stack EXCEPT ![t] = Append(stack[t], f)]
  BY DEF EnterAuto, Enter, Calm
<1>2. UNCHANGED <<jb, pool, unwinding, lock, halted>>
  BY DEF EnterAuto
<1>3. f \in FrameSet /\ f.kind = "auto" /\ f.n = Len(pool[t])
  BY AtThread DEF Frame, FrameSet, Kinds
<1>4. Moved(t, Append(stack[t], f), jb[t], pool[t], unwinding[t])
  BY <1>1, <1>2, Stays DEF Moved
<1>5. unwinding[t] = FALSE /\ halted = "no"
  BY <1>1, RunsAt
<1> HIDE DEF f
<1>6. Sane(Append(stack[t], f), jb[t], pool[t], unwinding[t])
  BY <1>3, <1>5, AtThread, SaneGrows
<1>7. \A l \in Locks : Held(Append(stack[t], f), l) = Held(stack[t], l)
  BY <1>3, AtThread, LocksAppend
<1> QED BY <1>2, <1>4, <1>5, <1>6, <1>7, StepQuiet

LEMMA EnterTryInv ==
  ASSUME IInv, NEW t \in Threads, NEW keep \in Ptrs \cup {Nil}, EnterTry(t, keep)
  PROVE  IInv'
<1> DEFINE f == Frame("try", Len(pool[t]), keep)
           b == NewJmpBuf(t)
<1>1. /\ Calm(t) /\ Running(t) /\ stack' = [stack EXCEPT ![t] = Append(stack[t], f)]
      /\ jb' = [jb EXCEPT ![t] = Append(jb[t], b)]
  BY DEF EnterTry, Enter, Calm
<1>2. UNCHANGED <<pool, unwinding, lock, halted>>
  BY DEF EnterTry
<1>3. f \in FrameSet /\ f.kind = "try"
  BY AtThread DEF Frame, FrameSet, Kinds
<1>4. b \in JmpBufSet /\ b.env = Len(stack[t]) + 1 /\ b.top = Len(pool[t]) /\ b.locks = {}
  BY AtThread DEF NewJmpBuf, JmpBufSet
<1> HIDE DEF b
<1>5. unwinding[t] = FALSE /\ halted = "no"
  BY <1>1, RunsAt
<1>6. Moved(t, Append(stack[t], f), Append(jb[t], b), pool[t], unwinding[t])
  BY <1>1, <1>2, Stays DEF Moved
<1>7. Sane(Append(stack[t], f), Append(jb[t], b), pool[t], FALSE)
  <2>1. Sane(stack[t], jb[t], pool[t], FALSE)
    BY <1>5, AtThread
  <2> QED BY <1>4, <2>1, SaneTry
<1>8. \A l \in Locks : Held(Append(stack[t], f), l) = Held(stack[t], l)
  <2> HIDE DEF f
  <2> QED BY <1>3, AtThread, LocksAppend
<1>9. Sane(Append(stack[t], f), Append(jb[t], b), pool[t], unwinding[t])
  BY <1>5, <1>7
<1> HIDE DEF f
<1> QED BY <1>2, <1>5, <1>6, <1>8, <1>9, StepQuiet

(* The end of a block turns into the truncation of what it has pooled.     *)
LEMMA TruncateInv ==
  ASSUME IInv, NEW t \in Threads, NEW kind, NEW n, NEW keep \in Ptrs \cup {Nil},
         Calm(t), stack[t] # <<>>, n = stack[t][Len(stack[t])].n,
         \/ stack[t][Len(stack[t])].kind = "auto" /\ kind = "endauto"
         \/ stack[t][Len(stack[t])].kind = "try" /\ kind = "endtry",
         Truncate(t, kind, n, keep)
  PROVE  IInv'
<1> DEFINE f  == Frame(kind, n, keep)
           s  == stack[t]
           s2 == [s EXCEPT ![Len(s)] = f]
<1>0. s \in Seq(FrameSet) /\ Len(s) \in 1 .. Len(s) /\ Sane(s, jb[t], pool[t], unwinding[t])
  BY AtThread
<1>1. stack' = [stack EXCEPT ![t] = s2] /\ unwinding' = [unwinding EXCEPT ![t] = TRUE]
  BY DEF Truncate
<1>2. UNCHANGED <<jb, pool, lock, halted>>
  BY DEF Truncate
<1>3. f \in FrameSet /\ f.kind = kind /\ f.n = n
  BY <1>0, FrameTypes DEF Frame, FrameSet, Kinds
<1> HIDE DEF f
<1>4. unwinding[t] = FALSE /\ halted = "no"
  BY RunsAt DEF Calm
<1>5. Moved(t, s2, jb[t], pool[t], TRUE)
  BY <1>1, <1>2, Stays DEF Moved
<1>6. Sane(s2, jb[t], pool[t], TRUE)
  BY <1>0, <1>3, <1>4, AtThread, SaneRetops
<1>7. \A l \in Locks : Held(s2, l) = Held(s, l)
  <2>1. Retops(s, s2) /\ s2[Len(s)] = f
    BY <1>0, <1>3, RetopsSet
  <2>2. s[Len(s)].kind # "lock" /\ s2[Len(s)].kind # "lock"
    BY <1>3, <2>1
  <2> QED BY <1>0, <2>1, <2>2, LocksRetops
<1> HIDE DEF s2
<1> QED BY <1>2, <1>4, <1>5, <1>6, <1>7, StepQuiet

LEMMA LeaveAutoInv ==
  ASSUME IInv, NEW t \in Threads, NEW keep \in Ptrs \cup {Nil}, LeaveAuto(t, keep)
  PROVE  IInv'
<1>1. /\ Calm(t) /\ stack[t] # <<>> /\ stack[t][Len(stack[t])].kind = "auto"
      /\ Truncate(t, "endauto", stack[t][Len(stack[t])].n, keep)
  BY DEF LeaveAuto, AtTop, Top
<1> QED BY <1>1, TruncateInv

LEMMA LeaveTryInv == ASSUME IInv, NEW t \in Threads, LeaveTry(t) PROVE IInv'
<1> DEFINE s == stack[t]
           j == jb[t]
<1>1. /\ Calm(t) /\ s # <<>> /\ s[Len(s)].kind = "try"
      /\ Truncate(t, "endtry", j[Len(j)].top, s[Len(s)].keep)
  BY DEF LeaveTry, AtTop, Top
<1>2. s \in Seq(FrameSet) /\ Len(s) \in 1 .. Len(s) /\ j \in Seq(JmpBufSet) /\ Jumps(s, j)
  BY <1>1, AtThread
<1>3. s[Len(s)].keep \in Ptrs \cup {Nil}
  BY <1>2, FrameTypes
<1>4. PICK k \in 1 .. Len(j) : j[k].env = Len(s)
  BY <1>1, <1>2 DEF Jumps, Covered, Tries
<1>5. Len(j) > 0
  BY <1>2, <1>4, JmpBufTypes
<1>6. j[Len(j)].env \in 1 .. Len(s) /\ s[j[Len(j)].env].n = j[Len(j)].top /\ Len(s) <= j[Len(j)].env
  BY <1>1, <1>2, <1>5, JumpsTop DEF Tries
<1>7. s[Len(s)].n = j[Len(j)].top
  <2>1. j[Len(j)].env = Len(s)
    BY <1>2, <1>6
  <2> QED BY <1>6, <2>1
<1> QED BY <1>1, <1>3, <1>7, TruncateInv

(* The innermost jump buffer, its locks changed.                           *)
LEMMA Rewritten ==
  ASSUME NEW j \in Seq(JmpBufSet), j # <<>>, NEW L \in SUBSET SlotSet
  PROVE  LET j2 == [j EXCEPT ![Len(j)].locks = L]
         IN /\ j2 \in Seq(JmpBufSet) /\ SameJumps(j, j2) /\ j2[Len(j)].locks = L
            /\ \A k \in 1 .. Len(j) - 1 : j2[k].locks = j[k].locks
<1> DEFINE b  == [j[Len(j)] EXCEPT !.locks = L]
           j2 == [j EXCEPT ![Len(j)] = b]
<1>1. Len(j) \in 1 .. Len(j) /\ j[Len(j)] \in JmpBufSet
  OBVIOUS
<1>2. b \in JmpBufSet /\ b.locks = L /\ b.env = j[Len(j)].env /\ b.top = j[Len(j)].top
  BY <1>1 DEF JmpBufSet
<1> HIDE DEF b
<1>3. /\ j2 \in Seq(JmpBufSet) /\ Len(j2) = Len(j) /\ j2[Len(j)] = b
      /\ \A k \in 1 .. Len(j) : k # Len(j) => j2[k] = j[k]
  BY <1>1, <1>2
<1> HIDE DEF j2
<1>4. SameJumps(j, j2)
  BY <1>2, <1>3 DEF SameJumps
<1>5. \A k \in 1 .. Len(j) - 1 : j2[k].locks = j[k].locks
  <2>1. \A k \in 1 .. Len(j) - 1 : k \in 1 .. Len(j) /\ k # Len(j)
    BY <1>1
  <2> QED BY <1>3, <2>1
<1> QED BY <1>2, <1>3, <1>4, <1>5 DEF j2, b

(* In client code outside of a truncation the innermost jump buffer has on *)
(* record the sections entered since its __Try, and those are open.        *)
LEMMA OnRecord ==
  ASSUME NEW s \in Seq(FrameSet), NEW j \in Seq(JmpBufSet), Jumps(s, j), Records(s, j), Len(j) > 0,
         Unwound(s, FALSE), NEW l \in Locks, NEW i \in Nat
  PROVE  Slot(l, i) \in j[Len(j)].locks <=> i \in Held(s, l) /\ i > j[Len(j)].env
<1>1. Len(j) \in 1 .. Len(j) /\ ~(Len(j) < Len(j))
  BY JmpBufTypes
<1>2. \A c \in 1 .. Len(s) : s[c].kind # "clean"
  BY Calmed
<1>3. RecordAt(s, j, Len(j))
  BY <1>1, Calmed, RecordsIs
<1>4. i \in 1 .. Len(s) => (Covers(s, j, Len(j), i) <=> s[i].kind = "lock" /\ i > j[Len(j)].env)
  BY <1>1, <1>2 DEF Covers
<1>5. Slot(l, i) \in j[Len(j)].locks
        <=> i \in 1 .. Len(s) /\ Covers(s, j, Len(j), i) /\ s[i].n = l
  BY <1>3 DEF RecordAt
<1> QED BY <1>4, <1>5 DEF Held

LEMMA OnTopIs ==
  ASSUME IInv, NEW t \in Threads, jb[t] # <<>>, unwinding[t] = FALSE, NEW l \in Locks
  PROVE  OnTop(t, l) = {i \in Held(stack[t], l) : i > jb[t][Len(jb[t])].env}
<1>1. /\ stack[t] \in Seq(FrameSet) /\ jb[t] \in Seq(JmpBufSet) /\ Jumps(stack[t], jb[t])
      /\ Records(stack[t], jb[t])
  BY AtThread
<1>2. Unwound(stack[t], FALSE)
  BY AtThread, Zenon
<1>3. Len(jb[t]) > 0 /\ DOMAIN stack[t] = 1 .. Len(stack[t])
  BY <1>1
<1>4. ASSUME NEW i \in 1 .. Len(stack[t])
      PROVE  Slot(l, i) \in jb[t][Len(jb[t])].locks
               <=> i \in Held(stack[t], l) /\ i > jb[t][Len(jb[t])].env
  <2>1. i \in Nat
    BY <1>1
  <2> DEFINE s == stack[t]
             j == jb[t]
  <2>2. s \in Seq(FrameSet) /\ j \in Seq(JmpBufSet) /\ Jumps(s, j) /\ Records(s, j)
    BY <1>1
  <2>3. Len(j) > 0 /\ Unwound(s, FALSE)
    BY <1>2, <1>3
  <2> HIDE DEF s, j
  <2>4. Slot(l, i) \in j[Len(j)].locks <=> i \in Held(s, l) /\ i > j[Len(j)].env
    BY <2>1, <2>2, <2>3, OnRecord
  <2> QED BY <2>4 DEF s, j
<1> QED BY <1>3, <1>4 DEF OnTop, SlotsOf, Held

(* C_MAX_CS_COUNT sections on record are as many open sections.            *)
LEMMA SlotsOpen ==
  ASSUME IInv, NEW t \in Threads, jb[t] # <<>>, unwinding[t] = FALSE,
         Cardinality(Top(jb[t]).locks) >= CSCOUNT
  PROVE  Cardinality(Frames(t, {"lock"})) >= CSCOUNT
<1> DEFINE s == stack[t]
           j == jb[t]
           N == Frames(t, {"lock"})
           R == j[Len(j)].locks
           f == [e \in R |-> e.at]
<1>1. s \in Seq(FrameSet) /\ j \in Seq(JmpBufSet) /\ Jumps(s, j) /\ Records(s, j)
  BY AtThread
<1>2. Unwound(s, FALSE)
  BY AtThread, Zenon
<1>3. Len(j) > 0 /\ Len(j) \in 1 .. Len(j)
  BY <1>1
<1>4. N = {i \in 1 .. Len(s) : s[i].kind = "lock"}
  BY <1>1 DEF Frames
<1>5. R \subseteq SlotSet
  BY <1>1, <1>3, JmpBufTypes
<1>6. IsFiniteSet(N)
  <2>1. IsFiniteSet(1 .. Len(s)) /\ N \subseteq 1 .. Len(s)
    BY <1>1, <1>4, FS_Interval
  <2> QED BY <2>1, FS_Subset
<1>7. ASSUME NEW e \in R
      PROVE  e = Slot(e.cs, e.at) /\ e.at \in N /\ s[e.at].n = e.cs
  <2>1. e = Slot(e.cs, e.at) /\ e.cs \in Locks /\ e.at \in Nat
    BY <1>5, SlotIs
  <2>2. e.at \in Held(s, e.cs)
    BY <1>1, <1>2, <1>3, <2>1, OnRecord
  <2> QED BY <1>4, <2>1, <2>2 DEF Held
<1>8. R = Top(j).locks
  BY DEF Top
<1> HIDE DEF N, R
<1>9. f \in Injection(R, N)
  <2>1. f \in [R -> N]
    BY <1>7
  <2>2. \A e, d \in R : f[e] = f[d] => e = d
    <3> SUFFICES ASSUME NEW e \in R, NEW d \in R, e.at = d.at
                 PROVE  e = d
      OBVIOUS
    <3>1. e.cs = d.cs
      BY <1>7
    <3>2. e = Slot(e.cs, e.at) /\ d = Slot(d.cs, d.at)
      BY <1>7
    <3> QED BY <3>1, <3>2
  <2> QED BY <2>1, <2>2 DEF Injection, IsInjective
<1> HIDE DEF f
<1>10. Cardinality(R) <= Cardinality(N) /\ IsFiniteSet(R)
  BY <1>6, <1>9, FS_Injection
<1>11. Cardinality(N) \in Nat /\ Cardinality(R) \in Nat /\ CSCOUNT \in Nat
  BY <1>6, <1>10, FS_CardinalityType, CsupAssumption
<1> QED BY <1>8, <1>10, <1>11 DEF N

(* One count of one thread changes.                                        *)
LEMMA LockTypes ==
  ASSUME IInv, NEW t \in Threads, NEW l \in Locks, NEW v \in Nat, lock' = [lock EXCEPT ![l][t] = v]
  PROVE  /\ lock' \in [Locks -> [Threads -> Nat]] /\ lock'[l][t] = v
         /\ \A m \in Locks, o \in Threads : m # l \/ o # t => lock'[m][o] = lock[m][o]
<1>1. lock \in [Locks -> [Threads -> Nat]]
  BY DEF IInv, Types
<1> QED BY <1>1

LEMMA CountsAre ==
  ASSUME IInv, NEW t \in Threads, NEW l \in Locks
  PROVE  /\ lock[l][t] = Cardinality(Held(stack[t], l)) /\ lock[l][t] \in Nat
         /\ IsFiniteSet(Held(stack[t], l))
         /\ \A o \in Threads : o # t => lock[l][t] = 0 \/ lock[l][o] = 0
<1>1. stack[t] \in Seq(FrameSet)
  BY AtThread
<1> QED BY <1>1, HeldFinite DEF IInv, Locked, Types

LEMMA EnterLockInv ==
  ASSUME IInv, NEW t \in Threads, NEW l \in Locks, EnterLock(t, l)
  PROVE  IInv'
<1> DEFINE s  == stack[t]
           j  == jb[t]
           f  == Frame("lock", l, Nil)
           s2 == Append(s, f)
           j2 == [j EXCEPT ![Len(j)].locks = j[Len(j)].locks \cup {Slot(l, Len(s) + 1)}]
           u  == unwinding[t]
<1>1. Running(t) /\ halted = "no" /\ s \in Seq(FrameSet)
      /\ j \in Seq(JmpBufSet) /\ (s = <<>> \/ s[Len(s)].kind \notin Truncs) /\ u \in BOOLEAN
  <2>1. Running(t)
    BY DEF EnterLock
  <2> QED BY <2>1, AtThread, RunsAt
<1>2. \A o \in Threads : o # t => lock[l][o] = 0
  BY DEF EnterLock, Free
<1>3. CASE Recorded(t) /\ Cardinality(Top(jb[t]).locks) >= CSCOUNT
  <2>1. Fatal("slots") /\ j # <<>> /\ u = FALSE
    BY <1>1, <1>3 DEF EnterLock, Recorded
  <2> QED BY <1>3, <2>1, SlotsOpen, StepFatal
<1>4. CASE ~(Recorded(t) /\ Cardinality(Top(jb[t]).locks) >= CSCOUNT)
  <2>1. /\ stack' = [stack EXCEPT ![t] = s2] /\ lock' = [lock EXCEPT ![l][t] = lock[l][t] + 1]
        /\ Recorded(t) => JmpBuf_Push(t, l)
        /\ ~Recorded(t) => UNCHANGED jb
        /\ UNCHANGED <<pool, unwinding, halted>>
    BY <1>4 DEF EnterLock, Enter
  <2>2. /\ lock' \in [Locks -> [Threads -> Nat]] /\ lock'[l][t] = lock[l][t] + 1
        /\ \A m \in Locks, o \in Threads : m # l \/ o # t => lock'[m][o] = lock[m][o]
    <3>1. lock[l][t] + 1 \in Nat
      BY CountsAre
    <3> QED BY <2>1, <3>1, LockTypes
  <2>3. f \in FrameSet /\ f.kind = "lock" /\ f.n = l
    BY DEF Frame, FrameSet, Kinds, Locks
  <2>4. Grows(s, s2) /\ s2[Len(s) + 1] = f
    <3> HIDE DEF f
    <3> QED BY <1>1, <2>3, GrowsAppend
  <2>5. s2[Len(s) + 1].kind = "lock" /\ s2[Len(s) + 1].n = l
    BY <2>3, <2>4
  <2>6. Tallied(t, s2)
    <3> HIDE DEF s2
    <3> SUFFICES ASSUME NEW m \in Locks
                 PROVE  /\ lock'[m][t] = Cardinality(Held(s2, m))
                        /\ \A o \in Threads : o # t => lock'[m][o] = lock[m][o]
                        /\ (lock[m][t] = 0 => lock'[m][t] = 0) \/ \A o \in Threads : o # t => lock[m][o] = 0
      BY DEF Tallied
    <3>1. Held(s2, m) = IF m = l THEN Held(s, m) \cup {Len(s) + 1} ELSE Held(s, m)
      BY <1>1, <2>4, <2>5, LocksGrows
    <3>2. lock[m][t] = Cardinality(Held(s, m)) /\ IsFiniteSet(Held(s, m))
      BY CountsAre
    <3>3. CASE m = l
      <4>1. Len(s) + 1 \notin Held(s, m)
        BY <1>1 DEF Held
      <4>2. Cardinality(Held(s, m) \cup {Len(s) + 1}) = Cardinality(Held(s, m)) + 1
        BY <3>2, <4>1, FS_AddElement
      <4> QED BY <1>2, <2>2, <3>1, <3>2, <3>3, <4>2
    <3>4. CASE m # l
      BY <2>2, <3>1, <3>2, <3>4
    <3> QED BY <3>3, <3>4
  <2>7. CASE Recorded(t)
    <3>1. j # <<>> /\ u = FALSE /\ jb' = [jb EXCEPT ![t] = j2]
      BY <1>1, <2>1, <2>7 DEF Recorded, JmpBuf_Push
    <3>2. j[Len(j)].locks \cup {Slot(l, Len(s) + 1)} \in SUBSET SlotSet
      <4>1. Len(j) \in 1 .. Len(j) /\ Len(s) + 1 \in Nat
        BY <1>1, <3>1
      <4>2. Slot(l, Len(s) + 1) \in SlotSet
        BY <4>1, SlotIs
      <4> QED BY <1>1, <4>1, <4>2, JmpBufTypes
    <3>3. /\ j2 \in Seq(JmpBufSet) /\ SameJumps(j, j2)
          /\ j2[Len(j)].locks = j[Len(j)].locks \cup {Slot(l, Len(s) + 1)}
          /\ \A k \in 1 .. Len(j) - 1 : j2[k].locks = j[k].locks
      <4> DEFINE L == j[Len(j)].locks \cup {Slot(l, Len(s) + 1)}
      <4>1. L \in SUBSET SlotSet
        BY <3>2
      <4>2. j \in Seq(JmpBufSet) /\ j # <<>>
        BY <1>1, <3>1
      <4> DEFINE b == [j EXCEPT ![Len(j)].locks = L]
      <4> HIDE DEF L, j
      <4>3. /\ b \in Seq(JmpBufSet) /\ SameJumps(j, b) /\ b[Len(j)].locks = L
            /\ \A k \in 1 .. Len(j) - 1 : b[k].locks = j[k].locks
        BY <4>1, <4>2, Rewritten
      <4>4. b = j2
        BY DEF L
      <4> HIDE DEF b, j2
      <4> QED BY <4>3, <4>4 DEF L
    <3> HIDE DEF j2
    <3>4. Sane(s2, j2, pool[t], u)
      BY <1>1, <3>1, <3>3, AtThread, SaneEnter
    <3>5. Moved(t, s2, j2, pool[t], u)
      BY <2>1, <3>1, Stays DEF Moved
    <3> HIDE DEF s2
    <3> QED BY <1>1, <2>1, <2>2, <2>6, <3>4, <3>5, StepInv
  <2>8. CASE ~Recorded(t)
    <3>1. j = <<>> \/ u = TRUE
      BY <1>1, <2>8 DEF Recorded
    <3>2. Sane(s2, j, pool[t], u)
      BY <1>1, <3>1, AtThread, SaneEnter
    <3>3. Moved(t, s2, j, pool[t], u)
      BY <2>1, <2>8, Stays DEF Moved
    <3> HIDE DEF s2
    <3> QED BY <1>1, <2>1, <2>2, <2>6, <3>2, <3>3, StepInv
  <2> QED BY <2>7, <2>8
<1> QED BY <1>3, <1>4

LEMMA LeaveLockInv == ASSUME IInv, NEW t \in Threads, LeaveLock(t) PROVE IInv'
<1> DEFINE s  == stack[t]
           j  == jb[t]
           l  == s[Len(s)].n
           s2 == Front(s)
           j2 == [j EXCEPT ![Len(j)].locks = j[Len(j)].locks \ {Slot(l, Len(s))}]
           u  == unwinding[t]
<1>1. /\ Running(t) /\ s # <<>> /\ s[Len(s)].kind = "lock" /\ halted = "no" /\ s \in Seq(FrameSet)
      /\ j \in Seq(JmpBufSet) /\ u \in BOOLEAN /\ Len(s) \in 1 .. Len(s) /\ ForLocks(s)
  <2>1. Running(t) /\ s # <<>> /\ s[Len(s)].kind = "lock"
    BY DEF LeaveLock, AtTop, Top
  <2>2. s \in Seq(FrameSet) /\ j \in Seq(JmpBufSet) /\ u \in BOOLEAN /\ ForLocks(s)
    BY AtThread
  <2>3. Len(s) \in 1 .. Len(s)
    BY <2>1, <2>2
  <2> QED BY <2>1, <2>2, <2>3, RunsAt
<1>2. l \in Locks
  BY <1>1 DEF ForLocks
<1>3. Recorded(t) => Len(j) > 0 /\ j # <<>> /\ u = FALSE
  BY <1>1 DEF Recorded
<1>4. Recorded(t) => OnTop(t, l) # {} /\ Highest(OnTop(t, l)) = Len(s)
  <2> SUFFICES ASSUME Recorded(t)
               PROVE  OnTop(t, l) # {} /\ Highest(OnTop(t, l)) = Len(s)
    OBVIOUS
  <2>1. Jumps(s, j)
    BY AtThread
  <2>2. OnTop(t, l) = {i \in Held(s, l) : i > j[Len(j)].env}
    BY <1>2, <1>3, OnTopIs
  <2>3. j[Len(j)].env \in 1 .. Len(s) /\ s[j[Len(j)].env].kind \in Tries
    BY <1>1, <1>3, <2>1, JumpsTop
  <2>4. j[Len(j)].env < Len(s)
    <3>1. j[Len(j)].env # Len(s)
      BY <1>1, <2>3 DEF Tries
    <3> QED BY <1>1, <2>3, <3>1
  <2>5. Len(s) \in OnTop(t, l) /\ OnTop(t, l) \subseteq 1 .. Len(s)
    BY <1>1, <2>2, <2>4 DEF Held
  <2>6. Len(s) \in Nat
    BY <1>1
  <2> HIDE DEF s, l
  <2>7. Highest(OnTop(t, l)) \in OnTop(t, l) /\ Len(s) <= Highest(OnTop(t, l))
    BY <2>5, <2>6, HighestIs
  <2> QED BY <2>5, <2>6, <2>7
<1>5. /\ stack' = [stack EXCEPT ![t] = s2] /\ lock' = [lock EXCEPT ![l][t] = lock[l][t] - 1]
      /\ Recorded(t) => JmpBuf_Pop(t, l)
      /\ ~Recorded(t) => UNCHANGED jb
      /\ UNCHANGED <<pool, unwinding, halted>>
  BY <1>4 DEF LeaveLock, Top
<1>6. /\ lock[l][t] = Cardinality(Held(s, l)) /\ lock[l][t] \in Nat /\ IsFiniteSet(Held(s, l))
      /\ Cardinality(Held(s, l) \ {Len(s)}) = lock[l][t] - 1 /\ lock[l][t] - 1 \in Nat
  <2>1. lock[l][t] = Cardinality(Held(s, l)) /\ lock[l][t] \in Nat /\ IsFiniteSet(Held(s, l))
    BY <1>2, CountsAre
  <2>2. Len(s) \in Held(s, l)
    BY <1>1 DEF Held
  <2> HIDE DEF s, l
  <2>3. Cardinality(Held(s, l) \ {Len(s)}) = Cardinality(Held(s, l)) - 1 /\ IsFiniteSet(Held(s, l) \ {Len(s)})
    BY <2>1, <2>2, FS_RemoveElement
  <2>4. Cardinality(Held(s, l) \ {Len(s)}) \in Nat
    BY <2>3, FS_CardinalityType
  <2> QED BY <2>1, <2>3, <2>4
<1>7. /\ lock' \in [Locks -> [Threads -> Nat]] /\ lock'[l][t] = lock[l][t] - 1
      /\ \A m \in Locks, o \in Threads : m # l \/ o # t => lock'[m][o] = lock[m][o]
  BY <1>2, <1>5, <1>6, LockTypes
<1>8. Tallied(t, s2)
  <2> SUFFICES ASSUME NEW m \in Locks
               PROVE  /\ lock'[m][t] = Cardinality(Held(s2, m))
                      /\ \A o \in Threads : o # t => lock'[m][o] = lock[m][o]
                      /\ (lock[m][t] = 0 => lock'[m][t] = 0) \/ \A o \in Threads : o # t => lock[m][o] = 0
    BY DEF Tallied
  <2>1. Cuts(s, s2, Len(s) - 1)
    BY <1>1, CutsFront
  <2>2. Held(s2, m) = {i \in 1 .. Len(s) - 1 : s[i].kind = "lock" /\ s[i].n = m}
    BY <1>1, <2>1, LocksCuts
  <2>3. \A i : i \in 1 .. Len(s) - 1 <=> i \in 1 .. Len(s) /\ i # Len(s)
    BY <1>1
  <2>4. Held(s2, m) = IF m = l THEN Held(s, m) \ {Len(s)} ELSE Held(s, m)
    <3> HIDE DEF s2
    <3> QED BY <2>2, <2>3 DEF Held
  <2>5. lock[m][t] = Cardinality(Held(s, m)) /\ \A o \in Threads : o # t => lock[m][t] = 0 \/ lock[m][o] = 0
    BY CountsAre
  <2> HIDE DEF s2, s, l
  <2>6. CASE m = l
    <3>1. lock[m][t] # 0
      BY <1>6, <2>6
    <3> QED BY <1>6, <1>7, <2>4, <2>5, <2>6, <3>1
  <2>7. CASE m # l
    BY <1>7, <2>4, <2>5, <2>7
  <2> QED BY <2>6, <2>7
<1>9. CASE Recorded(t)
  <2>1. jb' = [jb EXCEPT ![t] = j2]
    BY <1>4, <1>5, <1>9 DEF JmpBuf_Pop
  <2>2. j[Len(j)].locks \ {Slot(l, Len(s))} \in SUBSET SlotSet
    <3>1. Len(j) \in 1 .. Len(j)
      BY <1>1, <1>3, <1>9
    <3> QED BY <1>1, <3>1, JmpBufTypes
  <2>3. /\ j2 \in Seq(JmpBufSet) /\ SameJumps(j, j2)
        /\ j2[Len(j)].locks = j[Len(j)].locks \ {Slot(l, Len(s))}
        /\ \A k \in 1 .. Len(j) - 1 : j2[k].locks = j[k].locks
    BY <1>1, <1>3, <1>9, <2>2, Rewritten
  <2> HIDE DEF j2
  <2>4. Sane(s2, j2, pool[t], u)
    BY <1>1, <1>3, <1>9, <2>3, AtThread, SaneLeave
  <2>5. Moved(t, s2, j2, pool[t], u)
    BY <1>5, <2>1, Stays DEF Moved
  <2> HIDE DEF s2
  <2> QED BY <1>1, <1>5, <1>7, <1>8, <2>4, <2>5, StepInv
<1>10. CASE ~Recorded(t)
  <2>1. j = <<>> \/ u = TRUE
    BY <1>1, <1>10 DEF Recorded
  <2>2. Sane(s2, j, pool[t], u)
    BY <1>1, <2>1, AtThread, SaneLeave
  <2>3. Moved(t, s2, j, pool[t], u)
    BY <1>5, <1>10, Stays DEF Moved
  <2> HIDE DEF s2
  <2> QED BY <1>1, <1>5, <1>7, <1>8, <2>2, <2>3, StepInv
<1> QED BY <1>9, <1>10

LEMMA RaiseInv == ASSUME IInv, NEW t \in Threads, Raise(t) PROVE IInv'
<1> DEFINE s  == stack[t]
           j  == jb[t]
           e  == j[Len(j)].env
           s1 == SubSeq(s, 1, e)
           f  == Frame("raise", Top(j).top, Nil)
           s2 == Append(s1, f)
           u  == unwinding[t]
<1>1. /\ Running(t) /\ halted = "no" /\ s \in Seq(FrameSet) /\ j \in Seq(JmpBufSet) /\ u \in BOOLEAN
      /\ (s = <<>> \/ s[Len(s)].kind \notin Truncs) /\ Unwound(s, u) /\ Jumps(s, j)
      /\ Records(s, j)
  <2>1. Running(t)
    BY DEF Raise
  <2> QED BY <2>1, AtThread, RunsAt
<1>2. CASE j = <<>> \/ u = TRUE
  <2>1. Fatal("raise")
    BY <1>2 DEF Raise
  <2>2. j = <<>> \/ Frames(t, {"clean"}) # {}
    <3>1. ASSUME u = TRUE
          PROVE  Frames(t, {"clean"}) # {}
      <4>1. Unwound(s, TRUE)
        BY <1>1, <3>1
      <4>2. PICK c \in 1 .. Len(s) : s[c].kind = "clean"
        BY <1>1, <4>1, Cleaning
      <4> QED BY <1>1, <4>2 DEF Frames
    <3> QED BY <1>2, <3>1
  <2> QED BY <2>1, <2>2, StepFatal
<1>3. CASE j # <<>> /\ u = FALSE
  <2>1. /\ lock' = Unlocked(t) /\ stack' = [stack EXCEPT ![t] = s2]
        /\ unwinding' = [unwinding EXCEPT ![t] = TRUE]
        /\ UNCHANGED <<jb, pool, halted>>
    BY <1>3 DEF Raise, Top
  <2>2. Sane(s, j, pool[t], FALSE)
    BY <1>3, AtThread
  <2>3. Sane(s2, j, pool[t], TRUE)
    BY <1>3, <2>2, SaneRaises DEF Top
  <2>4. Moved(t, s2, j, pool[t], TRUE)
    BY <2>1, Stays DEF Moved
  <2>5. Unwound(s, FALSE) /\ Len(j) > 0
    <3>1. Unwound(s, FALSE)
      BY <1>1, <1>3, Zenon
    <3>2. Len(j) > 0
      BY <1>1, <1>3
    <3> QED BY <3>1, <3>2
  <2>6. e \in 1 .. Len(s) /\ j[Len(j)].top \in Nat
    <3>1. Len(j) \in 1 .. Len(j)
      BY <1>1, <2>5
    <3> QED BY <1>1, <2>5, <3>1, JumpsTop, JmpBufTypes
  <2>7. f \in FrameSet /\ f.kind # "lock"
    BY <2>6 DEF Frame, FrameSet, Kinds, Top
  <2>8. Cuts(s, s1, e)
    <3>1. e \in 0 .. Len(s)
      BY <2>6
    <3> HIDE DEF e
    <3> QED BY <1>1, <3>1, CutsSubSeq
  <2>9. \A m \in Locks : OnTop(t, m) = {i \in Held(s, m) : i > e}
    BY <1>3, OnTopIs
  <2>10. ASSUME NEW m \in Locks
         PROVE  /\ lock[m][t] - Cardinality(OnTop(t, m)) = Cardinality(Held(s2, m))
                /\ Cardinality(Held(s2, m)) \in Nat
                /\ lock[m][t] = 0 => Cardinality(Held(s2, m)) = 0
    <3>1. s1 \in Seq(FrameSet)
      BY <2>8 DEF Cuts
    <3>2. Held(s1, m) = {i \in 1 .. e : s[i].kind = "lock" /\ s[i].n = m}
      BY <1>1, <2>8, LocksCuts
    <3> HIDE DEF s1, e, f
    <3>3. Held(s2, m) = Held(s1, m)
      BY <2>7, <3>1, LocksAppend
    <3>4. \A i : i \in 1 .. e <=> i \in 1 .. Len(s) /\ ~(i > e)
      BY <1>1, <2>6 DEF e
    <3>5. Held(s2, m) = Held(s, m) \ OnTop(t, m)
      <4> HIDE DEF s2
      <4> QED BY <2>9, <3>2, <3>3, <3>4 DEF Held
    <3>6. Held(s, m) \cap OnTop(t, m) = OnTop(t, m)
      BY <2>9
    <3>7. lock[m][t] = Cardinality(Held(s, m)) /\ IsFiniteSet(Held(s, m)) /\ lock[m][t] \in Nat
      BY CountsAre
    <3> HIDE DEF s2, s
    <3>8. /\ Cardinality(Held(s2, m)) = Cardinality(Held(s, m)) - Cardinality(OnTop(t, m))
          /\ IsFiniteSet(Held(s2, m))
      <4> DEFINE H == Held(s, m)
                 O == OnTop(t, m)
      <4>1. IsFiniteSet(H) /\ H \cap O = O /\ Held(s2, m) = H \ O
        BY <3>5, <3>6, <3>7
      <4> HIDE DEF H, O
      <4>2. IsFiniteSet(H \ O) /\ Cardinality(H \ O) = Cardinality(H) - Cardinality(H \cap O)
        BY <4>1, FS_Difference
      <4> QED BY <4>1, <4>2 DEF H, O
    <3>9. Cardinality(Held(s2, m)) \in Nat /\ Cardinality(OnTop(t, m)) \in Nat
      <4>1. OnTop(t, m) \subseteq Held(s, m)
        BY <3>6
      <4>2. IsFiniteSet(OnTop(t, m))
        BY <3>7, <4>1, FS_Subset
      <4> QED BY <3>8, <4>2, FS_CardinalityType
    <3> QED BY <3>7, <3>8, <3>9
  <2> HIDE DEF s2
  <2>11. /\ lock' \in [Locks -> [Threads -> Nat]]
         /\ \A m \in Locks : /\ lock'[m][t] = Cardinality(Held(s2, m))
                             /\ \A o \in Threads : o # t => lock'[m][o] = lock[m][o]
    <3>1. lock \in [Locks -> [Threads -> Nat]]
      BY DEF IInv, Types
    <3>2. lock' = [m \in Locks |-> [lock[m] EXCEPT ![t] = lock[m][t] - Cardinality(OnTop(t, m))]]
      BY <2>1 DEF Unlocked
    <3>3. \A m \in Locks : lock'[m] = [lock[m] EXCEPT ![t] = Cardinality(Held(s2, m))]
      BY <2>10, <3>2
    <3>4. ASSUME NEW m \in Locks
          PROVE  lock'[m] \in [Threads -> Nat]
      <4> DEFINE c == Cardinality(Held(s2, m))
      <4>1. c \in Nat /\ lock'[m] = [lock[m] EXCEPT ![t] = c] /\ lock[m] \in [Threads -> Nat]
        BY <2>10, <3>1, <3>3
      <4> HIDE DEF c
      <4> QED BY <4>1
    <3>5. lock' = [m \in Locks |-> lock'[m]]
      BY <3>2
    <3> QED BY <3>1, <3>3, <3>4, <3>5
  <2>12. Tallied(t, s2)
    BY <2>10, <2>11 DEF Tallied
  <2> QED BY <1>1, <2>1, <2>3, <2>4, <2>11, <2>12, StepInv
<1> QED BY <1>1, <1>2, <1>3

(* The loop of a truncation.                                               *)
LEMMA TruncatingAt ==
  ASSUME IInv, NEW t \in Threads, Truncating(t)
  PROVE  /\ halted = "no" /\ stack[t] # <<>> /\ stack[t][Len(stack[t])].kind \in Truncs
         /\ unwinding[t] = TRUE /\ Len(stack[t]) \in 1 .. Len(stack[t])
         /\ stack[t][Len(stack[t])].n \in Nat /\ stack[t][Len(stack[t])].n <= Len(pool[t])
<1> DEFINE s == stack[t]
<1>1. halted = "no" /\ s # <<>> /\ s[Len(s)].kind \in Truncs
  BY DEF Truncating, Going, AtTop, Top, Truncs
<1>2. /\ s \in Seq(FrameSet) /\ Unwound(s, unwinding[t]) /\ Nested(s, pool[t])
      /\ unwinding[t] \in BOOLEAN
  BY AtThread
<1>3. unwinding[t] = TRUE
  BY <1>1, <1>2, Truncs1
<1>4. Len(s) \in 1 .. Len(s)
  BY <1>1, <1>2
<1>5. s[Len(s)].n \in Nat
  BY <1>2, <1>4, FrameTypes
<1>6. s[Len(s)].n <= Len(pool[t])
  <2>1. s[Len(s)].kind \in Scopes
    BY <1>1 DEF Truncs, Scopes
  <2> QED BY <1>2, <1>4, <2>1 DEF Nested, Within
<1> QED BY <1>1, <1>3, <1>4, <1>5, <1>6

LEMMA CleanInv == ASSUME IInv, NEW t \in Threads, Clean(t) PROVE IInv'
<1> DEFINE f == Frame("clean", Len(pool[t]), Nil)
<1>1. Truncating(t) /\ stack' = [stack EXCEPT ![t] = Append(stack[t], f)]
  BY DEF Clean
<1>2. UNCHANGED <<jb, pool, unwinding, lock, halted>>
  BY DEF Clean
<1>3. f \in FrameSet /\ f.kind = "clean" /\ f.n = Len(pool[t])
  BY AtThread DEF Frame, FrameSet, Kinds
<1>4. Moved(t, Append(stack[t], f), jb[t], pool[t], unwinding[t])
  BY <1>1, <1>2, Stays DEF Moved
<1>5. /\ halted = "no" /\ stack[t] # <<>> /\ stack[t][Len(stack[t])].kind \in Truncs
      /\ stack[t][Len(stack[t])].n < Len(pool[t])
  <2>1. Len(pool[t]) > stack[t][Len(stack[t])].n
    BY DEF Clean, More, Top
  <2> QED BY <1>1, <2>1, AtThread, TruncatingAt
<1> HIDE DEF f
<1>6. Sane(Append(stack[t], f), jb[t], pool[t], unwinding[t])
  BY <1>3, <1>5, AtThread, SaneGrows
<1>7. \A l \in Locks : Held(Append(stack[t], f), l) = Held(stack[t], l)
  BY <1>3, AtThread, LocksAppend
<1> QED BY <1>2, <1>4, <1>5, <1>6, <1>7, StepQuiet

LEMMA CleanDoneInv == ASSUME IInv, NEW t \in Threads, CleanDone(t) PROVE IInv'
<1> DEFINE s == stack[t]
           p == pool[t]
           q == Front(p)
<1>1. /\ Running(t) /\ stack' = [stack EXCEPT ![t] = Front(s)] /\ pool' = [pool EXCEPT ![t] = q]
      /\ s # <<>> /\ s[Len(s)].kind = "clean"
  BY DEF CleanDone, Lower, AtTop, Top
<1>2. UNCHANGED <<jb, unwinding, lock, halted>>
  BY DEF CleanDone
<1>3. s \in Seq(FrameSet) /\ p \in Seq(Ptrs \cup {Nil}) /\ Nested(s, p) /\ Len(s) \in Nat /\ Len(p) \in Nat
  BY AtThread
<1>4. Len(p) > 0
  <2>1. Len(s) \in 1 .. Len(s)
    BY <1>1, <1>3
  <2>2. Len(s) > 1 /\ s[Len(s) - 1].n < Len(p)
    BY <1>1, <1>3, <2>1 DEF Nested, Within
  <2>3. Len(s) - 1 \in 1 .. Len(s)
    BY <2>1, <2>2
  <2>4. s[Len(s) - 1].n \in Nat
    BY <1>3, <2>3, FrameTypes
  <2> QED BY <1>3, <2>2, <2>4
<1>5. q \in Seq(Ptrs \cup {Nil}) /\ Len(q) = Len(p) - 1
  <2>1. Len(p) - 1 \in 0 .. Len(p)
    BY <1>3, <1>4
  <2> QED BY <1>3, <2>1, PrefixOf DEF Front
<1> HIDE DEF q
<1>6. Moved(t, Front(s), jb[t], q, unwinding[t])
  BY <1>1, <1>2, Stays DEF Moved
<1>7. Sane(Front(s), jb[t], q, unwinding[t])
  BY <1>1, <1>5, AtThread, SanePops
<1>8. \A l \in Locks : Held(Front(s), l) = Held(s, l)
  BY <1>1, <1>3, LocksPops
<1> QED BY <1>1, <1>2, <1>6, <1>7, <1>8, RunsAt, StepQuiet

LEMMA SpareInv == ASSUME IInv, NEW t \in Threads, Spare(t) PROVE IInv'
<1> DEFINE s  == stack[t]
           p  == pool[t]
           q  == Front(p)
           f  == [s[Len(s)] EXCEPT !.kept = s[Len(s)].kept \/ Top(p) # Nil]
           s2 == [s EXCEPT ![Len(s)] = f]
<1>1. /\ Truncating(t) /\ stack' = [stack EXCEPT ![t] = s2] /\ pool' = [pool EXCEPT ![t] = q]
      /\ Len(p) > s[Len(s)].n
  BY DEF Spare, Lower, More, Top
<1>2. UNCHANGED <<jb, unwinding, lock, halted>>
  BY DEF Spare
<1>3. /\ halted = "no" /\ s # <<>> /\ s[Len(s)].kind \in Truncs /\ unwinding[t] = TRUE
      /\ Len(s) \in 1 .. Len(s) /\ s[Len(s)].n \in Nat
  BY <1>1, TruncatingAt
<1>4. s \in Seq(FrameSet) /\ p \in Seq(Ptrs \cup {Nil}) /\ Len(p) \in Nat
  BY AtThread
<1>5. q \in Seq(Ptrs \cup {Nil}) /\ Len(q) = Len(p) - 1
  <2>1. Len(p) - 1 \in 0 .. Len(p)
    BY <1>1, <1>3, <1>4
  <2> QED BY <1>4, <2>1, PrefixOf DEF Front
<1> HIDE DEF q
<1>6. f \in FrameSet /\ f.kind = s[Len(s)].kind /\ f.n = s[Len(s)].n
  <2>1. s[Len(s)] \in FrameSet
    BY <1>3, <1>4
  <2>2. (s[Len(s)].kept \/ Top(p) # Nil) \in BOOLEAN
    OBVIOUS
  <2> QED BY <2>1, <2>2 DEF FrameSet
<1> HIDE DEF f
<1>7. Moved(t, s2, jb[t], q, unwinding[t])
  BY <1>1, <1>2, Stays DEF Moved
<1>8. Sane(s2, jb[t], q, TRUE)
  <2>1. Sane(s, jb[t], p, unwinding[t])
    BY AtThread
  <2> QED BY <1>1, <1>3, <1>5, <1>6, <2>1, SaneRetops
<1>9. Sane(s2, jb[t], q, unwinding[t])
  BY <1>3, <1>8
<1>10. \A l \in Locks : Held(s2, l) = Held(s, l)
  <2>1. Retops(s, s2) /\ s2[Len(s)] = f
    BY <1>3, <1>4, <1>6, RetopsSet
  <2>2. s[Len(s)].kind # "lock" /\ s2[Len(s)].kind # "lock"
    BY <1>3, <1>6, <2>1 DEF Truncs
  <2> QED BY <1>4, <2>1, <2>2, LocksRetops
<1> HIDE DEF s2
<1> QED BY <1>2, <1>3, <1>7, <1>9, <1>10, StepQuiet

LEMMA TruncateDoneInv == ASSUME IInv, NEW t \in Threads, TruncateDone(t) PROVE IInv'
<1> DEFINE s  == stack[t]
           p  == pool[t]
           j  == jb[t]
           q  == HandOver(t)
           k  == s[Len(s)].kind
<1>1. Truncating(t) /\ pool' = [pool EXCEPT ![t] = q] /\ unwinding' = [unwinding EXCEPT ![t] = FALSE]
  BY DEF TruncateDone
<1>2. UNCHANGED <<lock, halted>>
  BY DEF TruncateDone
<1>3. /\ halted = "no" /\ s # <<>> /\ k \in Truncs /\ unwinding[t] = TRUE
      /\ Len(s) \in 1 .. Len(s)
  BY <1>1, TruncatingAt
<1>4. /\ s \in Seq(FrameSet) /\ p \in Seq(Ptrs \cup {Nil}) /\ Len(p) \in Nat /\ j \in Seq(JmpBufSet)
      /\ Sane(s, j, p, unwinding[t]) /\ Jumps(s, j)
  BY AtThread
<1>5. q \in Seq(Ptrs \cup {Nil}) /\ Len(q) >= Len(p)
  <2>1. s[Len(s)].keep \in Ptrs \cup {Nil}
    BY <1>3, <1>4, FrameTypes
  <2>2. CASE s[Len(s)].kept
    <3>1. q = Append(p, s[Len(s)].keep)
      BY <2>2 DEF HandOver, Top
    <3> QED BY <1>4, <2>1, <3>1
  <2>3. CASE ~s[Len(s)].kept
    BY <1>4, <2>3 DEF HandOver, Top
  <2> QED BY <2>2, <2>3
<1> HIDE DEF q
<1>6. CASE k = "endauto"
  <2>1. stack' = [stack EXCEPT ![t] = Front(s)] /\ UNCHANGED jb
    BY <1>3, <1>6 DEF TruncateDone, AtTop, Top, DropJmpBuf
  <2>2. Moved(t, Front(s), j, q, FALSE)
    BY <1>1, <2>1, Stays DEF Moved
  <2>3. Sane(Front(s), j, q, FALSE)
    BY <1>3, <1>4, <1>5, <1>6, SanePops
  <2>4. \A l \in Locks : Held(Front(s), l) = Held(s, l)
    BY <1>3, <1>4, <1>6, LocksPops
  <2> QED BY <1>2, <1>3, <2>2, <2>3, <2>4, StepQuiet
<1>7. CASE k \in {"endtry", "raise"}
  <2> DEFINE e  == Top(j).env
             s2 == SubSeq(s, 1, e - 1)
  <2>1. /\ Len(j) > 0 /\ e \in 1 .. Len(s) /\ (k = "endtry" => e = Len(s))
        /\ Sane(s2, Front(j), q, FALSE)
    BY <1>3, <1>4, <1>5, <1>7, SaneCut
  <2>2. stack' = [stack EXCEPT ![t] = s2]
    <3>1. CASE k = "raise"
      BY <1>3, <3>1 DEF TruncateDone, AtTop, Top, Landing
    <3>2. CASE k = "endtry"
      BY <1>3, <2>1, <3>2 DEF TruncateDone, AtTop, Top, Front
    <3> QED BY <1>7, <3>1, <3>2
  <2>3. jb' = [jb EXCEPT ![t] = Front(j)]
    BY <1>3, <1>7 DEF TruncateDone, AtTop, Top, DropJmpBuf
  <2>4. Moved(t, s2, Front(j), q, FALSE)
    BY <1>1, <2>2, <2>3 DEF Moved
  <2>5. Cuts(s, s2, e - 1)
    <3>1. e - 1 \in 0 .. Len(s)
      BY <2>1
    <3> HIDE DEF e
    <3> QED BY <1>4, <3>1, CutsSubSeq
  <2>6. \A i \in 1 .. Len(s) : s[i].kind = "lock" => i \in 1 .. e - 1
    <3>1. k = "raise" => Len(s) = e + 1
      BY <1>3, <1>4 DEF Jumps, Jumping, Top
    <3>2. Len(s) = e \/ Len(s) = e + 1
      BY <1>7, <2>1, <3>1
    <3>3. s[e].kind \in Tries
      BY <1>4, <2>1, JumpsTop DEF Top
    <3>4. s[e].kind # "lock" /\ s[Len(s)].kind # "lock"
      BY <1>7, <3>3 DEF Tries
    <3> HIDE DEF e
    <3> QED BY <2>1, <3>2, <3>4
  <2>7. \A l \in Locks : Held(s2, l) = Held(s, l)
    <3>1. \A l \in Locks : Held(s2, l) = {i \in 1 .. e - 1 : s[i].kind = "lock" /\ s[i].n = l}
      <4> HIDE DEF e, s2
      <4> QED BY <1>4, <2>5, LocksCuts
    <3>2. \A i \in 1 .. e - 1 : i \in 1 .. Len(s)
      BY <2>1
    <3> HIDE DEF s2, e
    <3> QED BY <2>6, <3>1, <3>2 DEF Held
  <2> HIDE DEF s2
  <2> QED BY <1>2, <1>3, <2>1, <2>4, <2>7, StepQuiet
<1> QED BY <1>3, <1>6, <1>7 DEF Truncs

-----------------------------------------------------------------------------
(* The theorems                                                            *)

LEMMA InitInv == Init => IInv
<1> SUFFICES ASSUME Init PROVE IInv
  OBVIOUS
<1>1. Types
  BY DEF Init, Types
<1>2. ASSUME NEW t \in Threads
      PROVE  SaneAt(t)
  <2>1. stack[t] = <<>> /\ jb[t] = <<>> /\ pool[t] = <<>> /\ unwinding[t] = FALSE
    BY DEF Init
  <2>2. Typed(<<>>, <<>>, <<>>, FALSE)
    BY DEF Typed
  <2>3. Unwound(<<>>, FALSE)
    BY DEF Unwound
  <2>4. Jumps(<<>>, <<>>)
    BY DEF Jumps, Lands, InOrder, Covered, Jumping
  <2>5. Nested(<<>>, <<>>)
    BY DEF Nested, Stacked, Within
  <2>6. ForLocks(<<>>)
    BY DEF ForLocks
  <2>7. Records(<<>>, <<>>)
    BY DEF Records
  <2> QED BY <2>1, <2>2, <2>3, <2>4, <2>5, <2>6, <2>7 DEF SaneAt, Sane
<1>3. Locked
  <2>1. \A t \in Threads, l \in Locks : Held(stack[t], l) = {}
    BY DEF Init, Held
  <2>2. \A l \in Locks, t \in Threads : lock[l][t] = 0
    BY DEF Init
  <2> QED BY <2>1, <2>2, FS_EmptySet DEF Locked
<1>4. Halting
  BY DEF Init, Halting, FatalJustified
<1> QED BY <1>1, <1>2, <1>3, <1>4 DEF IInv

LEMMA NextInv == IInv /\ [Next]_vars => IInv'
<1> SUFFICES ASSUME IInv, [Next]_vars PROVE IInv'
  OBVIOUS
<1>1. CASE UNCHANGED vars
  <2>1. UNCHANGED <<stack, jb, pool, unwinding, lock, halted>>
    BY <1>1 DEF vars
  <2>2. Types' /\ (\A t \in Threads : SaneAt(t)')
    BY <2>1 DEF IInv, Types, SaneAt
  <2>3. Locked'
    BY <2>1 DEF IInv, Locked
  <2>4. Halting'
    BY <2>1 DEF IInv, Halting, FatalJustified, Frames
  <2> QED BY <2>2, <2>3, <2>4 DEF IInv
<1>2. CASE Next
  <2> PICK t \in Threads :
        \/ \E l \in Locks : EnterLock(t, l)
        \/ LeaveLock(t)
        \/ \E p \in Ptrs : \/ PoolNew(t, p) \/ PoolRef(t, p) \/ Retain(t, p)
                           \/ Drop(t, p) \/ Release(t, p)
        \/ ReleaseDone(t)
        \/ \E old, new \in Ptrs : Refresh(t, old, new)
        \/ EnterAuto(t)
        \/ \E keep \in Ptrs \cup {Nil} : EnterTry(t, keep) \/ LeaveAuto(t, keep)
        \/ LeaveTry(t)
        \/ Raise(t)
        \/ Clean(t) \/ CleanDone(t) \/ Spare(t) \/ TruncateDone(t)
    BY <1>2 DEF Next
  <2>1. CASE (\E l \in Locks : EnterLock(t, l)) \/ LeaveLock(t)
    BY <2>1, EnterLockInv, LeaveLockInv
  <2>2. CASE \E p \in Ptrs : PoolNew(t, p) \/ PoolRef(t, p) \/ Retain(t, p) \/ Drop(t, p) \/ Release(t, p)
    BY <2>2, PoolNewInv, PoolRefInv, RetainInv, DropInv, ReleaseInv
  <2>3. CASE ReleaseDone(t) \/ \E old, new \in Ptrs : Refresh(t, old, new)
    BY <2>3, ReleaseDoneInv, RefreshInv
  <2>4. CASE \E keep \in Ptrs \cup {Nil} : EnterTry(t, keep) \/ LeaveAuto(t, keep)
    BY <2>4, EnterTryInv, LeaveAutoInv
  <2>5. CASE EnterAuto(t) \/ LeaveTry(t) \/ Raise(t)
    BY <2>5, EnterAutoInv, LeaveTryInv, RaiseInv
  <2>6. CASE Clean(t) \/ CleanDone(t) \/ Spare(t) \/ TruncateDone(t)
    BY <2>6, CleanInv, CleanDoneInv, SpareInv, TruncateDoneInv
  <2> QED BY <2>1, <2>2, <2>3, <2>4, <2>5, <2>6
<1> QED BY <1>1, <1>2

(* What is kept by every call: one stack, its jump buffers and its pool    *)
(* agree in every thread, each lock is taken as often as sections for it   *)
(* are open in one thread, and a halt has its reason.                      *)
THEOREM CsupInvariant == Spec => []IInv
  BY InitInv, NextInv, PTL DEF Spec

LEMMA HandlersFollow == IInv => HandlersLive
<1> SUFFICES ASSUME IInv, NEW t \in Threads
             PROVE  /\ {jb[t][k].env : k \in DOMAIN jb[t]} = Frames(t, {"try", "endtry"})
                                       \cup {i - 1 : i \in Frames(t, {"raise"})}
                    /\ \A k \in DOMAIN jb[t] : /\ k > 1 => jb[t][k - 1].env < jb[t][k].env
                                               /\ stack[t][jb[t][k].env].n = jb[t][k].top
  BY DEF HandlersLive, IInv, Halting
<1> DEFINE s == stack[t]
           j == jb[t]
<1>1. s \in Seq(FrameSet) /\ j \in Seq(JmpBufSet) /\ Jumps(s, j) /\ Len(s) \in Nat /\ Len(j) \in Nat
  BY AtThread
<1>2. DOMAIN j = 1 .. Len(j) /\ DOMAIN s = 1 .. Len(s)
  BY <1>1
<1>3. \A k \in 1 .. Len(j) : k > 1 => j[k - 1].env < j[k].env
  <2>1. \A k \in 1 .. Len(j) : k > 1 => k - 1 \in 1 .. Len(j) /\ k - 1 < k
    BY <1>1
  <2> QED BY <1>1, <2>1 DEF Jumps, InOrder
<1>4. \A k \in 1 .. Len(j) : j[k].env \in Frames(t, {"try", "endtry"}) /\ s[j[k].env].n = j[k].top
  BY <1>1, <1>2 DEF Jumps, Lands, Frames, Tries
<1>5. \A i \in Frames(t, {"try", "endtry"}) : \E k \in 1 .. Len(j) : i = j[k].env
  BY <1>1, <1>2 DEF Jumps, Covered, Frames, Tries
<1>6. \A i \in Frames(t, {"raise"}) : \E k \in 1 .. Len(j) : i - 1 = j[k].env
  <2> TAKE i \in Frames(t, {"raise"})
  <2>1. i \in 1 .. Len(s) /\ s[i].kind = "raise"
    BY <1>2 DEF Frames
  <2>2. Len(j) > 0 /\ i = j[Len(j)].env + 1
    BY <1>1, <2>1 DEF Jumps, Jumping
  <2>3. Len(j) \in 1 .. Len(j) /\ j[Len(j)].env \in Nat
    BY <1>1, <2>2, JmpBufTypes
  <2> QED BY <2>2, <2>3
<1>7. {j[k].env : k \in DOMAIN j} = Frames(t, {"try", "endtry"}) \cup {i - 1 : i \in Frames(t, {"raise"})}
  BY <1>2, <1>4, <1>5, <1>6
<1> QED BY <1>2, <1>3, <1>4, <1>7

(* A raise jumps to the innermost __Try that is still open, with the pool  *)
(* that it found, however many blocks and sections lie in between: the     *)
(* jump buffers on record are those of the open __Try blocks, in order,    *)
(* and the program aborts for its own fault only.                          *)
THEOREM CsupHandlers == Spec => []HandlersLive
  BY CsupInvariant, HandlersFollow, PTL

LEMMA SectionsFollow == IInv => SectionsExclusive
<1> SUFFICES ASSUME IInv, NEW l \in Locks
             PROVE  /\ \A t \in Threads :
                         lock[l][t] = Cardinality({i \in Frames(t, {"lock"}) : stack[t][i].n = l})
                    /\ \A t, u \in Threads : t # u => lock[l][t] = 0 \/ lock[l][u] = 0
  BY DEF SectionsExclusive
<1>1. ASSUME NEW t \in Threads
      PROVE  {i \in Frames(t, {"lock"}) : stack[t][i].n = l} = Held(stack[t], l)
  <2>1. DOMAIN stack[t] = 1 .. Len(stack[t])
    BY AtThread
  <2> QED BY <2>1 DEF Frames, Held
<1> QED BY <1>1 DEF IInv, Locked

(* __Interlock_Opt excludes, and a raise unlocks what it leaves: a thread  *)
(* has entered a lock as often as it has sections for it open, and two     *)
(* threads are never in one.                                               *)
THEOREM CsupSections == Spec => []SectionsExclusive
  BY CsupInvariant, SectionsFollow, PTL

=============================================================================
