--------------------------- MODULE CsupRefsProofs ---------------------------
(***************************************************************************)
(* The references of Csup are counted exactly, for any threads, objects    *)
(* and nesting.  On top of the invariant of CsupProofs, a pointer that a   *)
(* scope hands over is at most once in the pool of the scope, or in the    *)
(* hand of the truncation: of two entries __Pool_Truncate would drop one.  *)
(***************************************************************************)
EXTENDS CsupProofs

Busies == {"release", "clean"}
BusyAt(s, i) == \E k \in 1 .. Len(s) : s[k].kind \in Busies /\ s[k].n = i

(* The entries of x in a pool that hold a reference; x is in the hand of a *)
(* truncation.                                                             *)
Live(s, p, x) == {i \in 1 .. Len(p) : p[i] = x /\ ~BusyAt(s, i)}
Hand(s, x)    == \E i \in 1 .. Len(s) : s[i].kept /\ s[i].keep = x

(* Scopes hand pointers over; their truncations have met them.             *)
KeepsOf(s) == \A i \in 1 .. Len(s) :
  /\ s[i].kept => s[i].kind \in Truncs /\ s[i].keep \in Ptrs
  /\ s[i].keep \in Ptrs => s[i].kind \in Scopes

(* A frame that hands x over has one entry of it above its breaker.        *)
OnceFor(s, p, n, x) ==
  /\ \A a, b \in Live(s, p, x) : a > n /\ b > n => a = b
  /\ Hand(s, x) => \A a \in Live(s, p, x) : ~(a > n)
OnceOnly(s, p) == \A i \in 1 .. Len(s) : s[i].keep \in Ptrs => OnceFor(s, p, s[i].n, s[i].keep)
Refs(s, p) == KeepsOf(s) /\ OnceOnly(s, p)

Counted(x) ==
  /\ IsFiniteSet(Pooled(x)) /\ IsFiniteSet(InHand(x))
  /\ refs[x] = own[x] + Cardinality(Pooled(x)) + Cardinality(InHand(x))

RefInv ==
  /\ refs \in [Ptrs -> Nat] /\ own \in [Ptrs -> Nat]
  /\ \A t \in Threads : Refs(stack[t], pool[t])
  /\ \A x \in Ptrs : Counted(x)

(* How the entries of one pool and the hand of one thread change.          *)
Gain(L, L2, d) ==
  \/ d = 0 /\ L2 = L
  \/ d = 1 /\ \E i : i \notin L /\ L2 = L \cup {i}
  \/ d = -1 /\ \E i \in L : L2 = L \ {i}
HandGain(s, s2, x, h) ==
  \/ h = 0 /\ (Hand(s2, x) <=> Hand(s, x))
  \/ h = 1 /\ ~Hand(s, x) /\ Hand(s2, x)
  \/ h = -1 /\ Hand(s, x) /\ ~Hand(s2, x)

(* What the step adds to the count of x is what it adds to its references. *)
Balanced(x, s, p, s2, p2) ==
  \E d, h \in {-1, 0, 1} :
    /\ Gain(Live(s, p, x), Live(s2, p2, x), d) /\ HandGain(s, s2, x, h)
    /\ refs'[x] = refs[x] + (own'[x] - own[x]) + d + h

LEMMA WhereLive ==
  ASSUME Types, NEW t \in Threads, NEW x
  PROVE  Where(t, x) = Live(stack[t], pool[t], x)
<1>1. stack[t] \in Seq(FrameSet) /\ pool[t] \in Seq(Ptrs \cup {Nil})
  BY DEF Types
<1>2. DOMAIN stack[t] = 1 .. Len(stack[t]) /\ DOMAIN pool[t] = 1 .. Len(pool[t])
  BY <1>1
<1>3. \A i : i \in Busy(t) <=> BusyAt(stack[t], i)
  BY <1>2 DEF Busy, BusyAt, Busies
<1> QED BY <1>2, <1>3 DEF Where, Live

LEMMA PooledIs ==
  ASSUME Types, NEW x
  PROVE  \A e : e \in Pooled(x)
                  <=> \E t \in Threads : \E i \in Live(stack[t], pool[t], x) : e = <<t, i>>
<1>1. \A t \in Threads : Where(t, x) = Live(stack[t], pool[t], x)
  BY WhereLive
<1> QED BY <1>1 DEF Pooled

LEMMA InHandIs ==
  ASSUME Types, NEW x
  PROVE  InHand(x) = {t \in Threads : Hand(stack[t], x)}
<1>1. \A t \in Threads : DOMAIN stack[t] = 1 .. Len(stack[t])
  <2>1. \A t \in Threads : stack[t] \in Seq(FrameSet)
    BY DEF Types
  <2> QED BY <2>1
<1> QED BY <1>1 DEF InHand, Hand

(* The same of the state that a step leads to.                             *)
LEMMA PooledNext ==
  ASSUME Types', NEW x
  PROVE  /\ \A e : e \in Pooled(x)'
                     <=> \E t \in Threads : \E i \in Live(stack'[t], pool'[t], x) : e = <<t, i>>
         /\ InHand(x)' = {t \in Threads : Hand(stack'[t], x)}
<1>1. \A t \in Threads : stack'[t] \in Seq(FrameSet) /\ pool'[t] \in Seq(Ptrs \cup {Nil})
  BY DEF Types
<1>2. \A t \in Threads : DOMAIN stack'[t] = 1 .. Len(stack'[t]) /\ DOMAIN pool'[t] = 1 .. Len(pool'[t])
  BY <1>1
<1>3. \A t \in Threads : \A i : i \in Busy(t)' <=> BusyAt(stack'[t], i)
  BY <1>2 DEF Busy, BusyAt, Busies
<1>4. \A t \in Threads : Where(t, x)' = Live(stack'[t], pool'[t], x)
  BY <1>2, <1>3 DEF Where, Live
<1>5. InHand(x)' = {t \in Threads : Hand(stack'[t], x)}
  BY <1>2 DEF InHand, Hand
<1> QED BY <1>4, <1>5 DEF Pooled

LEMMA AddOne ==
  ASSUME NEW S, NEW e, IsFiniteSet(S), e \notin S
  PROVE  IsFiniteSet(S \cup {e}) /\ Cardinality(S \cup {e}) = Cardinality(S) + 1
  BY FS_AddElement

LEMMA RemoveOne ==
  ASSUME NEW S, NEW e \in S, IsFiniteSet(S)
  PROVE  IsFiniteSet(S \ {e}) /\ Cardinality(S \ {e}) = Cardinality(S) - 1
  BY FS_RemoveElement

(* The count of x after a step of thread t.                                *)
LEMMA CountStep ==
  ASSUME Types, Types', NEW x \in Ptrs, NEW t \in Threads, NEW s2, NEW p2,
         stack' = [stack EXCEPT ![t] = s2], pool' = [pool EXCEPT ![t] = p2],
         refs[x] \in Nat, own[x] \in Nat, own'[x] \in Nat,
         Counted(x), Balanced(x, stack[t], pool[t], s2, p2)
  PROVE  Counted(x)' /\ refs'[x] \in Nat
<1> DEFINE L(o)  == Live(stack[o], pool[o], x)
           L2(o) == Live(stack'[o], pool'[o], x)
<1>1. /\ stack'[t] = s2 /\ pool'[t] = p2
      /\ \A o \in Threads : o # t => stack'[o] = stack[o] /\ pool'[o] = pool[o]
  BY DEF Types
<1>2. PICK d \in {-1, 0, 1}, h \in {-1, 0, 1} :
        /\ Gain(L(t), L2(t), d) /\ HandGain(stack[t], stack'[t], x, h)
        /\ refs'[x] = refs[x] + (own'[x] - own[x]) + d + h
  BY <1>1 DEF Balanced
<1>3. \A o \in Threads : o # t => L2(o) = L(o) /\ (Hand(stack'[o], x) <=> Hand(stack[o], x))
  BY <1>1
<1>4. \A e : e \in Pooled(x) <=> \E o \in Threads : \E i \in L(o) : e = <<o, i>>
  BY PooledIs
<1>5. \A e : e \in Pooled(x)' <=> \E o \in Threads : \E i \in L2(o) : e = <<o, i>>
  BY PooledNext
<1>6. InHand(x) = {o \in Threads : Hand(stack[o], x)} /\ InHand(x)' = {o \in Threads : Hand(stack'[o], x)}
  BY PooledNext, InHandIs
<1> HIDE DEF L, L2
<1>7. /\ IsFiniteSet(Pooled(x)) /\ IsFiniteSet(InHand(x))
      /\ Cardinality(Pooled(x)) \in Nat /\ Cardinality(InHand(x)) \in Nat
      /\ refs[x] = own[x] + Cardinality(Pooled(x)) + Cardinality(InHand(x))
  BY FS_CardinalityType DEF Counted
<1>8. /\ IsFiniteSet(Pooled(x)') /\ Cardinality(Pooled(x)') = Cardinality(Pooled(x)) + d
  <2>1. CASE d = 0 /\ L2(t) = L(t)
    <3>1. Pooled(x)' = Pooled(x)
      <4>1. \A o \in Threads : L2(o) = L(o)
        BY <1>3, <2>1, Zenon
      <4>2. \A e : e \in Pooled(x)' <=> e \in Pooled(x)
        BY <1>4, <1>5, <4>1, Zenon
      <4> QED BY <4>2
    <3> QED BY <1>7, <2>1, <3>1
  <2>2. CASE d = 1 /\ \E i : i \notin L(t) /\ L2(t) = L(t) \cup {i}
    <3>1. PICK i : i \notin L(t) /\ L2(t) = L(t) \cup {i}
      BY <2>2
    <3>2. <<t, i>> \notin Pooled(x)
      BY <1>4, <3>1
    <3>3. Pooled(x)' = Pooled(x) \cup {<<t, i>>}
      <4>1. \A o \in Threads : \A k : k \in L2(o) <=> k \in L(o) \/ (o = t /\ k = i)
        BY <1>3, <3>1
      <4> QED BY <1>4, <1>5, <4>1, Zenon
    <3> QED BY <1>7, <2>2, <3>2, <3>3, AddOne
  <2>3. CASE d = -1 /\ \E i \in L(t) : L2(t) = L(t) \ {i}
    <3>1. PICK i \in L(t) : L2(t) = L(t) \ {i}
      BY <2>3
    <3>2. <<t, i>> \in Pooled(x)
      BY <1>4, <3>1
    <3>3. Pooled(x)' = Pooled(x) \ {<<t, i>>}
      <4>1. \A o \in Threads : \A k : k \in L2(o) <=> k \in L(o) /\ ~(o = t /\ k = i)
        BY <1>3, <3>1
      <4>2. \A e : e \in Pooled(x)' <=> e \in Pooled(x) /\ e # <<t, i>>
        BY <1>4, <1>5, <4>1
      <4> QED BY <4>2
    <3>4. Cardinality(Pooled(x)') = Cardinality(Pooled(x)) - 1 /\ IsFiniteSet(Pooled(x)')
      BY <1>7, <3>2, <3>3, RemoveOne
    <3> QED BY <1>7, <2>3, <3>4
  <2> QED BY <1>2, <2>1, <2>2, <2>3 DEF Gain
<1>9. /\ IsFiniteSet(InHand(x)') /\ Cardinality(InHand(x)') = Cardinality(InHand(x)) + h
  <2>1. CASE h = 0 /\ (Hand(stack'[t], x) <=> Hand(stack[t], x))
    <3>1. InHand(x)' = InHand(x)
      BY <1>3, <1>6, <2>1
    <3> QED BY <1>7, <2>1, <3>1
  <2>2. CASE h = 1 /\ ~Hand(stack[t], x) /\ Hand(stack'[t], x)
    <3>1. t \notin InHand(x) /\ InHand(x)' = InHand(x) \cup {t}
      BY <1>3, <1>6, <2>2
    <3> QED BY <1>7, <2>2, <3>1, AddOne
  <2>3. CASE h = -1 /\ Hand(stack[t], x) /\ ~Hand(stack'[t], x)
    <3>1. t \in InHand(x) /\ InHand(x)' = InHand(x) \ {t}
      BY <1>3, <1>6, <2>3
    <3>2. Cardinality(InHand(x)') = Cardinality(InHand(x)) - 1 /\ IsFiniteSet(InHand(x)')
      BY <1>7, <3>1, RemoveOne
    <3> QED BY <1>7, <2>3, <3>2
  <2> QED BY <1>2, <2>1, <2>2, <2>3 DEF HandGain
<1>10. Cardinality(Pooled(x)') \in Nat /\ Cardinality(InHand(x)') \in Nat
  BY <1>8, <1>9, FS_CardinalityType
<1>11. refs'[x] = own'[x] + Cardinality(Pooled(x)') + Cardinality(InHand(x)')
  <2> DEFINE a == Cardinality(Pooled(x))
             b == Cardinality(InHand(x))
  <2>1. a \in Nat /\ b \in Nat /\ refs[x] = own[x] + a + b
    BY <1>7
  <2>2. Cardinality(Pooled(x)') = a + d /\ Cardinality(InHand(x)') = b + h
    BY <1>8, <1>9
  <2>3. refs'[x] = refs[x] + (own'[x] - own[x]) + d + h
    BY <1>2
  <2> HIDE DEF a, b
  <2>4. refs'[x] = own'[x] + (a + d) + (b + h)
    BY <2>1, <2>3
  <2> QED BY <2>2, <2>4, Zenon
<1> QED BY <1>8, <1>9, <1>10, <1>11 DEF Counted

-----------------------------------------------------------------------------
(* How stacks and pools change                                             *)

(* A frame more, which has met nothing.                                    *)
LEMMA MoreFrames ==
  ASSUME NEW s \in Seq(FrameSet), NEW s2, Grows(s, s2), ~s2[Len(s) + 1].kept
  PROVE  /\ \A n : BusyAt(s2, n) <=> \/ BusyAt(s, n)
                                     \/ s2[Len(s) + 1].kind \in Busies /\ s2[Len(s) + 1].n = n
         /\ \A x : Hand(s2, x) <=> Hand(s, x)
         /\ KeepsOf(s) /\ (s2[Len(s) + 1].keep \in Ptrs => s2[Len(s) + 1].kind \in Scopes) => KeepsOf(s2)
<1> DEFINE f == s2[Len(s) + 1]
<1>1. \A i \in 1 .. Len(s2) : (i \in 1 .. Len(s) /\ s2[i] = s[i]) \/ (i = Len(s) + 1 /\ s2[i] = f)
  BY DEF Grows
<1>2. \A i \in 1 .. Len(s) : i \in 1 .. Len(s2) /\ s2[i] = s[i]
  BY DEF Grows
<1>3. Len(s) + 1 \in 1 .. Len(s2)
  BY DEF Grows
<1> HIDE DEF f
<1>4. ~f.kept
  BY DEF f
<1>5. \A n : BusyAt(s2, n) <=> BusyAt(s, n) \/ (f.kind \in Busies /\ f.n = n)
  BY <1>1, <1>2, <1>3, Zenon DEF BusyAt, f
<1>6. \A x : Hand(s2, x) <=> Hand(s, x)
  BY <1>1, <1>2, <1>4, Zenon DEF Hand
<1>7. ASSUME KeepsOf(s), f.keep \in Ptrs => f.kind \in Scopes
      PROVE  KeepsOf(s2)
  BY <1>1, <1>4, <1>7, Zenon DEF KeepsOf
<1> QED BY <1>5, <1>6, <1>7 DEF f

(* Frames that have met nothing and clean up nothing are dropped.          *)
LEMMA FewerFrames ==
  ASSUME NEW s \in Seq(FrameSet), NEW s2, NEW n, Cuts(s, s2, n), KeepsOf(s)
  PROVE  /\ KeepsOf(s2) /\ \A m : BusyAt(s2, m) => BusyAt(s, m)
         /\ \A x : Hand(s2, x) => Hand(s, x)
         /\ (\A i \in 1 .. Len(s) : ~(i <= n) => s[i].kind \notin Busies) =>
              \A m : BusyAt(s, m) => BusyAt(s2, m)
         /\ (\A i \in 1 .. Len(s) : ~(i <= n) => ~s[i].kept) =>
              \A x : Hand(s, x) => Hand(s2, x)
<1>1. Len(s2) = n /\ \A i \in 1 .. n : i \in 1 .. Len(s) /\ s2[i] = s[i]
  BY DEF Cuts
<1>2. \A i \in 1 .. Len(s) : i <= n => i \in 1 .. n
  BY DEF Cuts
<1>3. KeepsOf(s2)
  BY <1>1, Zenon DEF KeepsOf
<1>4. \A m : BusyAt(s2, m) => BusyAt(s, m)
  BY <1>1, Zenon DEF BusyAt
<1>5. \A x : Hand(s2, x) => Hand(s, x)
  BY <1>1, Zenon DEF Hand
<1>6. ASSUME \A i \in 1 .. Len(s) : ~(i <= n) => s[i].kind \notin Busies
      PROVE  \A m : BusyAt(s, m) => BusyAt(s2, m)
  BY <1>1, <1>2, <1>6, Zenon DEF BusyAt
<1>7. ASSUME \A i \in 1 .. Len(s) : ~(i <= n) => ~s[i].kept
      PROVE  \A x : Hand(s, x) => Hand(s2, x)
  BY <1>1, <1>2, <1>7, Zenon DEF Hand
<1> QED BY <1>3, <1>4, <1>5, <1>6, <1>7

(* The innermost frame changes, and cleans up nothing before and after.    *)
LEMMA OtherTop ==
  ASSUME NEW s \in Seq(FrameSet), NEW s2, Retops(s, s2),
         s[Len(s)].kind \notin Busies, s2[Len(s)].kind \notin Busies
  PROVE  /\ \A m : BusyAt(s2, m) <=> BusyAt(s, m)
         /\ \A i \in 1 .. Len(s2) : (i \in 1 .. Len(s) /\ s2[i] = s[i]) \/ (i = Len(s) /\ s2[i] = s2[Len(s)])
<1>1. \A i \in 1 .. Len(s2) : (i \in 1 .. Len(s) /\ s2[i] = s[i]) \/ (i = Len(s) /\ s2[i] = s2[Len(s)])
  BY DEF Retops
<1>2. \A i \in 1 .. Len(s) : i \in 1 .. Len(s2) /\ (s2[i] = s[i] \/ i = Len(s))
  BY DEF Retops
<1>3. \A m : BusyAt(s2, m) => BusyAt(s, m)
  BY <1>1 DEF BusyAt
<1>4. \A m : BusyAt(s, m) => BusyAt(s2, m)
  BY <1>2 DEF BusyAt
<1> QED BY <1>1, <1>3, <1>4

(* Nothing is in the hand of a thread that runs no truncation.             *)
LEMMA EmptyHand ==
  ASSUME NEW s, KeepsOf(s), \A i \in 1 .. Len(s) : s[i].kind \notin Truncs
  PROVE  \A x : ~Hand(s, x)
  BY DEF KeepsOf, Hand

(* A pointer stays pooled once where entries are taken and nothing more is *)
(* handed over.                                                            *)
LEMMA OnceLess ==
  ASSUME NEW s \in Seq(FrameSet), NEW p, NEW s2, NEW p2, OnceOnly(s, p),
         \A i \in 1 .. Len(s2) : s2[i].keep \in Ptrs =>
           \E k \in 1 .. Len(s) : s[k].keep = s2[i].keep /\ s[k].n = s2[i].n,
         \A x \in Ptrs : Live(s2, p2, x) \subseteq Live(s, p, x) /\ (Hand(s2, x) => Hand(s, x))
  PROVE  OnceOnly(s2, p2)
<1> SUFFICES ASSUME NEW i \in 1 .. Len(s2), s2[i].keep \in Ptrs
             PROVE  OnceFor(s2, p2, s2[i].n, s2[i].keep)
  BY DEF OnceOnly
<1>1. PICK k \in 1 .. Len(s) : s[k].keep = s2[i].keep /\ s[k].n = s2[i].n
  OBVIOUS
<1> DEFINE x == s2[i].keep
           n == s2[i].n
<1>2. OnceFor(s, p, n, x)
  BY <1>1, Zenon DEF OnceOnly
<1>3. Live(s2, p2, x) \subseteq Live(s, p, x) /\ (Hand(s2, x) => Hand(s, x))
  OBVIOUS
<1> HIDE DEF x, n
<1>4. OnceFor(s2, p2, n, x)
  BY <1>2, <1>3 DEF OnceFor
<1> QED BY <1>4 DEF x, n

-----------------------------------------------------------------------------
(* How the entries that hold references change                             *)

LEMMA LiveSame ==
  ASSUME NEW s, NEW s2, NEW p, \A m : BusyAt(s2, m) <=> BusyAt(s, m)
  PROVE  \A x : Live(s2, p, x) = Live(s, p, x)
  BY Zenon DEF Live

LEMMA LiveAppended ==
  ASSUME NEW s, NEW p \in Seq(Ptrs \cup {Nil}), NEW a \in Ptrs \cup {Nil}, ~BusyAt(s, Len(p) + 1)
  PROVE  /\ \A x : x # a => Live(s, Append(p, a), x) = Live(s, p, x)
         /\ Live(s, Append(p, a), a) = Live(s, p, a) \cup {Len(p) + 1}
         /\ \A x : \A i \in Live(s, p, x) : i \in 1 .. Len(p)
<1> DEFINE q == Append(p, a)
<1>1. /\ Len(p) \in Nat /\ Len(q) = Len(p) + 1 /\ q[Len(p) + 1] = a
      /\ \A i \in 1 .. Len(p) : q[i] = p[i]
  OBVIOUS
<1> HIDE DEF q
<1>2. \A i : i \in 1 .. Len(q) <=> i \in 1 .. Len(p) \/ i = Len(p) + 1
  BY <1>1
<1>3. \A x : x # a => Live(s, q, x) = Live(s, p, x)
  BY <1>1, <1>2 DEF Live
<1>4. Live(s, q, a) = Live(s, p, a) \cup {Len(p) + 1}
  BY <1>1, <1>2 DEF Live
<1> QED BY <1>3, <1>4 DEF q, Live

(* Entry i becomes a.                                                      *)
Sets(p, q, i, a) == Len(q) = Len(p) /\ q[i] = a /\ \A k \in 1 .. Len(p) : k # i => q[k] = p[k]

LEMMA SetsEntry ==
  ASSUME NEW p \in Seq(Ptrs \cup {Nil}), NEW i \in 1 .. Len(p), NEW a
  PROVE  Sets(p, [p EXCEPT ![i] = a], i, a)
  BY DEF Sets

LEMMA LiveSet ==
  ASSUME NEW s, NEW p, NEW a, NEW i \in 1 .. Len(p), NEW q, Sets(p, q, i, a)
  PROVE  /\ \A x : x # a => Live(s, q, x) = Live(s, p, x) \ {i}
         /\ ~BusyAt(s, i) => Live(s, q, a) = Live(s, p, a) \cup {i}
<1>1. /\ Len(q) = Len(p) /\ q[i] = a /\ \A k \in 1 .. Len(p) : k # i => q[k] = p[k]
  BY DEF Sets
<1>2. \A x : x # a => Live(s, q, x) = Live(s, p, x) \ {i}
  BY <1>1 DEF Live
<1>3. ~BusyAt(s, i) => Live(s, q, a) = Live(s, p, a) \cup {i}
  BY <1>1 DEF Live
<1> QED BY <1>2, <1>3

(* The last entry goes.                                                    *)
LEMMA LiveLowered ==
  ASSUME NEW s, NEW s2, NEW p \in Seq(Ptrs \cup {Nil}), p # <<>>,
         \A m \in 1 .. Len(p) - 1 : BusyAt(s2, m) <=> BusyAt(s, m)
  PROVE  \A x : Live(s2, Front(p), x) = Live(s, p, x) \ {Len(p)}
<1> DEFINE q == Front(p)
<1>1. Len(p) \in Nat /\ Len(p) > 0
  OBVIOUS
<1>2. Len(q) = Len(p) - 1 /\ \A i \in 1 .. Len(p) - 1 : q[i] = p[i]
  <2>1. Len(p) - 1 \in 0 .. Len(p)
    BY <1>1
  <2> QED BY <2>1, PrefixOf DEF Front
<1> HIDE DEF q
<1>3. \A i : i \in 1 .. Len(p) - 1 <=> i \in 1 .. Len(p) /\ i # Len(p)
  BY <1>1
<1>4. \A x : Live(s2, q, x) = Live(s, p, x) \ {Len(p)}
  BY <1>2, <1>3 DEF Live
<1> QED BY <1>4 DEF q

(* Nothing is being cleaned up above the pool.                             *)
LEMMA IdleAbove ==
  ASSUME NEW s \in Seq(FrameSet), NEW p \in Seq(Ptrs \cup {Nil}), Within(s, p)
  PROVE  ~BusyAt(s, Len(p) + 1)
<1> SUFFICES ASSUME NEW k \in 1 .. Len(s), s[k].kind \in Busies, s[k].n = Len(p) + 1
             PROVE  FALSE
  BY DEF BusyAt
<1>1. Len(p) \in Nat
  OBVIOUS
<1>2. CASE s[k].kind = "release"
  BY <1>1, <1>2 DEF Within
<1>3. CASE s[k].kind = "clean"
  BY <1>1, <1>3 DEF Within
<1> QED BY <1>2, <1>3 DEF Busies

(* The loop of a truncation finds its entry idle.                          *)
LEMMA IdleLast ==
  ASSUME NEW s \in Seq(FrameSet), NEW p \in Seq(Ptrs \cup {Nil}), NEW u \in BOOLEAN,
         Unwound(s, u), Nested(s, p), s # <<>>, s[Len(s)].kind \in Truncs, s[Len(s)].n < Len(p)
  PROVE  ~BusyAt(s, Len(p))
<1> SUFFICES ASSUME NEW k \in 1 .. Len(s), s[k].kind \in Busies, s[k].n = Len(p)
             PROVE  FALSE
  BY DEF BusyAt
<1>1. Len(s) \in 1 .. Len(s) /\ Len(p) \in Nat
  OBVIOUS
<1>2. s[k].kind = "release"
  BY Truncs1 DEF Busies
<1>3. k # Len(s)
  BY <1>2 DEF Truncs
<1>4. k < Len(s)
  BY <1>1, <1>3
<1>5. s[k].n <= s[Len(s)].n
  BY <1>1, <1>2, <1>4 DEF Nested, Stacked, Owners, Truncs, Scopes
<1>6. s[Len(s)].n \in Nat
  BY <1>1, FrameTypes
<1> QED BY <1>1, <1>5, <1>6

(* The ways in which counts and references stay in balance.                *)
LEMMA BalanceSame ==
  ASSUME NEW x, NEW s, NEW p, NEW s2, NEW p2,
         Live(s2, p2, x) = Live(s, p, x), Hand(s2, x) <=> Hand(s, x),
         refs[x] \in Nat, own[x] \in Nat, own'[x] \in Nat, refs'[x] = refs[x] + (own'[x] - own[x])
  PROVE  Balanced(x, s, p, s2, p2)
<1>1. Gain(Live(s, p, x), Live(s2, p2, x), 0) /\ HandGain(s, s2, x, 0)
  BY DEF Gain, HandGain
<1>2. refs'[x] = refs[x] + (own'[x] - own[x]) + 0 + 0
  OBVIOUS
<1> QED BY <1>1, <1>2 DEF Balanced

LEMMA BalanceGain ==
  ASSUME NEW x, NEW s, NEW p, NEW s2, NEW p2, NEW i,
         i \notin Live(s, p, x), Live(s2, p2, x) = Live(s, p, x) \cup {i}, Hand(s2, x) <=> Hand(s, x),
         refs[x] \in Nat, own[x] \in Nat, own'[x] = own[x], refs'[x] = refs[x] + 1
  PROVE  Balanced(x, s, p, s2, p2)
<1>1. Gain(Live(s, p, x), Live(s2, p2, x), 1) /\ HandGain(s, s2, x, 0)
  BY DEF Gain, HandGain
<1>2. refs'[x] = refs[x] + (own'[x] - own[x]) + 1 + 0
  OBVIOUS
<1> QED BY <1>1, <1>2 DEF Balanced

LEMMA BalanceLose ==
  ASSUME NEW x, NEW s, NEW p, NEW s2, NEW p2, NEW i \in Live(s, p, x),
         Live(s2, p2, x) = Live(s, p, x) \ {i}, Hand(s2, x) <=> Hand(s, x),
         refs[x] \in Nat, own[x] \in Nat, own'[x] \in Nat, refs'[x] = refs[x] + (own'[x] - own[x]) - 1
  PROVE  Balanced(x, s, p, s2, p2)
<1>1. Gain(Live(s, p, x), Live(s2, p2, x), -1) /\ HandGain(s, s2, x, 0)
  BY DEF Gain, HandGain
<1>2. refs'[x] = refs[x] + (own'[x] - own[x]) + (-1) + 0
  OBVIOUS
<1> QED BY <1>1, <1>2 DEF Balanced

LEMMA BalanceTake ==
  ASSUME NEW x, NEW s, NEW p, NEW s2, NEW p2, NEW i \in Live(s, p, x),
         Live(s2, p2, x) = Live(s, p, x) \ {i}, ~Hand(s, x), Hand(s2, x),
         refs[x] \in Nat, own[x] \in Nat, own'[x] = own[x], refs'[x] = refs[x]
  PROVE  Balanced(x, s, p, s2, p2)
<1>1. Gain(Live(s, p, x), Live(s2, p2, x), -1) /\ HandGain(s, s2, x, 1)
  BY DEF Gain, HandGain
<1>2. refs'[x] = refs[x] + (own'[x] - own[x]) + (-1) + 1
  OBVIOUS
<1> QED BY <1>1, <1>2 DEF Balanced

LEMMA BalanceGive ==
  ASSUME NEW x, NEW s, NEW p, NEW s2, NEW p2, NEW i,
         i \notin Live(s, p, x), Live(s2, p2, x) = Live(s, p, x) \cup {i}, Hand(s, x), ~Hand(s2, x),
         refs[x] \in Nat, own[x] \in Nat, own'[x] = own[x], refs'[x] = refs[x]
  PROVE  Balanced(x, s, p, s2, p2)
<1>1. Gain(Live(s, p, x), Live(s2, p2, x), 1) /\ HandGain(s, s2, x, -1)
  BY DEF Gain, HandGain
<1>2. refs'[x] = refs[x] + (own'[x] - own[x]) + 1 + (-1)
  OBVIOUS
<1> QED BY <1>1, <1>2 DEF Balanced

-----------------------------------------------------------------------------
(* The steps                                                               *)

LEMMA AtRefs ==
  ASSUME IInv, RefInv, NEW t \in Threads
  PROVE  /\ KeepsOf(stack[t]) /\ OnceOnly(stack[t], pool[t])
         /\ \A x \in Ptrs : refs[x] \in Nat /\ own[x] \in Nat
         /\ stack[t] \in Seq(FrameSet) /\ pool[t] \in Seq(Ptrs \cup {Nil})
         /\ Len(stack[t]) \in Nat /\ Len(pool[t]) \in Nat
         /\ Unwound(stack[t], unwinding[t]) /\ Nested(stack[t], pool[t]) /\ Jumps(stack[t], jb[t])
<1>1. Refs(stack[t], pool[t])
  BY DEF RefInv
<1> QED BY <1>1, AtThread DEF RefInv, Refs

(* A step of thread t that keeps every count in balance.                   *)
LEMMA RefStep ==
  ASSUME IInv, IInv', RefInv, NEW t \in Threads, NEW s2, NEW p2,
         stack' = [stack EXCEPT ![t] = s2], pool' = [pool EXCEPT ![t] = p2],
         own' \in [Ptrs -> Nat], refs' = [x \in Ptrs |-> refs'[x]],
         KeepsOf(s2), OnceOnly(s2, p2),
         \A x \in Ptrs : Balanced(x, stack[t], pool[t], s2, p2)
  PROVE  RefInv'
<1>1. Types /\ Types'
  BY DEF IInv
<1>2. ASSUME NEW x \in Ptrs
      PROVE  Counted(x)' /\ refs'[x] \in Nat
  <2>1. refs[x] \in Nat /\ own[x] \in Nat /\ own'[x] \in Nat /\ Counted(x)
    BY DEF RefInv
  <2> QED BY <1>1, <2>1, CountStep
<1>3. refs' \in [Ptrs -> Nat]
  BY <1>2
<1>4. ASSUME NEW o \in Threads
      PROVE  Refs(stack'[o], pool'[o])
  <2>1. CASE o = t
    BY <1>1, <2>1 DEF Types, Refs
  <2>2. CASE o # t
    <3>1. stack'[o] = stack[o] /\ pool'[o] = pool[o]
      BY <1>1, <2>2 DEF Types
    <3> QED BY <3>1 DEF RefInv
  <2> QED BY <2>1, <2>2
<1> QED BY <1>2, <1>3, <1>4 DEF RefInv

(* A step that changes neither the pool nor a count.                       *)
LEMMA RefStack ==
  ASSUME IInv, IInv', RefInv, NEW t \in Threads, NEW s2,
         stack' = [stack EXCEPT ![t] = s2], UNCHANGED <<pool, refs, own>>,
         KeepsOf(s2), OnceOnly(s2, pool[t]),
         \A m : BusyAt(s2, m) <=> BusyAt(stack[t], m), \A x \in Ptrs : Hand(s2, x) <=> Hand(stack[t], x)
  PROVE  RefInv'
<1>1. pool' = [pool EXCEPT ![t] = pool[t]]
  BY Stays
<1>2. own' \in [Ptrs -> Nat] /\ refs' = [x \in Ptrs |-> refs'[x]]
  BY DEF RefInv
<1>3. ASSUME NEW x \in Ptrs
      PROVE  Balanced(x, stack[t], pool[t], s2, pool[t])
  <2>1. Live(s2, pool[t], x) = Live(stack[t], pool[t], x)
    BY LiveSame
  <2>2. refs[x] \in Nat /\ own[x] \in Nat /\ own'[x] \in Nat /\ refs'[x] = refs[x] + (own'[x] - own[x])
    BY AtRefs
  <2> QED BY <2>1, <2>2, BalanceSame
<1> QED BY <1>1, <1>2, <1>3, RefStep

LEMMA RefStays ==
  ASSUME RefInv, UNCHANGED <<stack, pool, refs, own>>
  PROVE  RefInv'
<1>1. \A x : Pooled(x)' = Pooled(x) /\ InHand(x)' = InHand(x)
  BY DEF Pooled, Where, Busy, InHand
<1>2. \A x \in Ptrs : Counted(x)'
  BY <1>1 DEF RefInv, Counted
<1> QED BY <1>2 DEF RefInv

(* A frame that hands nothing over is entered or left.                     *)
LEMMA RefEnter ==
  ASSUME IInv, IInv', RefInv, NEW t \in Threads, NEW f \in FrameSet,
         stack' = [stack EXCEPT ![t] = Append(stack[t], f)], UNCHANGED <<pool, refs, own>>,
         f.kind \notin Busies, f.kept = FALSE, f.keep = Nil
  PROVE  RefInv'
<1> DEFINE s  == stack[t]
           s2 == Append(s, f)
<1>1. s \in Seq(FrameSet) /\ KeepsOf(s) /\ OnceOnly(s, pool[t])
  BY AtRefs
<1>2. Grows(s, s2) /\ s2[Len(s) + 1] = f
  BY <1>1, GrowsAppend
<1>3. Nil \notin Ptrs
  BY CsupAssumption
<1> HIDE DEF s2
<1>4. /\ KeepsOf(s2) /\ \A m : BusyAt(s2, m) <=> BusyAt(s, m)
      /\ \A x : Hand(s2, x) <=> Hand(s, x)
  BY <1>1, <1>2, <1>3, MoreFrames
<1>5. \A i \in 1 .. Len(s2) : s2[i].keep \in Ptrs =>
        \E k \in 1 .. Len(s) : s[k].keep = s2[i].keep /\ s[k].n = s2[i].n
  <2>1. \A i \in 1 .. Len(s2) : (i \in 1 .. Len(s) /\ s2[i] = s[i]) \/ s2[i] = f
    BY <1>1, <1>2 DEF Grows
  <2>2. f.keep \notin Ptrs
    BY <1>3
  <2> QED BY <2>1, <2>2, Zenon
<1>6. \A x \in Ptrs : Live(s2, pool[t], x) \subseteq Live(s, pool[t], x) /\ (Hand(s2, x) => Hand(s, x))
  <2>1. \A x : Live(s2, pool[t], x) = Live(s, pool[t], x)
    BY <1>4, LiveSame
  <2> QED BY <1>4, <2>1
<1>7. OnceOnly(s2, pool[t])
  BY <1>1, <1>5, <1>6, OnceLess
<1> QED BY <1>4, <1>7, RefStack DEF s2

LEMMA RefLeave ==
  ASSUME IInv, IInv', RefInv, NEW t \in Threads, NEW n \in 0 .. Len(stack[t]),
         stack' = [stack EXCEPT ![t] = SubSeq(stack[t], 1, n)], UNCHANGED <<pool, refs, own>>,
         \A i \in 1 .. Len(stack[t]) : ~(i <= n) => stack[t][i].kind \notin Busies /\ ~stack[t][i].kept
  PROVE  RefInv'
<1> DEFINE s  == stack[t]
           s2 == SubSeq(s, 1, n)
<1>1. s \in Seq(FrameSet) /\ KeepsOf(s) /\ OnceOnly(s, pool[t])
  BY AtRefs
<1>2. Cuts(s, s2, n)
  BY <1>1, CutsSubSeq
<1> HIDE DEF s2
<1>4. /\ KeepsOf(s2) /\ \A m : BusyAt(s2, m) <=> BusyAt(s, m)
      /\ \A x : Hand(s2, x) <=> Hand(s, x)
  BY <1>1, <1>2, FewerFrames
<1>5. \A i \in 1 .. Len(s2) : s2[i].keep \in Ptrs =>
        \E k \in 1 .. Len(s) : s[k].keep = s2[i].keep /\ s[k].n = s2[i].n
  BY <1>2 DEF Cuts
<1>6. \A x \in Ptrs : Live(s2, pool[t], x) \subseteq Live(s, pool[t], x) /\ (Hand(s2, x) => Hand(s, x))
  <2>1. \A x : Live(s2, pool[t], x) = Live(s, pool[t], x)
    BY <1>4, LiveSame
  <2> QED BY <1>4, <2>1
<1>7. OnceOnly(s2, pool[t])
  BY <1>1, <1>5, <1>6, OnceLess
<1> QED BY <1>4, <1>7, RefStack DEF s2

(* A frame at the top is left that is no truncation and no clean-up.       *)
LEMMA RefPop ==
  ASSUME IInv, IInv', RefInv, NEW t \in Threads, stack[t] # <<>>,
         stack' = [stack EXCEPT ![t] = Front(stack[t])], UNCHANGED <<pool, refs, own>>,
         stack[t][Len(stack[t])].kind \notin Busies, ~stack[t][Len(stack[t])].kept
  PROVE  RefInv'
<1> DEFINE s == stack[t]
<1>1. s \in Seq(FrameSet) /\ Len(s) - 1 \in 0 .. Len(s)
  BY AtRefs
<1>2. \A i \in 1 .. Len(s) : ~(i <= Len(s) - 1) => i = Len(s)
  BY <1>1
<1>3. \A i \in 1 .. Len(s) : ~(i <= Len(s) - 1) => s[i].kind \notin Busies /\ ~s[i].kept
  BY <1>2, Zenon
<1> QED BY <1>1, <1>3, RefLeave DEF Front

LEMMA EnterLockRef ==
  ASSUME IInv, IInv', RefInv, NEW t \in Threads, NEW l \in Locks, EnterLock(t, l)
  PROVE  RefInv'
<1>1. CASE Recorded(t) /\ Cardinality(Top(jb[t]).locks) >= CSCOUNT
  BY <1>1, RefStays DEF EnterLock, Fatal
<1>2. CASE ~(Recorded(t) /\ Cardinality(Top(jb[t]).locks) >= CSCOUNT)
  <2> DEFINE f == Frame("lock", l, Nil)
  <2>1. stack' = [stack EXCEPT ![t] = Append(stack[t], f)] /\ UNCHANGED <<pool, refs, own>>
    BY <1>2 DEF EnterLock, Enter
  <2>2. f \in FrameSet /\ f.kind \notin Busies /\ f.kept = FALSE /\ f.keep = Nil
    BY DEF Frame, FrameSet, Kinds, Locks, Busies
  <2> HIDE DEF f
  <2> QED BY <2>1, <2>2, RefEnter
<1> QED BY <1>1, <1>2

LEMMA EnterAutoRef ==
  ASSUME IInv, IInv', RefInv, NEW t \in Threads, EnterAuto(t)
  PROVE  RefInv'
<1> DEFINE f == Frame("auto", Len(pool[t]), Nil)
<1>1. stack' = [stack EXCEPT ![t] = Append(stack[t], f)] /\ UNCHANGED <<pool, refs, own>>
  BY DEF EnterAuto, Enter
<1>2. f \in FrameSet /\ f.kind \notin Busies /\ f.kept = FALSE /\ f.keep = Nil
  BY AtRefs DEF Frame, FrameSet, Kinds, Busies
<1> HIDE DEF f
<1> QED BY <1>1, <1>2, RefEnter

(* What only truncations have met is not in a frame of another kind.       *)
LEMMA NotKept ==
  ASSUME NEW s, KeepsOf(s), NEW i \in 1 .. Len(s), s[i].kind \notin Truncs
  PROVE  ~s[i].kept
  BY DEF KeepsOf

LEMMA LeaveLockRef ==
  ASSUME IInv, IInv', RefInv, NEW t \in Threads, LeaveLock(t)
  PROVE  RefInv'
<1> DEFINE s == stack[t]
<1>1. s # <<>> /\ s[Len(s)].kind = "lock"
  BY DEF LeaveLock, AtTop, Top
<1>2. CASE Recorded(t) /\ OnTop(t, Top(s).n) = {}
  BY <1>2, RefStays DEF LeaveLock, Fatal
<1>3. CASE ~(Recorded(t) /\ OnTop(t, Top(s).n) = {})
  <2>1. stack' = [stack EXCEPT ![t] = Front(s)] /\ UNCHANGED <<pool, refs, own>>
    BY <1>3 DEF LeaveLock
  <2>2. Len(s) \in 1 .. Len(s) /\ KeepsOf(s)
    BY <1>1, AtRefs
  <2>3. ~s[Len(s)].kept /\ s[Len(s)].kind \notin Busies
    BY <1>1, <2>2, NotKept DEF Truncs, Busies
  <2> QED BY <1>1, <2>1, <2>3, RefPop
<1> QED BY <1>2, <1>3

(* Outside of a truncation nothing is being cleaned up by one, and no      *)
(* pointer has been met.                                                   *)
LEMMA CalmRefs ==
  ASSUME IInv, RefInv, NEW t \in Threads, Calm(t)
  PROVE  /\ unwinding[t] = FALSE /\ \A i \in 1 .. Len(stack[t]) : stack[t][i].kind \notin Truncs \cup {"clean"}
         /\ \A x : ~Hand(stack[t], x)
<1>1. unwinding[t] = FALSE
  BY RunsAt DEF Calm
<1>2. Unwound(stack[t], FALSE) /\ KeepsOf(stack[t])
  BY <1>1, AtRefs, Zenon
<1>3. \A i \in 1 .. Len(stack[t]) : stack[t][i].kind \notin Truncs \cup {"clean"}
  BY <1>2, Calmed
<1> QED BY <1>1, <1>2, <1>3, EmptyHand

LEMMA Recounted ==
  ASSUME NEW c \in [Ptrs -> Nat], NEW p \in Ptrs, NEW v, NEW c2, c2 = [c EXCEPT ![p] = v]
  PROVE  /\ c2 = [x \in Ptrs |-> c2[x]] /\ c2[p] = v /\ \A x \in Ptrs : x # p => c2[x] = c[x]
         /\ v \in Nat => c2 \in [Ptrs -> Nat]
  OBVIOUS

LEMMA DropRef ==
  ASSUME IInv, IInv', RefInv, NEW t \in Threads, NEW p \in Ptrs, Drop(t, p)
  PROVE  RefInv'
<1>1. /\ own[p] > 0 /\ own' = [own EXCEPT ![p] = @ - 1] /\ refs' = [refs EXCEPT ![p] = @ + (-1)]
      /\ UNCHANGED <<stack, pool>>
  BY DEF Drop, Refer
<1>2. refs \in [Ptrs -> Nat] /\ own \in [Ptrs -> Nat]
  BY DEF RefInv
<1>3. own' \in [Ptrs -> Nat] /\ refs' = [x \in Ptrs |-> refs'[x]]
  <2>1. own[p] - 1 \in Nat
    BY <1>1, <1>2
  <2> QED BY <1>1, <1>2, <2>1, Recounted
<1>4. stack' = [stack EXCEPT ![t] = stack[t]] /\ pool' = [pool EXCEPT ![t] = pool[t]]
  BY <1>1, Stays
<1>5. KeepsOf(stack[t]) /\ OnceOnly(stack[t], pool[t])
  BY AtRefs
<1>6. ASSUME NEW x \in Ptrs
      PROVE  Balanced(x, stack[t], pool[t], stack[t], pool[t])
  <2>1. refs[x] \in Nat /\ own[x] \in Nat /\ own'[x] \in Nat
    BY <1>2, <1>3
  <2>2. refs'[x] = refs[x] + (own'[x] - own[x])
    BY <1>1, <1>2, <2>1
  <2> QED BY <2>1, <2>2, BalanceSame
<1> QED BY <1>3, <1>4, <1>5, <1>6, RefStep

(* The topmost entry of a pointer that __Unpool finds.                     *)
LEMMA HighestLive ==
  ASSUME IInv, NEW t \in Threads, NEW a, Where(t, a) # {}
  PROVE  /\ Highest(Where(t, a)) \in 1 .. Len(pool[t]) /\ pool[t][Highest(Where(t, a))] = a
         /\ Highest(Where(t, a)) \in Live(stack[t], pool[t], a) /\ ~BusyAt(stack[t], Highest(Where(t, a)))
<1>1. Where(t, a) = Live(stack[t], pool[t], a)
  BY WhereLive DEF IInv
<1>2. /\ Highest(Where(t, a)) \in 1 .. Len(pool[t]) /\ pool[t][Highest(Where(t, a))] = a
      /\ Highest(Where(t, a)) \in Live(stack[t], pool[t], a)
  BY <1>1, AtThread, HighestIn
<1> QED BY <1>2 DEF Live

(* The entry of a, at i, is emptied.                                       *)
LEMMA TakenOut ==
  ASSUME NEW s, NEW p, NEW a \in Ptrs, NEW i \in Live(s, p, a), NEW q, Sets(p, q, i, Nil)
  PROVE  /\ Live(s, q, a) = Live(s, p, a) \ {i}
         /\ \A x \in Ptrs : x # a => Live(s, q, x) = Live(s, p, x)
<1>1. i \in 1 .. Len(p) /\ p[i] = a /\ Nil \notin Ptrs
  BY CsupAssumption DEF Live
<1>2. \A x : x # Nil => Live(s, q, x) = Live(s, p, x) \ {i}
  BY <1>1 DEF Sets, Live
<1>3. \A x \in Ptrs : x # a => i \notin Live(s, p, x)
  BY <1>1 DEF Live
<1> QED BY <1>1, <1>2, <1>3

(* One more entry is being cleaned up, or one less.                        *)
LEMMA LiveBusy ==
  ASSUME NEW s, NEW s2, NEW p, NEW n, \A m : BusyAt(s2, m) <=> BusyAt(s, m) \/ m = n
  PROVE  \A x : Live(s2, p, x) = Live(s, p, x) \ {n}
  BY Zenon DEF Live

LEMMA RetainRef ==
  ASSUME IInv, IInv', RefInv, NEW t \in Threads, NEW a \in Ptrs, Retain(t, a)
  PROVE  RefInv'
<1> DEFINE s == stack[t]
           p == pool[t]
           i == Highest(Where(t, a))
           q == [p EXCEPT ![i] = Nil]
<1>1. /\ Calm(t) /\ Where(t, a) # {} /\ pool' = [pool EXCEPT ![t] = q]
      /\ own' = [own EXCEPT ![a] = @ + 1] /\ UNCHANGED <<stack, refs>>
  BY DEF Retain
<1>2. refs \in [Ptrs -> Nat] /\ own \in [Ptrs -> Nat]
  BY DEF RefInv
<1>3. s \in Seq(FrameSet) /\ p \in Seq(Ptrs \cup {Nil}) /\ KeepsOf(s) /\ OnceOnly(s, p)
  BY AtRefs
<1>4. i \in Live(s, p, a)
  BY <1>1, HighestLive
<1>0. Sets(p, q, i, Nil)
  BY <1>1, <1>3, HighestLive, SetsEntry
<1>5. Live(s, q, a) = Live(s, p, a) \ {i} /\ \A x \in Ptrs : x # a => Live(s, q, x) = Live(s, p, x)
  BY <1>0, <1>4, TakenOut
<1> HIDE DEF q
<1>6. own' \in [Ptrs -> Nat] /\ own'[a] = own[a] + 1 /\ \A x \in Ptrs : x # a => own'[x] = own[x]
  BY <1>1, <1>2
<1>7. refs' = [x \in Ptrs |-> refs'[x]]
  BY <1>1, <1>2
<1>8. \A x \in Ptrs : Live(s, q, x) \subseteq Live(s, p, x) /\ (Hand(s, x) => Hand(s, x))
  BY <1>5
<1>9. OnceOnly(s, q)
  BY <1>3, <1>8, OnceLess
<1>10. ASSUME NEW x \in Ptrs
       PROVE  Balanced(x, s, p, s, q)
  <2>1. refs[x] \in Nat /\ own[x] \in Nat /\ own'[x] \in Nat /\ refs'[x] = refs[x]
    BY <1>1, <1>2, <1>6
  <2>2. CASE x = a
    <3>1. refs'[x] = refs[x] + (own'[x] - own[x]) - 1
      BY <1>6, <2>1, <2>2
    <3> QED BY <1>4, <1>5, <2>1, <2>2, <3>1, BalanceLose
  <2>3. CASE x # a
    <3>1. refs'[x] = refs[x] + (own'[x] - own[x])
      BY <1>6, <2>1, <2>3
    <3> QED BY <1>5, <2>1, <2>3, <3>1, BalanceSame
  <2> QED BY <2>2, <2>3
<1>11. stack' = [stack EXCEPT ![t] = s]
  BY <1>1, Stays
<1> QED BY <1>1, <1>3, <1>6, <1>7, <1>9, <1>10, <1>11, RefStep

(* The clean-up of an entry begins and its reference is dropped.           *)
LEMMA RefCleanup ==
  ASSUME IInv, IInv', RefInv, NEW t \in Threads, NEW a \in Ptrs, NEW f \in FrameSet,
         stack' = [stack EXCEPT ![t] = Append(stack[t], f)], UNCHANGED <<pool, own>>,
         refs' = [refs EXCEPT ![a] = @ + (-1)],
         f.kind \in Busies, f.n \in Live(stack[t], pool[t], a), f.kept = FALSE, f.keep = Nil
  PROVE  RefInv'
<1> DEFINE s  == stack[t]
           p  == pool[t]
           s2 == Append(s, f)
<1>1. s \in Seq(FrameSet) /\ KeepsOf(s) /\ OnceOnly(s, p)
  BY AtRefs
<1>2. Grows(s, s2) /\ s2[Len(s) + 1] = f
  BY <1>1, GrowsAppend
<1>3. Nil \notin Ptrs
  BY CsupAssumption
<1> HIDE DEF s2
<1>4. /\ KeepsOf(s2) /\ \A m : BusyAt(s2, m) <=> BusyAt(s, m) \/ m = f.n
      /\ \A x : Hand(s2, x) <=> Hand(s, x)
  BY <1>1, <1>2, <1>3, MoreFrames
<1>5. \A i \in 1 .. Len(s2) : s2[i].keep \in Ptrs =>
        \E k \in 1 .. Len(s) : s[k].keep = s2[i].keep /\ s[k].n = s2[i].n
  <2>1. \A i \in 1 .. Len(s2) : (i \in 1 .. Len(s) /\ s2[i] = s[i]) \/ s2[i] = f
    BY <1>1, <1>2 DEF Grows
  <2>2. f.keep \notin Ptrs
    BY <1>3
  <2> QED BY <2>1, <2>2, Zenon
<1>6. /\ Live(s2, p, a) = Live(s, p, a) \ {f.n}
      /\ \A x \in Ptrs : x # a => Live(s2, p, x) = Live(s, p, x)
  <2>1. \A x : Live(s2, p, x) = Live(s, p, x) \ {f.n}
    BY <1>4, Zenon DEF Live
  <2>2. \A x \in Ptrs : x # a => f.n \notin Live(s, p, x)
    BY DEF Live
  <2> QED BY <2>1, <2>2
<1>7. \A x \in Ptrs : Live(s2, p, x) \subseteq Live(s, p, x) /\ (Hand(s2, x) => Hand(s, x))
  BY <1>4, <1>6
<1>8. OnceOnly(s2, p)
  BY <1>1, <1>5, <1>7, OnceLess
<1>9. refs \in [Ptrs -> Nat] /\ own \in [Ptrs -> Nat]
  BY DEF RefInv
<1>10. /\ refs' = [x \in Ptrs |-> refs'[x]] /\ refs'[a] = refs[a] + (-1)
       /\ \A x \in Ptrs : x # a => refs'[x] = refs[x]
  BY <1>9, Recounted
<1>11. ASSUME NEW x \in Ptrs
       PROVE  Balanced(x, s, p, s2, p)
  <2>1. refs[x] \in Nat /\ own[x] \in Nat /\ own'[x] \in Nat /\ own'[x] = own[x]
    BY <1>9
  <2>2. CASE x = a
    <3>1. refs'[x] = refs[x] + (own'[x] - own[x]) - 1
      BY <1>10, <2>1, <2>2
    <3> QED BY <1>4, <1>6, <2>1, <2>2, <3>1, BalanceLose
  <2>3. CASE x # a
    <3>1. refs'[x] = refs[x] + (own'[x] - own[x])
      BY <1>10, <2>1, <2>3
    <3> QED BY <1>4, <1>6, <2>1, <2>3, <3>1, BalanceSame
  <2> QED BY <2>2, <2>3
<1>12. pool' = [pool EXCEPT ![t] = p]
  BY Stays
<1> QED BY <1>4, <1>8, <1>9, <1>10, <1>11, <1>12, RefStep DEF s2

LEMMA ReleaseRef ==
  ASSUME IInv, IInv', RefInv, NEW t \in Threads, NEW a \in Ptrs, Release(t, a)
  PROVE  RefInv'
<1> DEFINE i == Highest(Where(t, a))
           f == Frame("release", i, Nil)
<1>1. /\ Where(t, a) # {} /\ stack' = [stack EXCEPT ![t] = Append(stack[t], f)]
      /\ UNCHANGED <<pool, own>> /\ refs' = [refs EXCEPT ![a] = @ + (-1)]
  BY DEF Release, Enter, Refer
<1>2. i \in 1 .. Len(pool[t]) /\ i \in Live(stack[t], pool[t], a)
  BY <1>1, HighestLive
<1> HIDE DEF i
<1>3. f \in FrameSet /\ f.kind \in Busies /\ f.n = i /\ f.kept = FALSE /\ f.keep = Nil
  BY <1>2 DEF Frame, FrameSet, Kinds, Busies
<1> HIDE DEF f
<1> QED BY <1>1, <1>2, <1>3, RefCleanup

LEMMA CleanRef ==
  ASSUME IInv, IInv', RefInv, NEW t \in Threads, Clean(t)
  PROVE  RefInv'
<1> DEFINE s == stack[t]
           p == pool[t]
           a == p[Len(p)]
           f == Frame("clean", Len(p), Nil)
<1>1. /\ Truncating(t) /\ Len(p) > s[Len(s)].n /\ a # Nil
      /\ stack' = [stack EXCEPT ![t] = Append(s, f)]
      /\ UNCHANGED <<pool, own>> /\ refs' = [refs EXCEPT ![a] = @ + (-1)]
  BY DEF Clean, More, Spared, Refer, Top
<1>2. s # <<>> /\ s[Len(s)].kind \in Truncs /\ s[Len(s)].n \in Nat
  BY <1>1, TruncatingAt
<1>3. /\ s \in Seq(FrameSet) /\ p \in Seq(Ptrs \cup {Nil}) /\ Len(p) \in Nat
      /\ Unwound(s, unwinding[t]) /\ Nested(s, p) /\ unwinding[t] \in BOOLEAN
  BY AtThread
<1>4. Len(p) \in 1 .. Len(p)
  BY <1>1, <1>2, <1>3
<1>5. a \in Ptrs
  <2>1. a \in Ptrs \cup {Nil}
    BY <1>3, <1>4
  <2> QED BY <1>1, <2>1
<1>6. ~BusyAt(s, Len(p))
  BY <1>1, <1>2, <1>3, IdleLast
<1>7. Len(p) \in Live(s, p, a)
  BY <1>4, <1>6 DEF Live
<1>8. f \in FrameSet /\ f.kind \in Busies /\ f.n = Len(p) /\ f.kept = FALSE /\ f.keep = Nil
  BY <1>3 DEF Frame, FrameSet, Kinds, Busies
<1> HIDE DEF f, a
<1> QED BY <1>1, <1>5, <1>7, <1>8, RefCleanup

(* A clean-up is over and its entry is emptied or goes.                    *)
LEMMA RefCleaned ==
  ASSUME IInv, IInv', RefInv, NEW t \in Threads, NEW q, stack[t] # <<>>,
         stack' = [stack EXCEPT ![t] = Front(stack[t])], pool' = [pool EXCEPT ![t] = q],
         UNCHANGED <<refs, own>>, stack[t][Len(stack[t])].kind \in Busies,
         \A x \in Ptrs : Live(Front(stack[t]), q, x)
                           = Live(Front(stack[t]), pool[t], x) \ {stack[t][Len(stack[t])].n}
  PROVE  RefInv'
<1> DEFINE s  == stack[t]
           p  == pool[t]
           s2 == Front(s)
           n  == s[Len(s)].n
<1>1. s \in Seq(FrameSet) /\ Len(s) \in 1 .. Len(s) /\ Len(s) - 1 \in 0 .. Len(s) /\ KeepsOf(s) /\ OnceOnly(s, p)
  BY AtRefs
<1>2. Cuts(s, s2, Len(s) - 1)
  BY <1>1, CutsFront
<1> HIDE DEF s2
<1>3. Grows(s2, s) /\ s2 \in Seq(FrameSet) /\ Len(s2) + 1 = Len(s)
  BY <1>1, <1>2 DEF Cuts, Grows
<1>4. s[Len(s)].kind \notin Truncs
  BY DEF Truncs, Busies
<1>5. ~s[Len(s)].kept
  BY <1>1, <1>4, NotKept
<1>6. /\ \A m : BusyAt(s, m) <=> BusyAt(s2, m) \/ m = n
      /\ \A x : Hand(s2, x) <=> Hand(s, x)
  BY <1>1, <1>3, <1>5, MoreFrames
<1>7. KeepsOf(s2)
  BY <1>1, <1>2, FewerFrames
<1>8. \A x : Live(s, p, x) = Live(s2, p, x) \ {n}
  BY <1>6, Zenon DEF Live
<1>9. \A x \in Ptrs : Live(s2, q, x) = Live(s, p, x)
  BY <1>8 DEF s2
<1>10. \A x \in Ptrs : Live(s2, q, x) \subseteq Live(s, p, x) /\ (Hand(s2, x) => Hand(s, x))
  BY <1>6, <1>9
<1>11. \A i \in 1 .. Len(s2) : s2[i].keep \in Ptrs =>
         \E k \in 1 .. Len(s) : s[k].keep = s2[i].keep /\ s[k].n = s2[i].n
  BY <1>2 DEF Cuts
<1>12. OnceOnly(s2, q)
  BY <1>1, <1>10, <1>11, OnceLess
<1>13. own' \in [Ptrs -> Nat] /\ refs' = [x \in Ptrs |-> refs'[x]]
  BY DEF RefInv
<1>14. ASSUME NEW x \in Ptrs
       PROVE  Balanced(x, s, p, s2, q)
  <2>1. refs[x] \in Nat /\ own[x] \in Nat /\ own'[x] \in Nat /\ refs'[x] = refs[x] + (own'[x] - own[x])
    BY AtRefs
  <2> QED BY <1>6, <1>9, <2>1, BalanceSame
<1> QED BY <1>7, <1>12, <1>13, <1>14, RefStep DEF s2

LEMMA ReleaseDoneRef ==
  ASSUME IInv, IInv', RefInv, NEW t \in Threads, ReleaseDone(t)
  PROVE  RefInv'
<1> DEFINE s  == stack[t]
           p  == pool[t]
           s2 == Front(s)
           n  == s[Len(s)].n
           q  == [p EXCEPT ![n] = Nil]
<1>1. /\ s # <<>> /\ s[Len(s)].kind = "release" /\ stack' = [stack EXCEPT ![t] = s2]
      /\ pool' = [pool EXCEPT ![t] = q] /\ UNCHANGED <<refs, own>>
  BY DEF ReleaseDone, AtTop, Top, Emptied
<1>2. s \in Seq(FrameSet) /\ p \in Seq(Ptrs \cup {Nil}) /\ Nested(s, p) /\ Len(s) \in 1 .. Len(s)
  BY <1>1, AtRefs
<1>3. n \in 1 .. Len(p)
  BY <1>1, <1>2 DEF Nested, Within
<1>4. Sets(p, q, n, Nil)
  BY <1>2, <1>3, SetsEntry
<1> HIDE DEF q, n, s2
<1>5. \A x \in Ptrs : Live(s2, q, x) = Live(s2, p, x) \ {n}
  <2>1. Nil \notin Ptrs
    BY CsupAssumption
  <2> QED BY <1>3, <1>4, <2>1 DEF Sets, Live
<1>6. s[Len(s)].kind \in Busies
  BY <1>1 DEF Busies
<1> QED BY <1>1, <1>5, <1>6, RefCleaned DEF n, s2

LEMMA CleanDoneRef ==
  ASSUME IInv, IInv', RefInv, NEW t \in Threads, CleanDone(t)
  PROVE  RefInv'
<1> DEFINE s  == stack[t]
           p  == pool[t]
           s2 == Front(s)
           q  == Front(p)
<1>1. /\ s # <<>> /\ s[Len(s)].kind = "clean" /\ stack' = [stack EXCEPT ![t] = s2]
      /\ pool' = [pool EXCEPT ![t] = q] /\ UNCHANGED <<refs, own>>
  BY DEF CleanDone, AtTop, Top, Lower
<1>2. s \in Seq(FrameSet) /\ p \in Seq(Ptrs \cup {Nil}) /\ Nested(s, p) /\ Len(s) \in 1 .. Len(s)
  BY <1>1, AtRefs
<1>3. s[Len(s)].n = Len(p) /\ Len(s) > 1 /\ s[Len(s) - 1].n < Len(p)
  BY <1>1, <1>2 DEF Nested, Within
<1>4. p # <<>>
  <2>1. Len(s) - 1 \in 1 .. Len(s)
    BY <1>2, <1>3
  <2>2. s[Len(s) - 1].n \in Nat
    BY <1>2, <2>1, FrameTypes
  <2>3. Len(p) > 0
    BY <1>2, <1>3, <2>2
  <2> QED BY <2>3
<1> HIDE DEF s2
<1>5. \A x \in Ptrs : Live(s2, q, x) = Live(s2, p, x) \ {Len(p)}
  BY <1>2, <1>4, LiveLowered
<1>6. s[Len(s)].kind \in Busies
  BY <1>1 DEF Busies
<1> HIDE DEF q
<1> QED BY <1>1, <1>3, <1>5, <1>6, RefCleaned DEF s2

(* An entry for a is pooled.                                               *)
LEMMA RefPool ==
  ASSUME IInv, IInv', RefInv, NEW t \in Threads, NEW a \in Ptrs,
         pool' = [pool EXCEPT ![t] = Append(pool[t], a)], refs' = [refs EXCEPT ![a] = @ + 1],
         UNCHANGED <<stack, own>>,
         \/ Live(stack[t], pool[t], a) = {} /\ ~Hand(stack[t], a)
         \/ \A i \in 1 .. Len(stack[t]) : stack[t][i].keep # a
  PROVE  RefInv'
<1> DEFINE s == stack[t]
           p == pool[t]
           q == Append(p, a)
           e == Len(p) + 1
<1>1. s \in Seq(FrameSet) /\ p \in Seq(Ptrs \cup {Nil}) /\ Nested(s, p) /\ KeepsOf(s) /\ OnceOnly(s, p)
  BY AtRefs
<1>2. ~BusyAt(s, e)
  BY <1>1, IdleAbove DEF Nested
<1>3. /\ \A x : x # a => Live(s, q, x) = Live(s, p, x)
      /\ Live(s, q, a) = Live(s, p, a) \cup {e}
      /\ e \notin Live(s, p, a)
  <2>1. a \in Ptrs \cup {Nil} /\ e \notin 1 .. Len(p)
    BY <1>1
  <2> QED BY <1>1, <1>2, <2>1, LiveAppended
<1> HIDE DEF q, e
<1>4. OnceOnly(s, q)
  <2> SUFFICES ASSUME NEW i \in 1 .. Len(s), s[i].keep \in Ptrs
               PROVE  OnceFor(s, q, s[i].n, s[i].keep)
    BY DEF OnceOnly
  <2>1. OnceFor(s, p, s[i].n, s[i].keep)
    BY <1>1 DEF OnceOnly
  <2>2. CASE s[i].keep # a
    <3>1. Live(s, q, s[i].keep) = Live(s, p, s[i].keep)
      BY <1>3, <2>2
    <3> QED BY <2>1, <3>1 DEF OnceFor
  <2>3. CASE s[i].keep = a
    <3>1. Live(s, q, a) = {e} /\ ~Hand(s, a)
      BY <1>3, <2>3
    <3>2. OnceFor(s, q, s[i].n, a)
      BY <3>1 DEF OnceFor
    <3> QED BY <2>3, <3>2
  <2> QED BY <2>2, <2>3
<1>5. refs \in [Ptrs -> Nat] /\ own \in [Ptrs -> Nat]
  BY DEF RefInv
<1>6. /\ refs' = [x \in Ptrs |-> refs'[x]] /\ refs'[a] = refs[a] + 1
      /\ \A x \in Ptrs : x # a => refs'[x] = refs[x]
  BY <1>5, Recounted
<1>7. ASSUME NEW x \in Ptrs
      PROVE  Balanced(x, s, p, s, q)
  <2>1. refs[x] \in Nat /\ own[x] \in Nat /\ own'[x] \in Nat /\ own'[x] = own[x]
    BY <1>5
  <2>2. CASE x = a
    BY <1>3, <1>6, <2>1, <2>2, BalanceGain
  <2>3. CASE x # a
    <3>1. refs'[x] = refs[x] + (own'[x] - own[x])
      BY <1>6, <2>1, <2>3
    <3> QED BY <1>3, <2>1, <2>3, <3>1, BalanceSame
  <2> QED BY <2>2, <2>3
<1>8. stack' = [stack EXCEPT ![t] = s]
  BY Stays
<1> QED BY <1>1, <1>4, <1>5, <1>6, <1>7, <1>8, RefStep DEF q

(* An object that is gone is in no pool.                                   *)
LEMMA GoneUnpooled ==
  ASSUME IInv, RefInv, NEW a \in Ptrs, refs[a] = 0, NEW t \in Threads
  PROVE  Live(stack[t], pool[t], a) = {}
<1>1. /\ IsFiniteSet(Pooled(a)) /\ IsFiniteSet(InHand(a)) /\ own[a] \in Nat
      /\ 0 = own[a] + Cardinality(Pooled(a)) + Cardinality(InHand(a))
  BY DEF RefInv, Counted
<1>2. Cardinality(Pooled(a)) \in Nat /\ Cardinality(InHand(a)) \in Nat
  BY <1>1, FS_CardinalityType
<1>3. Cardinality(Pooled(a)) = 0
  BY <1>1, <1>2
<1>4. Pooled(a) = {}
  BY <1>1, <1>3, FS_EmptySet
<1> QED BY <1>4, PooledIs DEF IInv

LEMMA PoolNewRef ==
  ASSUME IInv, IInv', RefInv, NEW t \in Threads, NEW a \in Ptrs, PoolNew(t, a)
  PROVE  RefInv'
<1>1. /\ Calm(t) /\ refs[a] = 0 /\ pool' = [pool EXCEPT ![t] = Append(pool[t], a)]
      /\ refs' = [refs EXCEPT ![a] = @ + 1] /\ UNCHANGED <<stack, own>>
  BY DEF PoolNew, AppendTo, Refer
<1> QED BY <1>1, CalmRefs, GoneUnpooled, RefPool

LEMMA PoolRefRef ==
  ASSUME IInv, IInv', RefInv, NEW t \in Threads, NEW a \in Ptrs, PoolRef(t, a)
  PROVE  RefInv'
<1>1. /\ pool' = [pool EXCEPT ![t] = Append(pool[t], a)]
      /\ refs' = [refs EXCEPT ![a] = @ + 1] /\ UNCHANGED <<stack, own>>
      /\ \A i \in DOMAIN stack[t] : stack[t][i].keep # a
  BY DEF PoolRef, AppendTo, Refer
<1>2. \A i \in 1 .. Len(stack[t]) : stack[t][i].keep # a
  BY <1>1, AtRefs
<1> QED BY <1>1, <1>2, RefPool

LEMMA RefreshRef ==
  ASSUME IInv, IInv', RefInv, NEW t \in Threads, NEW old \in Ptrs, NEW new \in Ptrs, Refresh(t, old, new)
  PROVE  RefInv'
<1> DEFINE s == stack[t]
           p == pool[t]
           i == Highest(Where(t, old))
           q == [p EXCEPT ![i] = new]
<1>1. Calm(t) /\ refs[old] = 1 /\ refs[new] = 0
  BY DEF Refresh
<1>2. CASE Where(t, old) = {}
  BY <1>2, RefStays DEF Refresh, Fatal
<1>3. CASE Where(t, old) # {}
  <2>1. /\ pool' = [pool EXCEPT ![t] = q] /\ refs' = [refs EXCEPT ![old] = 0, ![new] = 1]
        /\ UNCHANGED <<stack, own>>
    BY <1>3 DEF Refresh
  <2>2. refs \in [Ptrs -> Nat] /\ own \in [Ptrs -> Nat]
    BY DEF RefInv
  <2>3. s \in Seq(FrameSet) /\ p \in Seq(Ptrs \cup {Nil}) /\ KeepsOf(s) /\ OnceOnly(s, p)
    BY AtRefs
  <2>4. i \in Live(s, p, old) /\ i \in 1 .. Len(p) /\ p[i] = old /\ ~BusyAt(s, i)
    BY <1>3, HighestLive
  <2>5. Sets(p, q, i, new)
    BY <2>3, <2>4, SetsEntry
  <2>6. old # new
    BY <1>1
  <2>7. /\ refs' = [x \in Ptrs |-> refs'[x]] /\ refs'[old] = 0 /\ refs'[new] = 1
        /\ \A x \in Ptrs : x \notin {old, new} => refs'[x] = refs[x]
    BY <2>1, <2>2, <2>6
  <2> HIDE DEF q, i
  <2>8. /\ Live(s, q, old) = Live(s, p, old) \ {i} /\ Live(s, q, new) = Live(s, p, new) \cup {i}
        /\ \A x : x \notin {old, new} => Live(s, q, x) = Live(s, p, x)
    BY <2>4, <2>5, <2>6 DEF Sets, Live
  <2>9. Live(s, p, new) = {} /\ \A x : ~Hand(s, x)
    BY <1>1, GoneUnpooled, CalmRefs
  <2>10. OnceOnly(s, q)
    <3> SUFFICES ASSUME NEW k \in 1 .. Len(s), s[k].keep \in Ptrs
                 PROVE  OnceFor(s, q, s[k].n, s[k].keep)
      BY DEF OnceOnly
    <3>1. OnceFor(s, p, s[k].n, s[k].keep)
      BY <2>3 DEF OnceOnly
    <3>2. CASE s[k].keep # new
      <4>1. Live(s, q, s[k].keep) \subseteq Live(s, p, s[k].keep)
        BY <2>8, <3>2
      <4> QED BY <2>9, <3>1, <4>1 DEF OnceFor
    <3>3. CASE s[k].keep = new
      <4>1. Live(s, q, new) = {i}
        BY <2>8, <2>9
      <4>2. OnceFor(s, q, s[k].n, new)
        BY <2>9, <4>1 DEF OnceFor
      <4> QED BY <3>3, <4>2
    <3> QED BY <3>2, <3>3
  <2>11. ASSUME NEW x \in Ptrs
         PROVE  Balanced(x, s, p, s, q)
    <3>1. refs[x] \in Nat /\ own[x] \in Nat /\ own'[x] \in Nat /\ own'[x] = own[x]
      BY <2>1, <2>2
    <3>2. CASE x = old
      <4>1. refs'[x] = refs[x] + (own'[x] - own[x]) - 1
        BY <1>1, <2>7, <3>1, <3>2
      <4> QED BY <2>4, <2>8, <3>1, <3>2, <4>1, BalanceLose
    <3>3. CASE x = new
      <4>1. i \notin Live(s, p, x) /\ refs'[x] = refs[x] + 1
        BY <1>1, <2>7, <2>9, <3>3
      <4> QED BY <2>8, <3>1, <3>3, <4>1, BalanceGain
    <3>4. CASE x \notin {old, new}
      <4>1. refs'[x] = refs[x] + (own'[x] - own[x])
        BY <2>7, <3>1, <3>4
      <4> QED BY <2>8, <3>1, <3>4, <4>1, BalanceSame
    <3> QED BY <3>2, <3>3, <3>4
  <2>12. stack' = [stack EXCEPT ![t] = s] /\ own' \in [Ptrs -> Nat]
    BY <2>1, <2>2, Stays
  <2> QED BY <2>1, <2>3, <2>7, <2>10, <2>11, <2>12, RefStep
<1> QED BY <1>2, <1>3

LEMMA EnterTryRef ==
  ASSUME IInv, IInv', RefInv, NEW t \in Threads, NEW keep \in Ptrs \cup {Nil}, EnterTry(t, keep)
  PROVE  RefInv'
<1> DEFINE s  == stack[t]
           p  == pool[t]
           f  == Frame("try", Len(p), keep)
           s2 == Append(s, f)
<1>1. stack' = [stack EXCEPT ![t] = s2] /\ UNCHANGED <<pool, refs, own>>
  BY DEF EnterTry, Enter
<1>2. /\ s \in Seq(FrameSet) /\ p \in Seq(Ptrs \cup {Nil}) /\ KeepsOf(s) /\ OnceOnly(s, p)
      /\ Len(p) \in Nat
  BY AtRefs
<1>3. f \in FrameSet /\ f.kind = "try" /\ f.kept = FALSE /\ f.n = Len(p)
  BY <1>2 DEF Frame, FrameSet, Kinds
<1> HIDE DEF f
<1>4. Grows(s, s2) /\ s2[Len(s) + 1] = f
  BY <1>2, <1>3, GrowsAppend
<1> HIDE DEF s2
<1>5. f.kind \notin Busies /\ f.kind \in Scopes
  BY <1>3 DEF Busies, Scopes
<1>6. /\ KeepsOf(s2) /\ \A m : BusyAt(s2, m) <=> BusyAt(s, m)
      /\ \A x : Hand(s2, x) <=> Hand(s, x)
  BY <1>2, <1>3, <1>4, <1>5, MoreFrames
<1>7. \A x : Live(s2, p, x) = Live(s, p, x)
  BY <1>6, LiveSame
<1>8. OnceOnly(s2, p)
  <2> SUFFICES ASSUME NEW i \in 1 .. Len(s2), s2[i].keep \in Ptrs
               PROVE  OnceFor(s2, p, s2[i].n, s2[i].keep)
    BY DEF OnceOnly
  <2>1. CASE i \in 1 .. Len(s)
    <3>1. s2[i] = s[i]
      BY <1>4, <2>1 DEF Grows
    <3>2. OnceFor(s, p, s[i].n, s[i].keep)
      BY <1>2, <2>1, <3>1 DEF OnceOnly
    <3> QED BY <1>6, <1>7, <3>1, <3>2 DEF OnceFor
  <2>2. CASE i = Len(s) + 1
    <3>1. s2[i].n = Len(p)
      BY <1>3, <1>4, <2>2
    <3>2. \A x : \A a \in Live(s2, p, x) : ~(a > Len(p))
      BY <1>2 DEF Live
    <3> QED BY <3>1, <3>2 DEF OnceFor
  <2> QED BY <1>2, <1>4, <2>1, <2>2 DEF Grows
<1> QED BY <1>1, <1>6, <1>8, RefStack

(* A block ends: the pointer it hands over is pooled once above it.        *)
LEMMA RefTruncate ==
  ASSUME IInv, IInv', RefInv, NEW t \in Threads, NEW kind \in {"endauto", "endtry"}, NEW n,
         NEW keep \in Ptrs \cup {Nil}, Calm(t), stack[t] # <<>>, n = stack[t][Len(stack[t])].n,
         stack[t][Len(stack[t])].kind \in {"auto", "try"}, Truncate(t, kind, n, keep),
         keep \in Ptrs => \A a, b \in Live(stack[t], pool[t], keep) : a > n /\ b > n => a = b
  PROVE  RefInv'
<1> DEFINE s  == stack[t]
           p  == pool[t]
           f  == Frame(kind, n, keep)
           s2 == [s EXCEPT ![Len(s)] = f]
<1>1. stack' = [stack EXCEPT ![t] = s2] /\ UNCHANGED <<pool, refs, own>>
  BY DEF Truncate
<1>2. /\ s \in Seq(FrameSet) /\ KeepsOf(s) /\ OnceOnly(s, p) /\ Len(s) \in 1 .. Len(s)
  BY AtRefs
<1>3. f \in FrameSet /\ f.kind = kind /\ f.kept = FALSE /\ f.n = n /\ f.keep = keep
  BY <1>2, FrameTypes DEF Frame, FrameSet, Kinds
<1> HIDE DEF f
<1>4. Retops(s, s2) /\ s2[Len(s)] = f
  BY <1>2, <1>3, RetopsSet
<1> HIDE DEF s2
<1>5. s[Len(s)].kind \notin Busies /\ s2[Len(s)].kind \notin Busies
  BY <1>3, <1>4 DEF Busies
<1>6. /\ \A m : BusyAt(s2, m) <=> BusyAt(s, m)
      /\ \A i \in 1 .. Len(s2) : (i \in 1 .. Len(s) /\ s2[i] = s[i]) \/ (i = Len(s) /\ s2[i] = f)
  BY <1>2, <1>4, <1>5, OtherTop
<1>7. \A x : ~Hand(s, x)
  BY CalmRefs
<1>8. \A i \in 1 .. Len(s) : ~s[i].kept
  <2>1. \A i \in 1 .. Len(s) : s[i].kind \notin Truncs
    BY CalmRefs
  <2> QED BY <1>2, <2>1, NotKept
<1>9. \A i \in 1 .. Len(s2) : ~s2[i].kept
  BY <1>3, <1>6, <1>8, Zenon
<1>10. \A x : ~Hand(s2, x)
  BY <1>9 DEF Hand
<1>11. KeepsOf(s2)
  <2>1. f.kind \in Scopes
    BY <1>3 DEF Scopes
  <2>2. \A i \in 1 .. Len(s2) : s2[i].keep \in Ptrs => s2[i].kind \in Scopes
    BY <1>2, <1>6, <2>1, Zenon DEF KeepsOf
  <2> QED BY <1>9, <2>2 DEF KeepsOf
<1>12. \A x : Live(s2, p, x) = Live(s, p, x)
  BY <1>6, LiveSame
<1>13. OnceOnly(s2, p)
  <2> SUFFICES ASSUME NEW i \in 1 .. Len(s2), s2[i].keep \in Ptrs
               PROVE  OnceFor(s2, p, s2[i].n, s2[i].keep)
    BY DEF OnceOnly
  <2>1. CASE i \in 1 .. Len(s) /\ s2[i] = s[i]
    <3>1. OnceFor(s, p, s[i].n, s[i].keep)
      BY <1>2, <2>1 DEF OnceOnly
    <3> QED BY <1>10, <1>12, <2>1, <3>1 DEF OnceFor
  <2>2. CASE s2[i] = f
    <3>1. OnceFor(s2, p, n, keep)
      BY <1>3, <1>10, <1>12, <2>2 DEF OnceFor
    <3> QED BY <1>3, <2>2, <3>1
  <2> QED BY <1>6, <2>1, <2>2
<1> QED BY <1>1, <1>7, <1>10, <1>6, <1>11, <1>13, RefStack

LEMMA LeaveAutoRef ==
  ASSUME IInv, IInv', RefInv, NEW t \in Threads, NEW keep \in Ptrs \cup {Nil}, LeaveAuto(t, keep)
  PROVE  RefInv'
<1> DEFINE n == stack[t][Len(stack[t])].n
           S == {i \in Where(t, keep) : i > n}
<1>1. /\ Calm(t) /\ stack[t] # <<>> /\ stack[t][Len(stack[t])].kind = "auto"
      /\ Truncate(t, "endauto", n, keep) /\ (keep # Nil => Cardinality(S) = 1)
  BY DEF LeaveAuto, AtTop, Top
<1>2. Where(t, keep) = Live(stack[t], pool[t], keep)
  BY WhereLive DEF IInv
<1>3. IsFiniteSet(S)
  <2>1. S \subseteq 1 .. Len(pool[t])
    BY <1>2 DEF Live
  <2>2. IsFiniteSet(1 .. Len(pool[t]))
    BY AtRefs, FS_Interval
  <2> QED BY <2>1, <2>2, FS_Subset
<1>4. ASSUME keep \in Ptrs
      PROVE  \A a, b \in Live(stack[t], pool[t], keep) : a > n /\ b > n => a = b
  <2>1. Cardinality(S) = 1
    BY <1>1, <1>4, CsupAssumption
  <2> HIDE DEF S
  <2>2. PICK x : S = {x}
    BY <1>3, <2>1, FS_Singleton
  <2> QED BY <1>2, <2>2 DEF S
<1> HIDE DEF S, n
<1>5. n = stack[t][Len(stack[t])].n
  BY DEF n
<1> QED BY <1>1, <1>4, <1>5, RefTruncate

LEMMA LeaveTryRef ==
  ASSUME IInv, IInv', RefInv, NEW t \in Threads, LeaveTry(t)
  PROVE  RefInv'
<1> DEFINE s == stack[t]
           j == jb[t]
           n == s[Len(s)].n
<1>1. /\ Calm(t) /\ s # <<>> /\ s[Len(s)].kind = "try"
      /\ Truncate(t, "endtry", j[Len(j)].top, s[Len(s)].keep)
  BY DEF LeaveTry, AtTop, Top
<1>2. /\ s \in Seq(FrameSet) /\ Len(s) \in 1 .. Len(s) /\ j \in Seq(JmpBufSet) /\ Jumps(s, j)
      /\ OnceOnly(s, pool[t])
  BY <1>1, AtThread, AtRefs
<1>3. s[Len(s)].keep \in Ptrs \cup {Nil}
  BY <1>2, FrameTypes
<1>4. PICK k \in 1 .. Len(j) : j[k].env = Len(s)
  BY <1>1, <1>2 DEF Jumps, Covered, Tries
<1>5. Len(j) > 0
  BY <1>2, <1>4, JmpBufTypes
<1>6. j[Len(j)].env \in 1 .. Len(s) /\ s[j[Len(j)].env].n = j[Len(j)].top /\ Len(s) <= j[Len(j)].env
  BY <1>1, <1>2, <1>5, JumpsTop DEF Tries
<1>7. n = j[Len(j)].top
  <2>1. j[Len(j)].env = Len(s)
    BY <1>2, <1>6
  <2> QED BY <1>6, <2>1
<1>8. s[Len(s)].keep \in Ptrs =>
        \A a, b \in Live(s, pool[t], s[Len(s)].keep) : a > n /\ b > n => a = b
  BY <1>2 DEF OnceOnly, OnceFor
<1> HIDE DEF n
<1>9. n = s[Len(s)].n /\ Truncate(t, "endtry", n, s[Len(s)].keep)
  BY <1>1, <1>7 DEF n
<1> QED BY <1>1, <1>3, <1>8, <1>9, RefTruncate

(* The sections, blocks and calls that a raise abandons clean up nothing.  *)
LEMMA RaiseRef ==
  ASSUME IInv, IInv', RefInv, NEW t \in Threads, Raise(t)
  PROVE  RefInv'
<1> DEFINE s  == stack[t]
           p  == pool[t]
           j  == jb[t]
           e  == Top(j).env
           s1 == SubSeq(s, 1, e)
           f  == Frame("raise", Top(j).top, Nil)
           s2 == Append(s1, f)
<1>1. CASE j = <<>> \/ unwinding[t]
  BY <1>1, RefStays DEF Raise, Fatal
<1>2. CASE ~(j = <<>> \/ unwinding[t])
  <2>1. /\ stack' = [stack EXCEPT ![t] = s2] /\ UNCHANGED <<pool, refs, own>>
        /\ ~Releasing(t, e + 1) /\ Calm(t)
    BY <1>2 DEF Raise, Abandoned, Calm
  <2>2. s \in Seq(FrameSet) /\ KeepsOf(s) /\ OnceOnly(s, p) /\ Jumps(s, j) /\ j \in Seq(JmpBufSet)
    BY AtRefs, AtThread
  <2>3. e \in 1 .. Len(s) /\ Top(j).top \in Nat
    <3>1. Len(j) > 0 /\ Len(j) \in 1 .. Len(j)
      BY <1>2, <2>2
    <3> QED BY <2>2, <3>1, JmpBufTypes DEF Jumps, Lands, Top
  <2>4. f \in FrameSet /\ f.kind = "raise" /\ f.kept = FALSE /\ f.keep = Nil
    BY <2>3 DEF Frame, FrameSet, Kinds
  <2> HIDE DEF f, e
  <2>5. Cuts(s, s1, e) /\ s1 \in Seq(FrameSet)
    <3>1. e \in 0 .. Len(s)
      BY <2>3
    <3> QED BY <2>2, <3>1, CutsSubSeq DEF Cuts
  <2> HIDE DEF s1
  <2>6. Grows(s1, s2) /\ s2[Len(s1) + 1] = f
    BY <2>4, <2>5, GrowsAppend
  <2> HIDE DEF s2
  <2>7. \A i \in 1 .. Len(s) : s[i].kind \notin Truncs \cup {"clean"}
    BY <2>1, CalmRefs
  <2>8. \A i \in 1 .. Len(s) : ~s[i].kept
    BY <2>2, <2>7, NotKept
  <2>9. \A i \in 1 .. Len(s) : ~(i <= e) => s[i].kind \notin Busies
    <3>1. \A i \in 1 .. Len(s) : ~(i <= e) => i \in (e + 1) .. Len(s)
      BY <2>2, <2>3
    <3>2. \A i \in 1 .. Len(s) : ~(i <= e) => s[i].kind # "release"
      BY <2>1, <3>1 DEF Releasing
    <3> QED BY <2>7, <3>2 DEF Busies
  <2>10. /\ KeepsOf(s1) /\ \A m : BusyAt(s1, m) <=> BusyAt(s, m)
         /\ \A x : Hand(s1, x) <=> Hand(s, x)
    <3>1. \A i \in 1 .. Len(s) : ~(i <= e) => ~s[i].kept
      BY <2>8
    <3> QED BY <2>2, <2>5, <2>9, <3>1, FewerFrames
  <2>11. f.keep \notin Ptrs /\ f.kind \notin Busies
    BY <2>4, CsupAssumption DEF Busies
  <2>12. /\ KeepsOf(s2) /\ \A m : BusyAt(s2, m) <=> BusyAt(s, m)
         /\ \A x : Hand(s2, x) <=> Hand(s, x)
    BY <2>4, <2>5, <2>6, <2>10, <2>11, MoreFrames
  <2>13. \A i \in 1 .. Len(s2) : s2[i].keep \in Ptrs =>
           \E k \in 1 .. Len(s) : s[k].keep = s2[i].keep /\ s[k].n = s2[i].n
    <3>1. \A i \in 1 .. Len(s2) : (i \in 1 .. e /\ s2[i] = s1[i]) \/ s2[i] = f
      BY <2>5, <2>6 DEF Grows, Cuts
    <3>2. \A i \in 1 .. e : i \in 1 .. Len(s) /\ s1[i] = s[i]
      BY <2>5 DEF Cuts
    <3> QED BY <2>11, <3>1, <3>2, Zenon
  <2>14. \A x \in Ptrs : Live(s2, p, x) \subseteq Live(s, p, x) /\ (Hand(s2, x) => Hand(s, x))
    <3>1. \A x : Live(s2, p, x) = Live(s, p, x)
      BY <2>12, LiveSame
    <3> QED BY <2>12, <3>1
  <2>15. OnceOnly(s2, p)
    BY <2>2, <2>13, <2>14, OnceLess
  <2> QED BY <2>1, <2>12, <2>15, RefStack
<1> QED BY <1>1, <1>2

(* The loop passes over an entry: an empty one, or the pointer that is     *)
(* handed over, which is in the hand of the truncation from then on.       *)
LEMMA SpareRef ==
  ASSUME IInv, IInv', RefInv, NEW t \in Threads, Spare(t)
  PROVE  RefInv'
<1> DEFINE s  == stack[t]
           p  == pool[t]
           q  == Front(p)
           h  == s[Len(s)]
           a  == p[Len(p)]
           f  == [h EXCEPT !.kept = h.kept \/ a # Nil]
           s2 == [s EXCEPT ![Len(s)] = f]
<1>1. /\ Truncating(t) /\ stack' = [stack EXCEPT ![t] = s2] /\ pool' = [pool EXCEPT ![t] = q]
      /\ Len(p) > h.n /\ a \in {Nil, h.keep} /\ UNCHANGED <<refs, own>>
  BY DEF Spare, Lower, More, Spared, Top
<1>2. s # <<>> /\ h.kind \in Truncs /\ Len(s) \in 1 .. Len(s) /\ h.n \in Nat
  BY <1>1, TruncatingAt
<1>3. /\ s \in Seq(FrameSet) /\ p \in Seq(Ptrs \cup {Nil}) /\ Len(p) \in Nat /\ KeepsOf(s)
      /\ OnceOnly(s, p) /\ Unwound(s, unwinding[t]) /\ Nested(s, p) /\ unwinding[t] \in BOOLEAN
  BY AtRefs, AtThread
<1>4. Len(p) \in 1 .. Len(p) /\ p # <<>>
  BY <1>1, <1>2, <1>3
<1>5. h \in FrameSet /\ a \in Ptrs \cup {Nil} /\ Nil \notin Ptrs
  BY <1>2, <1>3, <1>4, CsupAssumption
<1>6. /\ f \in FrameSet /\ f.kind = h.kind /\ f.n = h.n /\ f.keep = h.keep
      /\ f.kept = (h.kept \/ a # Nil)
  <2>1. (h.kept \/ a # Nil) \in BOOLEAN
    OBVIOUS
  <2> QED BY <1>5, <2>1 DEF FrameSet
<1>7. f.kept <=> h.kept \/ a # Nil
  BY <1>6, Zenon
<1>8. ~BusyAt(s, Len(p))
  BY <1>1, <1>2, <1>3, IdleLast
<1> HIDE DEF f
<1>9. Retops(s, s2) /\ s2[Len(s)] = f
  BY <1>2, <1>3, <1>6, RetopsSet
<1> HIDE DEF s2, a
<1>10. h.kind \notin Busies /\ f.kind \notin Busies /\ h.kind \in Scopes
  BY <1>2, <1>6 DEF Busies, Truncs, Scopes
<1>11. /\ \A m : BusyAt(s2, m) <=> BusyAt(s, m)
       /\ \A i \in 1 .. Len(s2) : (i \in 1 .. Len(s) /\ s2[i] = s[i]) \/ (i = Len(s) /\ s2[i] = f)
  BY <1>3, <1>9, <1>10, OtherTop
<1>12. \A i \in 1 .. Len(s) : i \in 1 .. Len(s2) /\ (s2[i] = s[i] \/ (i = Len(s) /\ s2[i] = f))
  BY <1>3, <1>9 DEF Retops
<1>13. \A x : Live(s2, q, x) = Live(s, p, x) \ {Len(p)}
  BY <1>3, <1>4, <1>11, LiveLowered
<1>14. \A x \in Ptrs : x # a => Live(s2, q, x) = Live(s, p, x)
  <2>1. \A x \in Ptrs : x # a => Len(p) \notin Live(s, p, x)
    BY DEF Live, a
  <2> QED BY <1>13, <2>1
<1> HIDE DEF h
<1>15. \A x : x # a => (Hand(s2, x) <=> Hand(s, x))
  <2>0. h = s[Len(s)] /\ a \in {Nil, h.keep}
    BY <1>1 DEF h
  <2> SUFFICES ASSUME NEW x, x # a
               PROVE  Hand(s2, x) <=> Hand(s, x)
    OBVIOUS
  <2>1. (f.kept /\ f.keep = x) <=> (h.kept /\ h.keep = x)
    <3>1. CASE a = Nil
      BY <1>6, <1>7, <3>1, Zenon
    <3>2. CASE a = h.keep
      BY <1>6, <2>0, <3>2, Zenon
    <3> QED BY <2>0, <3>1, <3>2
  <2> QED BY <1>2, <1>11, <1>12, <2>0, <2>1, Zenon DEF Hand
<1>16. KeepsOf(s2)
  <2>1. h.kept => h.keep \in Ptrs
    BY <1>2, <1>3 DEF KeepsOf, h
  <2>2. f.kept => f.keep \in Ptrs
    <3>1. CASE a = Nil
      BY <1>6, <1>7, <2>1, <3>1, Zenon
    <3>2. CASE a # Nil
      <4>1. a = h.keep /\ a \in Ptrs
        BY <1>1, <1>5, <3>2
      <4> QED BY <1>6, <4>1
    <3> QED BY <3>1, <3>2
  <2>3. f.kind \in Truncs /\ f.kind \in Scopes
    BY <1>2, <1>6, <1>10 DEF h
  <2> QED BY <1>3, <1>11, <2>2, <2>3, Zenon DEF KeepsOf
<1>17. ASSUME a # Nil
       PROVE  /\ a \in Ptrs /\ Len(p) \in Live(s, p, a) /\ Hand(s2, a) /\ ~Hand(s, a)
              /\ \A i \in 1 .. Len(s) : s[i].keep = a => \A b \in Live(s2, q, a) : ~(b > s[i].n)
  <2>1. a \in Ptrs /\ h.keep = a
    BY <1>1, <1>5, <1>17
  <2>2. Len(p) \in Live(s, p, a)
    BY <1>4, <1>8 DEF Live, a
  <2>3. Hand(s2, a)
    BY <1>2, <1>6, <1>7, <1>12, <1>9, <1>17, <2>1, Zenon DEF Hand
  <2>4. OnceFor(s, p, h.n, a)
    BY <1>2, <1>3, <2>1 DEF OnceOnly, h
  <2>5. ~Hand(s, a)
    BY <1>1, <2>2, <2>4 DEF OnceFor
  <2>6. ASSUME NEW i \in 1 .. Len(s), s[i].keep = a, NEW b \in Live(s2, q, a), b > s[i].n
        PROVE  FALSE
    <3>1. OnceFor(s, p, s[i].n, a)
      BY <1>3, <2>1, <2>6 DEF OnceOnly
    <3>2. s[i].n <= h.n /\ s[i].n \in Nat
      <4>1. s[i].kind \in Scopes
        BY <1>3, <2>1, <2>6 DEF KeepsOf
      <4>2. CASE i = Len(s)
        BY <1>2, <4>2 DEF h
      <4>3. CASE i # Len(s)
        <5>1. i < Len(s)
          BY <1>2, <4>3
        <5>2. s[i].n <= s[Len(s)].n
          BY <1>2, <1>3, <1>10, <4>1, <5>1 DEF Nested, Stacked, Owners, h
        <5> QED BY <1>3, <5>2, FrameTypes DEF h
      <4> QED BY <4>2, <4>3
    <3>3. Len(p) > s[i].n
      <4>1. h.n < Len(p) /\ h.n \in Nat
        BY <1>1, <1>2 DEF h
      <4> QED BY <1>3, <3>2, <4>1
    <3>4. b \in Live(s, p, a) /\ b # Len(p)
      BY <1>13, <2>6
    <3> QED BY <2>2, <2>6, <3>1, <3>3, <3>4 DEF OnceFor
  <2> QED BY <2>1, <2>2, <2>3, <2>5, <2>6
<1>18. OnceOnly(s2, q)
  <2> SUFFICES ASSUME NEW i \in 1 .. Len(s2), s2[i].keep \in Ptrs
               PROVE  OnceFor(s2, q, s2[i].n, s2[i].keep)
    BY DEF OnceOnly
  <2>1. i \in 1 .. Len(s) /\ s2[i].keep = s[i].keep /\ s2[i].n = s[i].n
    BY <1>2, <1>6, <1>11 DEF h
  <2>2. OnceFor(s, p, s[i].n, s[i].keep)
    BY <1>3, <2>1 DEF OnceOnly
  <2>3. CASE s[i].keep # a
    <3>1. Live(s2, q, s[i].keep) = Live(s, p, s[i].keep) /\ (Hand(s2, s[i].keep) <=> Hand(s, s[i].keep))
      BY <1>14, <1>15, <2>1, <2>3
    <3> QED BY <2>1, <2>2, <3>1 DEF OnceFor
  <2>4. CASE s[i].keep = a
    <3>1. a # Nil
      BY <1>5, <2>1, <2>4
    <3>2. \A b \in Live(s2, q, a) : ~(b > s[i].n)
      BY <1>17, <2>1, <2>4, <3>1
    <3>3. OnceFor(s2, q, s[i].n, a)
      BY <3>2 DEF OnceFor
    <3> QED BY <2>1, <2>4, <3>3
  <2> QED BY <2>3, <2>4
<1>19. ASSUME NEW x \in Ptrs
       PROVE  Balanced(x, s, p, s2, q)
  <2>1. /\ refs[x] \in Nat /\ own[x] \in Nat /\ own'[x] = own[x] /\ refs'[x] = refs[x]
        /\ own'[x] \in Nat /\ refs'[x] = refs[x] + (own'[x] - own[x])
    BY <1>1, AtRefs
  <2>2. CASE x # a
    BY <1>14, <1>15, <2>1, <2>2, BalanceSame
  <2>3. CASE x = a
    <3>1. a # Nil
      BY <1>5, <2>3
    <3> QED BY <1>13, <1>17, <2>1, <2>3, <3>1, BalanceTake
  <2> QED BY <2>2, <2>3
<1>20. own' \in [Ptrs -> Nat] /\ refs' = [x \in Ptrs |-> refs'[x]]
  BY <1>1 DEF RefInv
<1> HIDE DEF q
<1> QED BY <1>1, <1>16, <1>18, <1>19, <1>20, RefStep

(* A truncation ends on a stack without truncations, and what it has in    *)
(* hand is pooled again.                                                   *)
LEMMA TruncateDoneRef ==
  ASSUME IInv, IInv', RefInv, NEW t \in Threads, TruncateDone(t)
  PROVE  RefInv'
<1> DEFINE s == stack[t]
           p == pool[t]
           j == jb[t]
           h == s[Len(s)]
           a == h.keep
           q == HandOver(t)
           e == Len(p) + 1
<1>1. /\ Truncating(t) /\ pool' = [pool EXCEPT ![t] = q] /\ ~(Len(p) > h.n) /\ UNCHANGED <<refs, own>>
  BY DEF TruncateDone, More, Top
<1>2. s # <<>> /\ h.kind \in Truncs /\ Len(s) \in 1 .. Len(s) /\ h.n \in Nat /\ h.n <= Len(p)
  BY <1>1, TruncatingAt
<1>3. /\ s \in Seq(FrameSet) /\ p \in Seq(Ptrs \cup {Nil}) /\ Len(p) \in Nat /\ KeepsOf(s)
      /\ OnceOnly(s, p) /\ Unwound(s, unwinding[t]) /\ Nested(s, p) /\ unwinding[t] \in BOOLEAN
      /\ Jumps(s, j) /\ j \in Seq(JmpBufSet) /\ Sane(s, j, p, unwinding[t])
  BY AtRefs, AtThread
<1>4. \A i \in 1 .. Len(s) - 1 : s[i].kind \notin Truncs
  BY <1>2, <1>3, Truncs1
<1>5. PICK m \in 0 .. Len(s) : /\ m < Len(s) /\ stack' = [stack EXCEPT ![t] = SubSeq(s, 1, m)]
                               /\ \A i \in 1 .. Len(s) : ~(i <= m) => s[i].kind \notin Busies
  <2>1. CASE h.kind # "raise"
    <3>1. Len(s) - 1 \in 0 .. Len(s) /\ Len(s) - 1 < Len(s)
      BY <1>2
    <3>2. stack' = [stack EXCEPT ![t] = SubSeq(s, 1, Len(s) - 1)]
      BY <1>2, <2>1 DEF TruncateDone, AtTop, Top, Front
    <3>3. \A i \in 1 .. Len(s) : ~(i <= Len(s) - 1) => s[i].kind \notin Busies
      BY <1>2 DEF Truncs, Busies
    <3> QED BY <3>1, <3>2, <3>3
  <2>2. CASE h.kind = "raise"
    <3> DEFINE v == Top(j).env
    <3>1. Len(j) > 0 /\ Len(s) = v + 1
      BY <1>2, <1>3, <2>2 DEF Jumps, Jumping, Top
    <3>2. v \in 1 .. Len(s) /\ s[v].kind \in Tries
      BY <1>3, <3>1, JumpsTop DEF Top
    <3>3. stack' = [stack EXCEPT ![t] = SubSeq(s, 1, v - 1)]
      BY <1>2, <2>2 DEF TruncateDone, AtTop, Top, Landing
    <3> HIDE DEF v
    <3>4. v - 1 \in 0 .. Len(s) /\ v - 1 < Len(s)
      BY <3>2
    <3>5. \A i \in 1 .. Len(s) : ~(i <= v - 1) => i = v \/ i = Len(s)
      BY <3>1, <3>2
    <3>6. s[v].kind \notin Busies /\ s[Len(s)].kind \notin Busies
      BY <1>2, <3>2 DEF Truncs, Tries, Busies
    <3>7. \A i \in 1 .. Len(s) : ~(i <= v - 1) => s[i].kind \notin Busies
      BY <3>5, <3>6, Zenon
    <3> QED BY <3>3, <3>4, <3>7
  <2> QED BY <2>1, <2>2
<1> DEFINE s2 == SubSeq(s, 1, m)
<1>6. Cuts(s, s2, m)
  BY <1>3, CutsSubSeq
<1>7. stack' = [stack EXCEPT ![t] = s2]
  BY <1>5
<1> HIDE DEF s2
<1>8. Len(s2) = m /\ \A i \in 1 .. Len(s2) : i \in 1 .. Len(s) - 1 /\ i \in 1 .. Len(s) /\ s2[i] = s[i]
  BY <1>2, <1>5, <1>6 DEF Cuts
<1>9. KeepsOf(s2) /\ \A k : BusyAt(s2, k) <=> BusyAt(s, k)
  BY <1>3, <1>5, <1>6, FewerFrames
<1>10. \A x : ~Hand(s2, x)
  <2>1. \A i \in 1 .. Len(s2) : s2[i].kind \notin Truncs
    BY <1>4, <1>8
  <2> QED BY <1>9, <2>1, EmptyHand
<1>11. \A x : Hand(s, x) <=> h.kept /\ a = x
  <2>1. \A i \in 1 .. Len(s) : i # Len(s) => ~s[i].kept
    <3>1. \A i \in 1 .. Len(s) : i # Len(s) => i \in 1 .. Len(s) - 1
      BY <1>2
    <3> QED BY <1>3, <1>4, <3>1, NotKept
  <2> QED BY <1>2, <2>1, Zenon DEF Hand
<1>12. \A x : Live(s2, p, x) = Live(s, p, x)
  BY <1>9, LiveSame
<1>13. own' \in [Ptrs -> Nat] /\ refs' = [x \in Ptrs |-> refs'[x]]
  BY <1>1 DEF RefInv
<1>14. \A x \in Ptrs : /\ refs[x] \in Nat /\ own[x] \in Nat /\ own'[x] \in Nat /\ own'[x] = own[x]
                       /\ refs'[x] = refs[x] /\ refs'[x] = refs[x] + (own'[x] - own[x])
  BY <1>1, AtRefs
<1>15. CASE ~h.kept
  <2>1. q = p
    BY <1>15 DEF HandOver, Top
  <2>2. \A x : ~Hand(s, x)
    BY <1>11, <1>15, Zenon
  <2> HIDE DEF q, h
  <2>3. OnceOnly(s2, q)
    <3>1. \A x \in Ptrs : Live(s2, q, x) \subseteq Live(s, p, x) /\ (Hand(s2, x) => Hand(s, x))
      BY <1>10, <1>12, <2>1
    <3>2. \A i \in 1 .. Len(s2) : s2[i].keep \in Ptrs =>
            \E k \in 1 .. Len(s) : s[k].keep = s2[i].keep /\ s[k].n = s2[i].n
      BY <1>8
    <3>3. s \in Seq(FrameSet) /\ OnceOnly(s, p)
      BY <1>3
    <3> HIDE DEF s, p
    <3> QED BY <3>1, <3>2, <3>3, OnceLess
  <2>4. ASSUME NEW x \in Ptrs
        PROVE  Balanced(x, s, p, s2, q)
    BY <1>10, <1>12, <1>14, <2>1, <2>2, BalanceSame
  <2> QED BY <1>1, <1>7, <1>9, <1>13, <2>3, <2>4, RefStep
<1>16. CASE h.kept
  <2>1. q = Append(p, a) /\ a \in Ptrs
    BY <1>2, <1>3, <1>16 DEF HandOver, Top, KeepsOf
  <2>2. ~BusyAt(s2, e)
    BY <1>3, <1>9, IdleAbove DEF Nested
  <2>3. /\ \A x : x # a => Live(s2, q, x) = Live(s, p, x)
        /\ Live(s2, q, a) = Live(s, p, a) \cup {e}
        /\ e \notin Live(s, p, a)
    <3>1. a \in Ptrs \cup {Nil} /\ e \notin 1 .. Len(p)
      BY <1>3, <2>1
    <3>2. /\ \A x : x # a => Live(s2, Append(p, a), x) = Live(s2, p, x)
          /\ Live(s2, Append(p, a), a) = Live(s2, p, a) \cup {e}
          /\ \A x : \A i \in Live(s2, p, x) : i \in 1 .. Len(p)
      BY <1>3, <2>2, <3>1, LiveAppended
    <3> QED BY <1>12, <2>1, <3>1, <3>2
  <2>4. \A x : Hand(s, x) <=> x = a
    BY <1>11, <1>16, Zenon
  <2> HIDE DEF q, h, e, a
  <2>5. OnceOnly(s2, q)
    <3> SUFFICES ASSUME NEW i \in 1 .. Len(s2), s2[i].keep \in Ptrs
                 PROVE  OnceFor(s2, q, s2[i].n, s2[i].keep)
      BY DEF OnceOnly
    <3>1. OnceFor(s, p, s2[i].n, s2[i].keep)
      BY <1>3, <1>8 DEF OnceOnly
    <3>2. CASE s2[i].keep # a
      <4>1. Live(s2, q, s2[i].keep) = Live(s, p, s2[i].keep)
        BY <2>3, <3>2
      <4> QED BY <1>10, <3>1, <4>1 DEF OnceFor
    <3>3. CASE s2[i].keep = a
      <4>1. \A b \in Live(s, p, a) : ~(b > s2[i].n)
        BY <2>4, <3>1, <3>3 DEF OnceFor
      <4>2. OnceFor(s2, q, s2[i].n, a)
        BY <1>10, <2>3, <4>1 DEF OnceFor
      <4> QED BY <3>3, <4>2
    <3> QED BY <3>2, <3>3
  <2>6. ASSUME NEW x \in Ptrs
        PROVE  Balanced(x, s, p, s2, q)
    <3>1. CASE x = a
      BY <1>10, <1>14, <2>3, <2>4, <3>1, BalanceGive
    <3>2. CASE x # a
      BY <1>10, <1>14, <2>3, <2>4, <3>2, BalanceSame
    <3> QED BY <3>1, <3>2
  <2> QED BY <1>1, <1>7, <1>9, <1>13, <2>5, <2>6, RefStep
<1> QED BY <1>15, <1>16

-----------------------------------------------------------------------------
(* The theorems                                                            *)

LEMMA InitRef == Init => RefInv
<1> SUFFICES ASSUME Init PROVE RefInv
  OBVIOUS
<1>1. \A t \in Threads : stack[t] = <<>> /\ pool[t] = <<>>
  BY DEF Init
<1>2. refs = [x \in Ptrs |-> 0] /\ own = [x \in Ptrs |-> 0]
  BY DEF Init
<1>3. \A t \in Threads : Refs(stack[t], pool[t])
  BY <1>1 DEF Refs, KeepsOf, OnceOnly
<1>4. ASSUME NEW x \in Ptrs
      PROVE  Counted(x)
  <2>1. Pooled(x) = {} /\ InHand(x) = {}
    BY <1>1 DEF Pooled, Where, InHand
  <2>2. IsFiniteSet({}) /\ Cardinality({}) = 0
    BY FS_EmptySet
  <2> QED BY <1>2, <2>1, <2>2 DEF Counted
<1> QED BY <1>2, <1>3, <1>4 DEF RefInv

LEMMA NextRef == IInv /\ RefInv /\ [Next]_vars => RefInv'
<1> SUFFICES ASSUME IInv, RefInv, [Next]_vars PROVE RefInv'
  OBVIOUS
<1>0. IInv'
  BY NextInv
<1>1. CASE UNCHANGED vars
  BY <1>1, RefStays DEF vars
<1>2. CASE Next
  <2> PICK t \in Threads :
        \/ \E l \in Locks : EnterLock(t, l)
        \/ LeaveLock(t)
        \/ \E p \in Ptrs : \/ PoolNew(t, p) \/ PoolRef(t, p) \/ Retain(t, p)
                           \/ Drop(t, p) \/ Release(t, p)
        \/ ReleaseDone(t)
        \/ \E old, new \in Ptrs : Refresh(t, old, new)
        \/ EnterAuto(t)
        \/ \E keep \in Ptrs \cup {Nil} : EnterTry(t, keep) \/ LeaveAuto(t, keep)
        \/ LeaveTry(t)
        \/ Raise(t)
        \/ Clean(t) \/ CleanDone(t) \/ Spare(t) \/ TruncateDone(t)
    BY <1>2 DEF Next
  <2>1. CASE (\E l \in Locks : EnterLock(t, l)) \/ LeaveLock(t)
    BY <1>0, <2>1, EnterLockRef, LeaveLockRef
  <2>2. CASE \E p \in Ptrs : PoolNew(t, p) \/ PoolRef(t, p) \/ Retain(t, p) \/ Drop(t, p) \/ Release(t, p)
    BY <1>0, <2>2, PoolNewRef, PoolRefRef, RetainRef, DropRef, ReleaseRef
  <2>3. CASE ReleaseDone(t) \/ \E old, new \in Ptrs : Refresh(t, old, new)
    BY <1>0, <2>3, ReleaseDoneRef, RefreshRef
  <2>4. CASE \E keep \in Ptrs \cup {Nil} : EnterTry(t, keep) \/ LeaveAuto(t, keep)
    BY <1>0, <2>4, EnterTryRef, LeaveAutoRef
  <2>5. CASE EnterAuto(t) \/ LeaveTry(t) \/ Raise(t)
    BY <1>0, <2>5, EnterAutoRef, LeaveTryRef, RaiseRef
  <2>6. CASE Clean(t) \/ CleanDone(t) \/ Spare(t) \/ TruncateDone(t)
    BY <1>0, <2>6, CleanRef, CleanDoneRef, SpareRef, TruncateDoneRef
  <2> QED BY <2>1, <2>2, <2>3, <2>4, <2>5, <2>6
<1> QED BY <1>1, <1>2

LEMMA RefsInvariant == Spec => [](IInv /\ RefInv)
<1>1. Init => IInv /\ RefInv
  BY InitInv, InitRef
<1>2. IInv /\ RefInv /\ [Next]_vars => (IInv /\ RefInv)'
  BY NextInv, NextRef
<1> QED BY <1>1, <1>2, PTL DEF Spec

(* Every path out of a scope releases each temporary once, while __Retain  *)
(* and the pointer handed over keep their references.                      *)
THEOREM CsupRefs == Spec => []RefsExact
<1>1. RefInv => RefsExact
  BY DEF RefInv, Counted, RefsExact
<1> QED BY <1>1, RefsInvariant, PTL

LEMMA ScopesFollow == IInv => ScopesNest
<1> SUFFICES ASSUME IInv, NEW t \in Threads
             PROVE  /\ \A i, j \in Frames(t, Scopes) : i < j => stack[t][i].n <= stack[t][j].n
                    /\ \A i \in Frames(t, Scopes) : stack[t][i].n <= Len(pool[t])
                    /\ \A i \in Frames(t, {"release"}) : stack[t][i].n \in DOMAIN pool[t]
                    /\ \A i \in Frames(t, {"clean"}) : stack[t][i].n = Len(pool[t])
  BY DEF ScopesNest
<1>1. stack[t] \in Seq(FrameSet) /\ pool[t] \in Seq(Ptrs \cup {Nil}) /\ Nested(stack[t], pool[t])
  BY AtThread
<1>2. DOMAIN stack[t] = 1 .. Len(stack[t]) /\ DOMAIN pool[t] = 1 .. Len(pool[t])
  BY <1>1
<1>3. \A i, j \in Frames(t, Scopes) : i < j => stack[t][i].n <= stack[t][j].n
  BY <1>1, <1>2 DEF Frames, Nested, Stacked, Owners
<1> QED BY <1>1, <1>2, <1>3 DEF Frames, Nested, Within

LEMMA RecordsFollow ==
  ASSUME IInv, NEW t \in Threads, NEW k \in DOMAIN jb[t],
         k < Len(jb[t]) \/ Frames(t, {"raise"}) = {}
  PROVE  jb[t][k].locks = {Slot(stack[t][i].n, i) : i \in Since(t, k)}
<1> DEFINE s == stack[t]
           j == jb[t]
<1>1. s \in Seq(FrameSet) /\ j \in Seq(JmpBufSet) /\ ForLocks(s) /\ Records(s, j)
  BY AtThread
<1>2. DOMAIN s = 1 .. Len(s) /\ k \in 1 .. Len(j)
  BY <1>1
<1>3. \A i : i \in Since(t, k) <=> i \in 1 .. Len(s) /\ Covers(s, j, k, i)
  BY <1>2 DEF Since, Frames, Covers
<1>4. k < Len(j) \/ \A i \in 1 .. Len(s) : s[i].kind # "raise"
  BY <1>2 DEF Frames
<1>5. \A l \in Locks, i \in Nat :
        Slot(l, i) \in j[k].locks <=> i \in 1 .. Len(s) /\ Covers(s, j, k, i) /\ s[i].n = l
  BY <1>1, <1>2, <1>4 DEF Records
<1>6. j[k].locks \subseteq SlotSet
  BY <1>1, <1>2, JmpBufTypes
<1>7. \A i \in Since(t, k) : i \in Nat /\ s[i].n \in Locks
  BY <1>1, <1>3 DEF ForLocks, Covers
<1> HIDE DEF s, j
<1>8. ASSUME NEW e \in j[k].locks
      PROVE  \E i \in Since(t, k) : e = Slot(s[i].n, i)
  <2>1. e = Slot(e.cs, e.at) /\ e.cs \in Locks /\ e.at \in Nat
    BY <1>6, SlotIs
  <2>2. e.at \in Since(t, k) /\ s[e.at].n = e.cs
    BY <1>3, <1>5, <2>1
  <2> QED BY <2>1, <2>2
<1>9. \A i \in Since(t, k) : Slot(s[i].n, i) \in j[k].locks
  BY <1>3, <1>5, <1>7
<1>10. j[k].locks = {Slot(s[i].n, i) : i \in Since(t, k)}
  BY <1>8, <1>9
<1> QED BY <1>10 DEF s, j

(* C_JmpBuf_Pop_Cs never misses its lock and _C_Raise none that it must    *)
(* unlock, and scopes own consecutive parts of the pool.                   *)
THEOREM CsupRecords == Spec => []RecordsExact
<1>1. IInv /\ RefInv => RecordsExact
  <2> SUFFICES ASSUME IInv, RefInv PROVE RecordsExact
    OBVIOUS
  <2>1. halted \in {"no", "raise", "slots", "pool"}
    BY DEF IInv, Halting
  <2>2. TypeOK
    BY <2>1 DEF TypeOK, IInv, Types, RefInv, FrameSet, JmpBufSet, SlotSet
  <2>3. halted # "pop"
    BY <2>1
  <2> QED BY <2>2, <2>3, ScopesFollow, RecordsFollow DEF RecordsExact
<1> QED BY <1>1, RefsInvariant, PTL

=============================================================================
