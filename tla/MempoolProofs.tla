--------------------------- MODULE MempoolProofs ---------------------------
(* Proofs about Mempool: see the README for the argument.                   *)
EXTENDS Mempool, FiniteSetTheorems, WellFoundedInduction, TLAPS

-----------------------------------------------------------------------------
(* The inductive invariant.                                                 *)

(* One thread at most is inside the spin lock of a slot.                    *)
Crit == {"head", "extend", "link", "pop", "chain", "put"}

LocksInv ==
  /\ spin \in [Slots -> {0, 1}]
  /\ \A t \in Threads : pc[t] \in Crit => spin[slot[t]] = 1
  /\ \A t, u \in Threads :
       pc[t] \in Crit /\ pc[u] \in Crit /\ slot[t] = slot[u] => t = u

(* What a thread has read or written is still so when it goes on.           *)
SlotPc  == PcValues \ {"idle", "destruct", "aborted"}
PiecePc == {"pop", "new", "destruct", "free", "chain", "put"}
BlockPc == {"extend", "link"}

WorkInv == \A t \in Threads :
  /\ pc[t] \in SlotPc => slot[t] \in Slots
  /\ pc[t] \in PiecePc => q[t] \in Piece
  /\ pc[t] = "pop" => q[t] = head[slot[t]]
  /\ pc[t] = "put" => word[q[t]] = head[slot[t]]
  /\ pc[t] = "destruct" =>
       home[q[t][1]] \in Slots /\ word[q[t]] = home[q[t][1]]

(* The block that a thread adds is its own.                                 *)
BlockInv == \A t \in Threads :
  pc[t] \in BlockPc =>
    /\ r[t].block \in Blocks /\ home[r[t].block] = NoSlot
    /\ \A u \in Threads : pc[u] \in BlockPc /\ r[u].block = r[t].block => u = t

IInv == TypeOK /\ LocksInv /\ WorkInv /\ BlockInv
          /\ FreeListsSound /\ Exclusive /\ RefsCounted


LEMMA FreePieces ==
  ASSUME NEW s
  PROVE  Free(s) \subseteq Piece
  BY DEF Free

(* The piece a thread is about to pop heads a list of free pieces.          *)
LEMMA Popped ==
  ASSUME IInv, NEW t \in Threads, pc[t] = "pop"
  PROVE  /\ slot[t] \in Slots /\ q[t] = head[slot[t]] /\ q[t] \in Piece
         /\ q[t] \in Free(slot[t]) /\ q[t] # Null
         /\ word[q[t]] \in Free(slot[t]) \cup {Null}
<1>1. /\ slot[t] \in Slots /\ q[t] = head[slot[t]] /\ q[t] \in Piece
  BY DEF IInv, WorkInv, SlotPc, PiecePc, PcValues
<1>2. q[t] # Null
  BY <1>1, MempoolAssumption
<1>3. q[t] \in Free(slot[t])
  BY <1>1, <1>2 DEF IInv, FreeListsSound
<1>4. QED
  BY <1>1, <1>2, <1>3 DEF IInv, FreeListsSound

-----------------------------------------------------------------------------
(* Every variable keeps its type.                                           *)

LEMMA TypeStep ==
  ASSUME IInv, NEW t \in Threads, Step(t)
  PROVE  TypeOK'
<1> USE DEF TypeOK, PcValues, Go, pool, threads, objects
<1> TypeOK
  BY DEF IInv
<1>1. ASSUME NEW s \in Slots, C_Object_Alloc(t, s) PROVE TypeOK'
  BY <1>1 DEF C_Object_Alloc
<1>2. CASE LockToAlloc(t)
  <2>1. slot[t] \in Slots
    BY <1>2 DEF LockToAlloc, IInv, WorkInv, SlotPc
  <2>2. QED
    BY <1>2, <2>1 DEF LockToAlloc, TryLock
<1>3. CASE ReadHead(t)
  <2>1. slot[t] \in Slots
    BY <1>3 DEF ReadHead, IInv, WorkInv, SlotPc
  <2>2. QED
    BY <1>3, <2>1 DEF ReadHead
<1>4. CASE Extend(t)
  <2>1. PICK b \in Unused : r' = [r EXCEPT ![t] = [block |-> b, seen |-> blocks]]
    BY <1>4 DEF Extend
  <2>2. r' \in [Threads -> [block : Blocks \cup {Null}, seen : Seq(Blocks)]]
    BY <2>1 DEF Unused
  <2>3. QED
    BY <1>4, <2>2 DEF Extend
<1>5. CASE AddBlock(t)
  <2>1. r[t].block \in Blocks /\ r[t].seen \in Seq(Blocks)
    BY <1>5 DEF AddBlock, IInv, BlockInv, BlockPc
  <2>2. Listed(t) \in Seq(Blocks)
    BY <2>1 DEF Listed
  <2>3. QED
    BY <1>5, <2>2 DEF AddBlock
<1>6. CASE LinkPieces(t)
  <2> DEFINE b == r[t].block  s == slot[t]
  <2>1. b \in Blocks /\ s \in Slots
    BY <1>6 DEF LinkPieces, IInv, BlockInv, BlockPc, WorkInv, SlotPc
  <2>2. <<b, PIECES>> \in Piece
    BY <2>1, MempoolAssumption DEF Piece
  <2>3. ASSUME NEW p \in Piece, p[1] = b
        PROVE  LinkedTo(b, p[2], head[s]) \in Piece \cup {Null}
    BY <2>1, <2>3, MempoolAssumption DEF Piece, LinkedTo
  <2>4. word' \in [Piece -> Piece \cup {Null} \cup Slots]
    BY <1>6, <2>3 DEF LinkPieces
  <2>5. r' \in [Threads -> [block : Blocks \cup {Null}, seen : Seq(Blocks)]]
    BY <1>6 DEF LinkPieces, NoBlock
  <2>6. head' \in [Slots -> Piece \cup {Null}] /\ home' \in [Blocks -> Slots \cup {NoSlot}]
    BY <1>6, <2>1, <2>2 DEF LinkPieces
  <2>7. QED
    BY <1>6, <2>4, <2>5, <2>6 DEF LinkPieces
<1>7. CASE OutOfMemory(t)
  BY <1>7 DEF OutOfMemory
<1>8. CASE Pop(t)
  <2>1. word[q[t]] \in Piece \cup {Null} /\ slot[t] \in Slots
    BY <1>8, Popped, FreePieces DEF Pop
  <2>2. QED
    BY <1>8, <2>1 DEF Pop, Unlock
<1>9. CASE Initialize(t)
  <2>1. slot[t] \in Slots /\ q[t] \in Piece
    BY <1>9 DEF Initialize, IInv, WorkInv, SlotPc, PiecePc
  <2>2. PICK x \in Refs : ref' = [ref EXCEPT ![x] = q[t]]
    BY <1>9 DEF Initialize
  <2>3. QED
    BY <1>9, <2>1, <2>2 DEF Initialize
<1>10. ASSUME NEW p \in Piece, Refe(t, p) PROVE TypeOK'
  <2>1. PICK x \in Refs : ref' = [ref EXCEPT ![x] = p]
    BY <1>10 DEF Refe
  <2>2. QED
    BY <1>10, <2>1 DEF Refe
<1>11. ASSUME NEW x \in Refs, Unrefe(t, x) PROVE TypeOK'
  <2>1. ref' \in [Refs -> Piece \cup {Null}] /\ rc' \in [Piece -> Int]
    BY <1>11 DEF Unrefe
  <2>2. ref[x] \in Piece
    BY <1>11 DEF Unrefe
  <2>3. pc' \in [Threads -> PcValues] /\ q' \in [Threads -> Piece \cup {Null}]
    BY <1>11, <2>2 DEF Unrefe
  <2>4. QED
    BY <1>11, <2>1, <2>3 DEF Unrefe
<1>12. CASE Object_Destruct(t)
  <2>1. word[q[t]] \in Slots
    BY <1>12 DEF Object_Destruct, IInv, WorkInv
  <2>2. QED
    BY <1>12, <2>1 DEF Object_Destruct
<1>13. CASE LockToFree(t)
  <2>1. slot[t] \in Slots
    BY <1>13 DEF LockToFree, IInv, WorkInv, SlotPc
  <2>2. QED
    BY <1>13, <2>1 DEF LockToFree, TryLock
<1>14. CASE Chain(t)
  <2>1. slot[t] \in Slots
    BY <1>14 DEF Chain, IInv, WorkInv, SlotPc
  <2>2. QED
    BY <1>14, <2>1 DEF Chain
<1>15. CASE Put(t)
  <2>1. slot[t] \in Slots /\ q[t] \in Piece
    BY <1>15 DEF Put, IInv, WorkInv, SlotPc, PiecePc
  <2>2. QED
    BY <1>15, <2>1 DEF Put, Unlock
<1>16. QED
  BY <1>1, <1>2, <1>3, <1>4, <1>5, <1>6, <1>7, <1>8, <1>9, <1>10, <1>11, <1>12,
     <1>13, <1>14, <1>15 DEF Step

-----------------------------------------------------------------------------
(* The spin lock excludes.                                                  *)

LEMMA LocksStep ==
  ASSUME IInv, NEW t \in Threads, Step(t)
  PROVE  LocksInv'
<1> USE DEF LocksInv, Crit, TypeOK, Go, pool, threads, objects
<1> TypeOK /\ LocksInv
  BY DEF IInv
<1>0. pc[t] \in SlotPc => slot[t] \in Slots
  BY DEF IInv, WorkInv
<1>1. ASSUME NEW s \in Slots, C_Object_Alloc(t, s) PROVE LocksInv'
  BY <1>1 DEF C_Object_Alloc
<1>2. CASE LockToAlloc(t) \/ LockToFree(t)
  <2>1. slot[t] \in Slots /\ spin[slot[t]] = 0 /\ slot' = slot
    BY <1>0, <1>2 DEF LockToAlloc, LockToFree, TryLock, SlotPc, PcValues
  <2>2. \A u \in Threads : pc[u] \in Crit => slot[u] # slot[t]
    BY <2>1
  <2>3. spin' = [spin EXCEPT ![slot[t]] = 1]
    BY <1>2 DEF LockToAlloc, LockToFree, TryLock
  <2>4. \A u \in Threads : u # t => pc'[u] = pc[u]
    BY <1>2 DEF LockToAlloc, LockToFree
  <2>5. spin' \in [Slots -> {0, 1}] /\ spin'[slot[t]] = 1
    BY <2>1, <2>3
  <2>6. \A u \in Threads : u # t => spin'[slot[u]] = spin[slot[u]] \/ slot[u] = slot[t]
    BY <2>3
  <2>7. \A u \in Threads : pc'[u] \in Crit => spin'[slot'[u]] = 1
    BY <2>1, <2>2, <2>4, <2>5, <2>6
  <2>8. \A u, v \in Threads :
          pc'[u] \in Crit /\ pc'[v] \in Crit /\ slot'[u] = slot'[v] => u = v
    <3>1. ASSUME NEW u \in Threads, NEW v \in Threads, pc'[u] \in Crit, pc'[v] \in Crit,
                 slot[u] = slot[v], u # v
          PROVE  FALSE
      <4>1. CASE u # t /\ v # t
        BY <2>4, <3>1, <4>1
      <4>2. CASE u = t
        BY <2>2, <2>4, <3>1, <4>2
      <4>3. CASE v = t
        BY <2>2, <2>4, <3>1, <4>3
      <4>4. QED
        BY <4>1, <4>2, <4>3
    <3>2. QED
      BY <2>1, <3>1
  <2>9. QED
    BY <2>5, <2>7, <2>8
<1>3. CASE ReadHead(t) \/ Extend(t) \/ AddBlock(t) \/ LinkPieces(t) \/ Chain(t) \/ OutOfMemory(t)
  <2>1. spin' = spin /\ slot' = slot /\ pc[t] \in Crit
    BY <1>3 DEF ReadHead, Extend, AddBlock, LinkPieces, Chain, OutOfMemory
  <2>2. \A u \in Threads : u # t => pc'[u] = pc[u]
    BY <1>3 DEF ReadHead, Extend, AddBlock, LinkPieces, Chain, OutOfMemory
  <2>3. QED
    BY <2>1, <2>2
<1>4. CASE Pop(t) \/ Put(t)
  <2>1. pc[t] \in Crit /\ pc'[t] \notin Crit /\ spin' = [spin EXCEPT ![slot[t]] = @ - 1]
    BY <1>4 DEF Pop, Put, Unlock
  <2>2. slot[t] \in Slots /\ spin[slot[t]] = 1
    BY <1>0, <1>4 DEF Pop, Put, SlotPc, PcValues
  <2>3. \A u \in Threads : u # t => pc'[u] = pc[u] /\ slot'[u] = slot[u]
    BY <1>4 DEF Pop, Put
  <2>4. \A u \in Threads : u # t /\ pc[u] \in Crit => slot[u] # slot[t]
    BY <2>1
  <2>5. spin' \in [Slots -> {0, 1}]
    BY <2>1, <2>2
  <2>6. \A u \in Threads : slot[u] # slot[t] => spin'[slot[u]] = spin[slot[u]]
    BY <2>1
  <2>7. ASSUME NEW u \in Threads, pc'[u] \in Crit PROVE spin'[slot'[u]] = 1
    BY <2>1, <2>3, <2>4, <2>6, <2>7
  <2>8. ASSUME NEW u \in Threads, NEW v \in Threads, pc'[u] \in Crit, pc'[v] \in Crit,
               slot'[u] = slot'[v]
        PROVE  u = v
    BY <2>1, <2>3, <2>8
  <2>9. QED
    BY <2>5, <2>7, <2>8
<1>5. CASE Initialize(t)
  BY <1>5 DEF Initialize
<1>6. ASSUME NEW p \in Piece, Refe(t, p) PROVE LocksInv'
  BY <1>6 DEF Refe
<1>7. ASSUME NEW x \in Refs, Unrefe(t, x) PROVE LocksInv'
  BY <1>7 DEF Unrefe
<1>8. CASE Object_Destruct(t)
  BY <1>8 DEF Object_Destruct
<1>9. QED
  BY <1>1, <1>2, <1>3, <1>4, <1>5, <1>6, <1>7, <1>8 DEF Step

-----------------------------------------------------------------------------
(* What a step of one thread leaves to the others.                          *)

LEMMA OthersStay ==
  ASSUME TypeOK, NEW t \in Threads, Step(t), NEW u \in Threads, u # t
  PROVE  pc'[u] = pc[u] /\ slot'[u] = slot[u] /\ q'[u] = q[u] /\ r'[u] = r[u]
  BY DEF Step, TypeOK, Go, pool, threads, objects, C_Object_Alloc, LockToAlloc, ReadHead, Extend, AddBlock, LinkPieces, OutOfMemory, Pop, Initialize, Refe, Unrefe, Object_Destruct, LockToFree, Chain, Put

(* The head of a list changes under the spin lock of the slot only.         *)
LEMMA HeadStays ==
  ASSUME IInv, NEW t \in Threads, Step(t),
         NEW u \in Threads, u # t, pc[u] \in Crit
  PROVE  head'[slot[u]] = head[slot[u]]
<1> USE DEF TypeOK, Go, pool, threads, objects
<1> TypeOK
  BY DEF IInv
<1>1. pc[t] \in Crit => slot[t] # slot[u]
  BY DEF IInv, LocksInv
<1>2. CASE LinkPieces(t) \/ Pop(t) \/ Put(t)
  <2>1. slot[u] \in Slots
    BY DEF IInv, WorkInv, SlotPc, PcValues, Crit
  <2>2. pc[t] \in Crit /\ \E v : head' = [head EXCEPT ![slot[t]] = v]
    BY <1>2 DEF LinkPieces, Pop, Put, Crit
  <2>3. QED
    BY <1>1, <2>1, <2>2
<1>3. CASE head' = head
  BY <1>3
<1>4. QED
  BY <1>2, <1>3 DEF Step, C_Object_Alloc, LockToAlloc, ReadHead, Extend, AddBlock, OutOfMemory, Initialize, Refe, Unrefe, Object_Destruct, LockToFree, Chain

(* The piece that another thread has stays as it is.                        *)
LEMMA OwnedStays ==
  ASSUME IInv, NEW t \in Threads, Step(t), NEW u \in Threads, u # t, Own(u)
  PROVE  word'[q[u]] = word[q[u]] /\ home'[q[u][1]] = home[q[u][1]]
<1> USE DEF TypeOK, Go, pool, threads, objects
<1> TypeOK
  BY DEF IInv
<1>1. q[u] \in Piece /\ q[u][1] \in Blocks /\ home[q[u][1]] \in Slots
  BY DEF IInv, Exclusive, WorkInv, Own, SlotPc, PcValues, Piece
<1>2. home[q[u][1]] # NoSlot
  BY <1>1, MempoolAssumption
<1>3. Own(t) => q[t] # q[u]
  BY DEF IInv, Exclusive
<1>4. CASE LinkPieces(t)
  <2>1. q[u][1] # r[t].block
    BY <1>2, <1>4 DEF LinkPieces, IInv, BlockInv, BlockPc
  <2>2. QED
    BY <1>1, <1>4, <2>1 DEF LinkPieces
<1>5. CASE Initialize(t) \/ Chain(t)
  BY <1>1, <1>3, <1>5 DEF Initialize, Chain, Own
<1>6. CASE word' = word /\ home' = home
  BY <1>6
<1>7. QED
  BY <1>4, <1>5, <1>6 DEF Step, C_Object_Alloc, LockToAlloc, ReadHead, Extend, AddBlock, OutOfMemory, Pop, Refe, Unrefe, Object_Destruct, LockToFree, Put

-----------------------------------------------------------------------------
(* What a thread has seen stays so, and a block that it adds is its own.    *)

LEMMA WorkStep ==
  ASSUME IInv, NEW t \in Threads, Step(t)
  PROVE  WorkInv'
<1> USE DEF TypeOK, PcValues, Go, pool, threads, objects, SlotPc, PiecePc
<1> TypeOK
  BY DEF IInv
<1> DEFINE Good(u) ==
  /\ pc[u] \in SlotPc => slot[u] \in Slots
  /\ pc[u] \in PiecePc => q[u] \in Piece
  /\ pc[u] = "pop" => q[u] = head[slot[u]]
  /\ pc[u] = "put" => word[q[u]] = head[slot[u]]
  /\ pc[u] = "destruct" =>
       home[q[u][1]] \in Slots /\ word[q[u]] = home[q[u][1]]
<1>1. Good(t) /\ \A u \in Threads : Good(u)
  BY DEF IInv, WorkInv
<1>2. ASSUME NEW u \in Threads, u # t PROVE Good(u)'
  <2>1. pc'[u] = pc[u] /\ slot'[u] = slot[u] /\ q'[u] = q[u]
    BY <1>2, OthersStay
  <2>2. pc[u] \in {"pop", "put"} => head'[slot[u]] = head[slot[u]]
    BY <1>2, HeadStays DEF Crit
  <2>3. pc[u] \in {"put", "destruct"} =>
          word'[q[u]] = word[q[u]] /\ home'[q[u][1]] = home[q[u][1]]
    BY <1>2, OwnedStays DEF Own
  <2>4. QED
    BY <1>1, <2>1, <2>2, <2>3
<1>3. Good(t)'
  <2>1. ASSUME NEW s \in Slots, C_Object_Alloc(t, s) PROVE Good(t)'
    BY <2>1 DEF C_Object_Alloc
  <2>2. CASE LockToAlloc(t) \/ LockToFree(t)
    BY <1>1, <2>2 DEF LockToAlloc, LockToFree
  <2>3. CASE ReadHead(t)
    BY <1>1, <2>3 DEF ReadHead
  <2>4. CASE Extend(t) \/ AddBlock(t) \/ LinkPieces(t) \/ OutOfMemory(t)
    BY <1>1, <2>4 DEF Extend, AddBlock, LinkPieces, OutOfMemory
  <2>5. CASE Pop(t)
    BY <1>1, <2>5 DEF Pop
  <2>6. CASE Initialize(t) \/ Put(t)
    BY <2>6 DEF Initialize, Put
  <2>7. ASSUME NEW p \in Piece, Refe(t, p) PROVE Good(t)'
    BY <2>7 DEF Refe
  <2>8. ASSUME NEW x \in Refs, Unrefe(t, x) PROVE Good(t)'
    <3>1. ref[x] \in Piece /\ Live(ref[x])
      BY <2>8 DEF Unrefe, Live
    <3>2. home[ref[x][1]] \in Slots /\ word[ref[x]] = home[ref[x][1]]
      BY <3>1 DEF IInv, RefsCounted
    <3>3. pc'[t] = "idle" \/ (pc'[t] = "destruct" /\ q'[t] = ref[x])
      BY <2>8 DEF Unrefe
    <3>4. word' = word /\ home' = home
      BY <2>8 DEF Unrefe
    <3>5. QED
      BY <3>1, <3>2, <3>3, <3>4
  <2>9. CASE Object_Destruct(t)
    BY <1>1, <2>9 DEF Object_Destruct
  <2>10. CASE Chain(t)
    BY <1>1, <2>10 DEF Chain
  <2>11. QED
    BY <2>1, <2>2, <2>3, <2>4, <2>5, <2>6, <2>7, <2>8, <2>9, <2>10 DEF Step
<1>4. QED
  BY <1>2, <1>3 DEF WorkInv

LEMMA BlockStep ==
  ASSUME IInv, NEW t \in Threads, Step(t)
  PROVE  BlockInv'
<1> USE DEF TypeOK, Go, pool, threads, objects, BlockPc, BlockInv
<1> TypeOK /\ BlockInv
  BY DEF IInv
<1>1. \A u \in Threads : u # t => pc'[u] = pc[u] /\ r'[u] = r[u]
  BY OthersStay
<1>2. CASE Extend(t)
  <2>1. PICK b \in Unused : r' = [r EXCEPT ![t] = [block |-> b, seen |-> blocks]]
    BY <1>2 DEF Extend
  <2>2. b \in Blocks /\ home[b] = NoSlot /\ \A u \in Threads : r[u].block # b
    BY DEF Unused
  <2>3. r'[t].block = b /\ home' = home
    BY <1>2, <2>1 DEF Extend
  <2>4. r'[t].block \in Blocks /\ home'[r'[t].block] = NoSlot
    BY <2>2, <2>3
  <2>5. \A u \in Threads : u # t => r'[u].block # r'[t].block
    BY <1>1, <2>2, <2>3
  <2>6. \A u \in Threads : u # t /\ pc'[u] \in BlockPc =>
          /\ r'[u].block \in Blocks /\ home'[r'[u].block] = NoSlot
          /\ \A v \in Threads :
               v # t /\ pc'[v] \in BlockPc /\ r'[v].block = r'[u].block => v = u
    BY <1>1, <2>3
  <2>7. QED
    BY <2>4, <2>5, <2>6
<1>3. CASE LinkPieces(t)
  <2>1. pc[t] = "link" /\ pc'[t] = "head" /\ home' = [home EXCEPT ![r[t].block] = slot[t]]
    BY <1>3 DEF LinkPieces
  <2>2. \A u \in Threads : u # t /\ pc[u] \in BlockPc => r[u].block # r[t].block
    BY <2>1
  <2>3. QED
    BY <1>1, <2>1, <2>2
<1>4. CASE /\ home' = home /\ r' = r
           /\ pc'[t] \in BlockPc => pc[t] \in BlockPc
  BY <1>1, <1>4
<1>5. QED
  BY <1>2, <1>3, <1>4 DEF Step, C_Object_Alloc, LockToAlloc, ReadHead, AddBlock, OutOfMemory, Pop, Initialize, Refe, Unrefe, Object_Destruct, LockToFree, Chain, Put

-----------------------------------------------------------------------------
(* Counting references.                                                     *)

Refers(p) == {x \in Refs : ref[x] = p}

LEMMA RefersCount ==
  ASSUME NEW S \in SUBSET Refs, NEW x \in Refs
  PROVE  /\ Cardinality(S) \in Nat /\ Cardinality(S) < RCWRAP
         /\ Cardinality(S) = 0 <=> S = {}
         /\ x \notin S => Cardinality(S \cup {x}) = Cardinality(S) + 1
         /\ x \in S => Cardinality(S \ {x}) = Cardinality(S) - 1
<1>1. IsFiniteSet(S) /\ Cardinality(S) <= Cardinality(Refs)
  BY MempoolAssumption, FS_Subset
<1>2. Cardinality(S) \in Nat /\ Cardinality(Refs) \in Nat
  BY <1>1, MempoolAssumption, FS_CardinalityType
<1>3. Cardinality(S) < RCWRAP
  BY <1>1, <1>2, MempoolAssumption
<1>4. QED
  BY <1>1, <1>2, <1>3, FS_EmptySet, FS_AddElement, FS_RemoveElement

LEMMA SmallMod ==
  ASSUME NEW n \in Nat, NEW w \in Nat, n < w
  PROVE  n % w = n
  OBVIOUS

(* __Unrefe destroys an object exactly when it drops the last reference.    *)
LEMMA LastGoes ==
  ASSUME IInv, NEW t \in Threads, NEW x \in Refs, Unrefe(t, x), NEW p, p = ref[x]
  PROVE  /\ p \in Piece /\ Live(p)
         /\ Refers(p)' = Refers(p) \ {x} /\ x \in Refers(p)
         /\ rc[p] = Cardinality(Refers(p))
         /\ LastOne(rc[p] - 1) <=> Refers(p)' = {}
<1> USE DEF TypeOK
<1> TypeOK
  BY DEF IInv
<1>1. p \in Piece /\ Live(p) /\ x \in Refers(p) /\ Refers(p) \in SUBSET Refs
  BY DEF Live, Refers, Unrefe
<1>2. p # Null /\ ref' = [ref EXCEPT ![x] = Null]
  BY DEF Unrefe
<1>3. \A y \in Refs : ref'[y] = p <=> ref[y] = p /\ y # x
  BY <1>2
<1>4. Refers(p)' = Refers(p) \ {x}
  BY <1>3 DEF Refers
<1>5. rc[p] = Cardinality(Refers(p))
  BY <1>1 DEF IInv, RefsCounted, Count, Refers
<1>6. rc[p] - 1 = Cardinality(Refers(p) \ {x})
  <2>1. Cardinality(Refers(p) \ {x}) = Cardinality(Refers(p)) - 1
    BY <1>1, RefersCount
  <2>2. QED
    BY <1>5, <2>1
<1>7. Refers(p) \ {x} \in SUBSET Refs
  BY <1>1
<1>8. /\ rc[p] - 1 \in Nat /\ rc[p] - 1 < RCWRAP
      /\ rc[p] - 1 = 0 <=> Refers(p) \ {x} = {}
  BY <1>6, <1>7, RefersCount
<1>9. (rc[p] - 1) % RCWRAP = rc[p] - 1
  BY <1>8, SmallMod, MempoolAssumption
<1>10. LastOne(rc[p] - 1) <=> rc[p] - 1 = 0
  BY <1>9 DEF LastOne
<1>11. QED
  BY <1>1, <1>4, <1>5, <1>8, <1>10

-----------------------------------------------------------------------------
(* Which pieces are in use, by an object or by a thread.                    *)

Busy(p) == Live(p) \/ Owned(p)

LEMMA BusyQuiet ==
  ASSUME IInv, NEW t \in Threads, Step(t), ~Pop(t), ~Put(t), NEW p \in Piece
  PROVE  Busy(p)' <=> Busy(p)
<1> USE DEF TypeOK, Go, pool, threads, objects
<1> TypeOK
  BY DEF IInv
<1>0. \A u \in Threads : u # t => pc'[u] = pc[u] /\ q'[u] = q[u]
  BY OthersStay
<1>1. CASE Initialize(t)
  <2>1. /\ pc[t] = "new" /\ pc'[t] = "idle" /\ q[t] \in Piece
        /\ \E x \in Refs : ref[x] = Null /\ ref' = [ref EXCEPT ![x] = q[t]]
    BY <1>1 DEF Initialize, IInv, WorkInv, PiecePc
  <2>2. \A y \in Piece : Live(y)' <=> Live(y) \/ y = q[t]
    BY <2>1, MempoolAssumption DEF Live
  <2>3. \A y : Owned(y) <=> Owned(y)' \/ y = q[t]
    BY <1>0, <2>1 DEF Owned, Own, IInv, Exclusive
  <2>4. QED
    BY <2>2, <2>3 DEF Busy
<1>2. ASSUME NEW x \in Refs, Unrefe(t, x) PROVE Busy(p)' <=> Busy(p)
  <2> PICK o : o = ref[x]
    OBVIOUS
  <2>1. /\ o \in Piece /\ Live(o) /\ pc[t] = "idle"
        /\ ref' = [ref EXCEPT ![x] = Null]
    BY <1>2, LastGoes DEF Unrefe
  <2>2. \A y \in Piece : y # o => (Live(y)' <=> Live(y))
    BY <2>1, MempoolAssumption DEF Live
  <2>3. CASE LastOne(rc[o] - 1)
    <3>1. pc'[t] = "destruct" /\ q'[t] = o
      BY <1>2, <2>3 DEF Unrefe
    <3>2. \A y \in Piece : Owned(y)' <=> Owned(y) \/ y = o
      BY <1>0, <2>1, <3>1 DEF Owned, Own
    <3>3. QED
      BY <2>1, <2>2, <3>2 DEF Busy
  <2>4. CASE ~LastOne(rc[o] - 1)
    <3>1. pc' = pc /\ q' = q
      BY <1>2, <2>4 DEF Unrefe
    <3>2. \A y : Owned(y)' <=> Owned(y)
      BY <3>1 DEF Owned, Own
    <3>3. Refers(o)' # {}
      BY <1>2, <2>4, LastGoes
    <3>4. \E y \in Refs : ref'[y] = o
      BY <3>3 DEF Refers
    <3>5. QED
      BY <2>1, <2>2, <3>2, <3>4 DEF Busy, Live
  <2>5. QED
    BY <2>3, <2>4
<1>3. ASSUME NEW o \in Piece, Refe(t, o) PROVE Busy(p)' <=> Busy(p)
  <2>1. Live(o) /\ pc' = pc /\ q' = q
        /\ \E x \in Refs : ref[x] = Null /\ ref' = [ref EXCEPT ![x] = o]
    BY <1>3 DEF Refe
  <2>2. \A y \in Piece : Live(y)' <=> Live(y)
    BY <2>1, MempoolAssumption DEF Live
  <2>3. QED
    BY <2>1, <2>2 DEF Busy, Owned, Own
<1>4. CASE /\ ref' = ref
           /\ Own(t)' <=> Own(t)
           /\ Own(t) => q'[t] = q[t]
  <2>1. \A u \in Threads : (Own(u)' <=> Own(u)) /\ (Own(u) => q'[u] = q[u])
    BY <1>0, <1>4 DEF Own
  <2>2. QED
    BY <1>4, <2>1 DEF Busy, Live, Owned
<1>5. QED
  BY <1>1, <1>2, <1>3, <1>4 DEF Step, Own, C_Object_Alloc, LockToAlloc, ReadHead, Extend, AddBlock, LinkPieces, OutOfMemory, Object_Destruct, LockToFree, Chain

LEMMA BusyPop ==
  ASSUME IInv, NEW t \in Threads, Step(t), Pop(t), NEW p \in Piece
  PROVE  Busy(p)' <=> Busy(p) \/ p = q[t]
<1>1. \A u \in Threads : u # t => pc'[u] = pc[u]
  BY OthersStay DEF IInv
<1>2. pc[t] = "pop" /\ pc'[t] = "new" /\ q' = q /\ ref' = ref
  BY DEF Pop, Go, objects, IInv, TypeOK
<1>3. QED
  BY <1>1, <1>2 DEF Busy, Live, Owned, Own

LEMMA BusyPut ==
  ASSUME IInv, NEW t \in Threads, Step(t), Put(t), NEW p \in Piece
  PROVE  Busy(p)' <=> Busy(p) /\ p # q[t]
<1>1. \A u \in Threads : u # t => pc'[u] = pc[u] /\ q'[u] = q[u]
  BY OthersStay DEF IInv
<1>2. pc[t] = "put" /\ pc'[t] = "idle" /\ ref' = ref
  BY DEF Put, Go, objects, IInv, TypeOK
<1>3. ~Live(q[t]) /\ \A u \in Threads : Own(u) /\ q[u] = q[t] => u = t
  BY <1>2 DEF IInv, Exclusive, Own
<1>4. Owned(p)' <=> Owned(p) /\ p # q[t]
  BY <1>1, <1>2, <1>3 DEF Owned, Own
<1>5. QED
  BY <1>2, <1>3, <1>4 DEF Busy, Live

-----------------------------------------------------------------------------
(* The free lists.                                                          *)

(* What taking the head off a list, and putting a piece before it, do to    *)
(* the free pieces.                                                         *)
OthersKeep(z) ==
  \A s \in Slots \ {z} : Free(s)' = Free(s) /\ head'[s] = head[s]

TakesHead(z, o) ==
  /\ o \in Free(z) /\ head[z] = o /\ o # Null /\ word[o] \in Free(z) \cup {Null}
  /\ word' = word /\ head'[z] = word[o] /\ Free(z)' = Free(z) \ {o}
  /\ OthersKeep(z)

PutsHead(z, o) ==
  /\ o \notin Free(z) /\ o # Null /\ word[o] = head[z]
  /\ word' = word /\ head'[z] = o /\ Free(z)' = Free(z) \cup {o}
  /\ OthersKeep(z)

LEMMA PopLists ==
  ASSUME IInv, NEW t \in Threads, Step(t), Pop(t)
  PROVE  \E z \in Slots, o \in Piece : TakesHead(z, o)
<1> PICK o, z : o = q[t] /\ z = slot[t]
  OBVIOUS
<1> PICK w : w = word[o]
  OBVIOUS
<1>1. /\ pc[t] = "pop" /\ home' = home /\ word' = word
      /\ head' = [head EXCEPT ![z] = w]
  BY DEF Pop, Go
<1>2. /\ z \in Slots /\ o = head[z] /\ o \in Piece /\ o \in Free(z) /\ o # Null
      /\ w \in Free(z) \cup {Null}
  BY <1>1, Popped
<1>3. \A p \in Piece : Busy(p)' <=> Busy(p) \/ p = o
  BY BusyPop
<1>4. \A s : Free(s)' = Free(s) \ {o}
  BY <1>1, <1>3 DEF Free, Busy
<1>5. \A s \in Slots : s # z => o \notin Free(s)
  BY <1>2 DEF Free
<1>6. head'[z] = w /\ \A s \in Slots : s # z => head'[s] = head[s]
  BY <1>1, <1>2 DEF IInv, TypeOK
<1>7. QED
  BY <1>1, <1>2, <1>4, <1>5, <1>6 DEF TakesHead, OthersKeep

LEMMA PutLists ==
  ASSUME IInv, NEW t \in Threads, Step(t), Put(t)
  PROVE  \E z \in Slots, o \in Piece : PutsHead(z, o)
<1> PICK o, z : o = q[t] /\ z = slot[t]
  OBVIOUS
<1>1. /\ pc[t] = "put" /\ home' = home /\ word' = word
      /\ head' = [head EXCEPT ![z] = o]
  BY DEF Put, Go
<1>2. /\ z \in Slots /\ o \in Piece /\ o # Null /\ word[o] = head[z] /\ home[o[1]] = z
  BY <1>1, MempoolAssumption
  DEF IInv, WorkInv, SlotPc, PiecePc, PcValues, Exclusive, Own
<1>3. \A p \in Piece : Busy(p)' <=> Busy(p) /\ p # o
  BY BusyPut
<1>4. Busy(o)
  BY <1>1 DEF Busy, Owned, Own
<1>5. /\ Free(z)' = Free(z) \cup {o} /\ o \notin Free(z)
      /\ \A s \in Slots : s # z => Free(s)' = Free(s)
  BY <1>1, <1>2, <1>3, <1>4 DEF Free, Busy
<1>6. head'[z] = o /\ \A s \in Slots : s # z => head'[s] = head[s]
  BY <1>1, <1>2 DEF IInv, TypeOK
<1>7. QED
  BY <1>1, <1>2, <1>5, <1>6 DEF PutsHead, OthersKeep

LEMMA FreePop ==
  ASSUME IInv, NEW t \in Threads, Step(t), Pop(t)
  PROVE  FreeListsSound'
<1>0. PICK z \in Slots, o \in Piece : TakesHead(z, o)
  BY PopLists
<1>1. /\ o \in Free(z) /\ head[z] = o /\ o # Null /\ word[o] \in Free(z) \cup {Null}
      /\ word' = word /\ head'[z] = word[o] /\ Free(z)' = Free(z) \ {o}
      /\ \A s \in Slots \ {z} : Free(s)' = Free(s) /\ head'[s] = head[s]
  BY <1>0 DEF TakesHead, OthersKeep
<1> PICK w : w = word[o]
  OBVIOUS
<1>2. \A p \in Free(z) : word[p] # o
  BY <1>1 DEF IInv, FreeListsSound
<1>3. \A p \in Free(z) \ {o} : word[p] # Null => word[p] # w
  BY <1>1 DEF IInv, FreeListsSound
<1>4. w # o
  BY <1>1, <1>2
<1>5. ASSUME NEW s \in Slots
      PROVE  /\ head'[s] \in Free(s)' \cup {Null}
             /\ \A p \in Free(s)' : word'[p] \in Free(s)' \cup {Null}
             /\ \A p \in Free(s)' : word'[p] # Null => word'[p] # head'[s]
             /\ \A p, p1 \in Free(s)' :
                  word'[p] # Null /\ word'[p] = word'[p1] => p = p1
  <2>1. CASE s = z
    BY <1>1, <1>2, <1>3, <1>4, <2>1 DEF IInv, FreeListsSound
  <2>2. CASE s # z
    BY <1>1, <2>2 DEF IInv, FreeListsSound
  <2>3. QED
    BY <2>1, <2>2
<1>6. QED
  BY <1>5 DEF FreeListsSound

LEMMA FreePut ==
  ASSUME IInv, NEW t \in Threads, Step(t), Put(t)
  PROVE  FreeListsSound'
<1>0. PICK z \in Slots, o \in Piece : PutsHead(z, o)
  BY PutLists
<1>1. /\ o \notin Free(z) /\ o # Null /\ word[o] = head[z]
      /\ word' = word /\ head'[z] = o /\ Free(z)' = Free(z) \cup {o}
      /\ \A s \in Slots \ {z} : Free(s)' = Free(s) /\ head'[s] = head[s]
  BY <1>0 DEF PutsHead, OthersKeep
<1>2. /\ head[z] \in Free(z) \cup {Null}
      /\ \A p \in Free(z) : word[p] \in Free(z) \cup {Null}
      /\ \A p \in Free(z) : word[p] # Null => word[p] # head[z]
      /\ \A p, p1 \in Free(z) : word[p] # Null /\ word[p] = word[p1] => p = p1
  BY DEF IInv, FreeListsSound
<1>3. ASSUME NEW s \in Slots
      PROVE  /\ head'[s] \in Free(s)' \cup {Null}
             /\ \A p \in Free(s)' : word'[p] \in Free(s)' \cup {Null}
             /\ \A p \in Free(s)' : word'[p] # Null => word'[p] # head'[s]
             /\ \A p, p1 \in Free(s)' :
                  word'[p] # Null /\ word'[p] = word'[p1] => p = p1
  <2>1. CASE s = z
    BY <1>1, <1>2, <2>1
  <2>2. CASE s # z
    BY <1>1, <2>2 DEF IInv, FreeListsSound
  <2>3. QED
    BY <2>1, <2>2
<1>4. QED
  BY <1>3 DEF FreeListsSound

(* The pieces of the new block form a chain that ends in the old list.      *)
AddsChain(z, b) ==
  /\ \A p \in Piece : p[1] = b => p = <<b, p[2]>> /\ p[2] \in 1..PIECES
  /\ \A k \in 1..PIECES : <<b, k>> \in Piece /\ <<b, k>>[1] = b
  /\ \A s \in Slots : \A p \in Free(s) : p[1] # b /\ word'[p] = word[p]
  /\ head'[z] = <<b, PIECES>> /\ Free(z)' = Free(z) \cup {p \in Piece : p[1] = b}
  /\ word'[<<b, 1>>] = head[z]
  /\ \A k \in 2..PIECES : word'[<<b, k>>] = <<b, k - 1>>
  /\ OthersKeep(z)

LEMMA LinkLists ==
  ASSUME IInv, NEW t \in Threads, Step(t), LinkPieces(t)
  PROVE  \E z \in Slots, b \in Blocks : AddsChain(z, b)
<1> PICK b, z : b = r[t].block /\ z = slot[t]
  OBVIOUS
<1> PICK old : old = head[z]
  OBVIOUS
<1>1. /\ pc[t] = "link" /\ home' = [home EXCEPT ![b] = z]
      /\ word' = [p \in Piece |-> IF p[1] = b THEN LinkedTo(b, p[2], old) ELSE word[p]]
      /\ head' = [head EXCEPT ![z] = <<b, PIECES>>]
  BY DEF LinkPieces, Go
<1>2. z \in Slots /\ b \in Blocks /\ home[b] = NoSlot
  BY <1>1 DEF IInv, WorkInv, BlockInv, SlotPc, BlockPc, PcValues
<1>3. \A p \in Piece : p = <<p[1], p[2]>> /\ p[1] \in Blocks /\ p[2] \in 1..PIECES
  BY DEF Piece
<1>4. \A k \in 1..PIECES : <<b, k>> \in Piece
  BY <1>2 DEF Piece
<1>5. \A p \in Piece : Busy(p)' <=> Busy(p)
  BY <1>1, BusyQuiet DEF Pop, Put, Go
<1>6. \A p \in Piece : p[1] = b => ~Busy(p)
  BY <1>1, <1>2, MempoolAssumption
  DEF IInv, Exclusive, WorkInv, RefsCounted, Busy, Owned, Own, SlotPc, PcValues
<1>7. \A p \in Piece : home'[p[1]] = IF p[1] = b THEN z ELSE home[p[1]]
  BY <1>1, <1>2, <1>3 DEF IInv, TypeOK
<1>8. /\ Free(z)' = Free(z) \cup {p \in Piece : p[1] = b}
      /\ \A s \in Slots : s # z => Free(s)' = Free(s)
  BY <1>2, <1>5, <1>6, <1>7, MempoolAssumption DEF Free, Busy
<1>9. \A s \in Slots : \A p \in Free(s) : p[1] # b /\ word'[p] = word[p]
  BY <1>1, <1>2, MempoolAssumption DEF Free
<1>10. head'[z] = <<b, PIECES>> /\ \A s \in Slots : s # z => head'[s] = head[s]
  BY <1>1, <1>2 DEF IInv, TypeOK
<1>11. PIECES \in 1..PIECES /\ <<b, PIECES>> \in Free(z)'
  BY <1>4, <1>8, MempoolAssumption
<1>12. 1 \in 1..PIECES /\ \A k \in 1..PIECES : <<b, k>>[1] = b /\ <<b, k>>[2] = k
  BY MempoolAssumption
<1>13. word'[<<b, 1>>] = old
  BY <1>1, <1>4, <1>12 DEF LinkedTo
<1>14. ASSUME NEW k \in 2..PIECES PROVE word'[<<b, k>>] = <<b, k - 1>>
  <2>1. k \in 1..PIECES /\ k # 1
    BY MempoolAssumption
  <2> QED
    BY <1>1, <1>4, <1>12, <2>1 DEF LinkedTo
<1>15. QED
  BY <1>2, <1>3, <1>4, <1>8, <1>9, <1>10, <1>12, <1>13, <1>14 DEF AddsChain, OthersKeep

LEMMA FreeLink ==
  ASSUME IInv, NEW t \in Threads, Step(t), LinkPieces(t)
  PROVE  FreeListsSound'
<1>1. PICK z \in Slots, b \in Blocks : AddsChain(z, b)
  BY LinkLists
<1> PICK old : old = head[z]
  OBVIOUS
<1>2. z \in Slots
  BY <1>1
<1>3. \A p \in Piece : p[1] = b => p = <<b, p[2]>> /\ p[2] \in 1..PIECES
  BY <1>1 DEF AddsChain
<1>4. \A k \in 1..PIECES : <<b, k>> \in Piece /\ <<b, k>>[1] = b
  BY <1>1 DEF AddsChain
<1>5. /\ Free(z)' = Free(z) \cup {p \in Piece : p[1] = b}
      /\ \A s \in Slots : s # z => Free(s)' = Free(s)
  BY <1>1 DEF AddsChain, OthersKeep
<1>6. \A s \in Slots : \A p \in Free(s) : p[1] # b /\ word'[p] = word[p]
  BY <1>1 DEF AddsChain
<1>7. head'[z] = <<b, PIECES>> /\ \A s \in Slots : s # z => head'[s] = head[s]
  BY <1>1 DEF AddsChain, OthersKeep
<1>8. PIECES \in 1..PIECES /\ <<b, PIECES>> \in Free(z)'
  BY <1>4, <1>5, MempoolAssumption
<1>9.  /\ old \in Free(z) \cup {Null}
       /\ \A p \in Free(z) : word[p] \in Free(z) \cup {Null}
       /\ \A p \in Free(z) : word[p] # Null => word[p] # old
       /\ \A p, p1 \in Free(z) : word[p] # Null /\ word[p] = word[p1] => p = p1
  BY <1>2 DEF IInv, FreeListsSound
<1>10. ASSUME NEW p \in Piece, p[1] = b
       PROVE  \/ p[2] = 1 /\ word'[p] = old
              \/ p[2] # 1 /\ p[2] - 1 \in 1..PIECES /\ word'[p] = <<b, p[2] - 1>>
  <2>1. p = <<b, p[2]>> /\ p[2] \in 1..PIECES
    BY <1>3, <1>10
  <2>2. CASE p[2] = 1
    BY <1>1, <2>1, <2>2 DEF AddsChain
  <2>3. CASE p[2] # 1
    <3>1. p[2] \in 2..PIECES /\ p[2] - 1 \in 1..PIECES
      BY <2>1, <2>3, MempoolAssumption
    <3>2. word'[<<b, p[2]>>] = <<b, p[2] - 1>>
      BY <1>1, <3>1 DEF AddsChain
    <3> QED
      BY <2>1, <2>3, <3>1, <3>2
  <2> QED
    BY <2>2, <2>3
<1>11. \A p \in Piece : p[1] = b => word'[p] # <<b, PIECES>>
  <2>1. old # <<b, PIECES>>
    BY <1>2, <1>4, <1>6, <1>8, <1>9, MempoolAssumption
  <2>2. ASSUME NEW p \in Piece, p[1] = b, word'[p] = <<b, p[2] - 1>>
        PROVE  word'[p] # <<b, PIECES>>
    <3>1. p[2] - 1 # PIECES
      BY <1>3, <2>2, MempoolAssumption
    <3>2. QED
      BY <2>2, <3>1
  <2>3. QED
    BY <1>10, <2>1, <2>2
<1>12. ASSUME NEW s \in Slots
       PROVE  /\ head'[s] \in Free(s)' \cup {Null}
              /\ \A p \in Free(s)' : word'[p] \in Free(s)' \cup {Null}
              /\ \A p \in Free(s)' : word'[p] # Null => word'[p] # head'[s]
              /\ \A p, p1 \in Free(s)' :
                   word'[p] # Null /\ word'[p] = word'[p1] => p = p1
  <2>1. CASE s = z
    <3>1. head'[z] \in Free(z)' \cup {Null}
      BY <1>7, <1>8
    <3>2. \A p \in Free(z)' : word'[p] \in Free(z)' \cup {Null}
      <4>1. ASSUME NEW p \in Free(z) PROVE word'[p] \in Free(z)' \cup {Null}
        BY <1>2, <1>5, <1>6, <1>9, <4>1
      <4>2. ASSUME NEW p \in Piece, p[1] = b PROVE word'[p] \in Free(z)' \cup {Null}
        <5>1. CASE word'[p] = old
          BY <1>5, <1>9, <5>1
        <5>2. CASE p[2] - 1 \in 1..PIECES /\ word'[p] = <<b, p[2] - 1>>
          BY <1>4, <1>5, <5>2
        <5>3. QED
          BY <1>10, <4>2, <5>1, <5>2
      <4>3. QED
        BY <1>5, <4>1, <4>2
    <3>3. \A p \in Free(z)' : word'[p] # Null => word'[p] # head'[z]
      BY <1>2, <1>5, <1>6, <1>7, <1>9, <1>11
    <3>4. ASSUME NEW p \in Free(z)', NEW p1 \in Free(z)',
                 word'[p] # Null, word'[p] = word'[p1]
          PROVE  p = p1
      <4>1. CASE p \in Free(z) /\ p1 \in Free(z)
        BY <1>2, <1>6, <1>9, <3>4, <4>1
      <4>2. CASE p[1] = b /\ p1 \in Free(z)
        BY <1>2, <1>5, <1>6, <1>9, <1>10, <3>4, <4>2
      <4>3. CASE p1[1] = b /\ p \in Free(z)
        BY <1>2, <1>5, <1>6, <1>9, <1>10, <3>4, <4>3
      <4>4. CASE p[1] = b /\ p1[1] = b
        BY <1>2, <1>3, <1>5, <1>6, <1>9, <1>10, <3>4, <4>4
      <4>5. QED
        BY <1>5, <4>1, <4>2, <4>3, <4>4
    <3>5. QED
      BY <2>1, <3>1, <3>2, <3>3, <3>4
  <2>2. CASE s # z
    BY <1>5, <1>6, <1>7, <2>2 DEF IInv, FreeListsSound
  <2>3. QED
    BY <2>1, <2>2
<1>13. QED
  BY <1>12 DEF FreeListsSound

(* The other steps leave every list alone.                                  *)
LEMMA StillLists ==
  ASSUME IInv, NEW t \in Threads, Step(t), ~Pop(t), ~Put(t), ~LinkPieces(t)
  PROVE  /\ head' = head
         /\ \A s : Free(s)' = Free(s) /\ \A p \in Free(s) : word'[p] = word[p]
<1>1. \A p \in Piece : Busy(p)' <=> Busy(p)
  BY BusyQuiet
<1>2. /\ home' = home /\ head' = head
      /\ \A p \in Piece :
           (p = q[t] /\ pc[t] \in {"new", "chain"}) \/ word'[p] = word[p]
  BY DEF Step, Go, pool, threads, objects, IInv, TypeOK, C_Object_Alloc, LockToAlloc, ReadHead, Extend, AddBlock, OutOfMemory, Initialize, Refe, Unrefe, Object_Destruct, LockToFree, Chain
<1>3. \A p \in Piece : Busy(p) \/ word'[p] = word[p]
  BY <1>2 DEF Busy, Owned, Own
<1>4. \A s : Free(s) = {p \in Piece : home[p[1]] = s /\ ~Busy(p)}
  BY DEF Free, Busy
<1>5. \A s : Free(s)' = {p \in Piece : home'[p[1]] = s /\ ~Busy(p)'}
  BY DEF Free, Busy
<1>6. QED
  BY <1>1, <1>2, <1>3, <1>4, <1>5

LEMMA FreeStep ==
  ASSUME IInv, NEW t \in Threads, Step(t)
  PROVE  FreeListsSound'
<1>1. CASE ~Pop(t) /\ ~Put(t) /\ ~LinkPieces(t)
  BY <1>1, StillLists DEF IInv, FreeListsSound
<1>2. QED
  BY <1>1, FreePop, FreePut, FreeLink

-----------------------------------------------------------------------------
(* No piece is two things at a time.                                        *)

(* Which objects live: a step makes at most the piece of its thread one.    *)
LEMMA LiveStep ==
  ASSUME IInv, NEW t \in Threads, Step(t), NEW p \in Piece, Live(p)', ~Live(p)
  PROVE  pc[t] = "new" /\ q[t] = p /\ Initialize(t)
<1> USE DEF TypeOK
<1> TypeOK
  BY DEF IInv
<1>1. ASSUME NEW o \in Piece, Refe(t, o) PROVE FALSE
  <2>1. Live(o) /\ \E x \in Refs : ref' = [ref EXCEPT ![x] = o]
    BY <1>1 DEF Refe
  <2>2. QED
    BY <2>1 DEF Live
<1>2. ASSUME NEW x \in Refs, Unrefe(t, x) PROVE FALSE
  <2>1. ref' = [ref EXCEPT ![x] = Null]
    BY <1>2 DEF Unrefe
  <2>2. QED
    BY <2>1, MempoolAssumption DEF Live
<1>3. CASE Initialize(t)
  <2>1. pc[t] = "new" /\ \E x \in Refs : ref' = [ref EXCEPT ![x] = q[t]]
    BY <1>3 DEF Initialize, Go
  <2>2. QED
    BY <1>3, <2>1 DEF Live
<1>4. ref' # ref
  BY DEF Live
<1>5. QED
  BY <1>1, <1>2, <1>3, <1>4 DEF Step, objects, C_Object_Alloc, LockToAlloc, ReadHead, Extend, AddBlock, LinkPieces, OutOfMemory, Pop, Object_Destruct, LockToFree, Chain, Put

(* The other threads keep their pieces for themselves.                      *)
LEMMA ExclusiveOther ==
  ASSUME IInv, NEW t \in Threads, Step(t), NEW u \in Threads, u # t, Own(u)
  PROVE  /\ Own(u)' /\ q'[u] = q[u] /\ q[u] \in Piece /\ ~Live(q[u])'
         /\ pc'[u] # "destruct" => home'[q[u][1]] = slot'[u]
<1> PICK o : o = q[u]
  OBVIOUS
<1>1. pc'[u] = pc[u] /\ slot'[u] = slot[u] /\ q'[u] = o
  BY OthersStay DEF IInv
<1>2. /\ o \in Piece /\ ~Live(o)
      /\ pc[u] # "destruct" => home[o[1]] = slot[u]
      /\ Own(t) => q[t] # o
  BY DEF IInv, Exclusive
<1>3. ~Live(o)'
  BY <1>2, LiveStep DEF Own
<1>4. home'[o[1]] = home[o[1]]
  BY OwnedStays
<1>5. ~Live(q[u])'
  BY <1>1, <1>3 DEF Live
<1>6. QED
  BY <1>1, <1>2, <1>4, <1>5 DEF Own

(* A thread gets a piece from a free list or from the last reference.       *)
LEMMA ExclusiveSelf ==
  ASSUME IInv, NEW t \in Threads, Step(t), Own(t)'
  PROVE  /\ q'[t] \in Piece /\ ~Live(q[t])'
         /\ pc'[t] # "destruct" => home'[q'[t][1]] = slot'[t]
         /\ \A u \in Threads : u # t /\ Own(u) => q[u] # q'[t]
<1> USE DEF TypeOK, Go, pool, threads, objects
<1> TypeOK
  BY DEF IInv
<1>1. CASE Pop(t)
  <2> PICK o : o = q[t]
    OBVIOUS
  <2>1. /\ pc[t] = "pop" /\ q'[t] = o /\ slot'[t] = slot[t]
        /\ home' = home /\ ref' = ref
    BY <1>1 DEF Pop
  <2>2. o \in Piece /\ home[o[1]] = slot[t] /\ ~Live(o) /\ ~Owned(o)
    BY <2>1, Popped DEF Free
  <2>3. QED
    BY <2>1, <2>2 DEF Live, Owned
<1>2. ASSUME NEW x \in Refs, Unrefe(t, x)
      PROVE  /\ q'[t] \in Piece /\ ~Live(q[t])' /\ pc'[t] = "destruct"
             /\ \A u \in Threads : u # t /\ Own(u) => q[u] # q'[t]
  <2> PICK o : o = ref[x]
    OBVIOUS
  <2>1. LastOne(rc[o] - 1) /\ pc'[t] = "destruct" /\ q'[t] = o
    BY <1>2 DEF Unrefe, Own
  <2>2. o \in Piece /\ Live(o) /\ Refers(o)' = {}
    BY <1>2, <2>1, LastGoes
  <2>3. \A y \in Refs : ref'[y] # o
    BY <2>2 DEF Refers
  <2>4. \A u \in Threads : Own(u) => q[u] # o
    BY <2>2 DEF IInv, Exclusive
  <2>5. QED
    BY <2>1, <2>2, <2>3, <2>4 DEF Live
<1>3. CASE Object_Destruct(t) \/ LockToFree(t) \/ Chain(t)
  <2> PICK o : o = q[t]
    OBVIOUS
  <2>1. /\ Own(t) /\ q'[t] = o /\ ref' = ref /\ home' = home /\ pc'[t] # "destruct"
    BY <1>3 DEF Own, Object_Destruct, LockToFree, Chain
  <2>2. o \in Piece /\ ~Live(o) /\ \A u \in Threads : u # t /\ Own(u) => q[u] # o
    BY <2>1 DEF IInv, Exclusive
  <2>3. home[o[1]] = slot'[t]
    BY <1>3 DEF IInv, WorkInv, Exclusive, Own, Object_Destruct, LockToFree, Chain
  <2>4. QED
    BY <2>1, <2>2, <2>3 DEF Live
<1>4. ~(\E p \in Piece : Refe(t, p)) /\ ~Initialize(t) /\ ~Put(t)
  BY DEF Refe, Initialize, Put, Own
<1>5. QED
  BY <1>1, <1>2, <1>3, <1>4
  DEF Step, Own, C_Object_Alloc, LockToAlloc, ReadHead, Extend, AddBlock, LinkPieces, OutOfMemory

LEMMA ExclusiveStep ==
  ASSUME IInv, NEW t \in Threads, Step(t)
  PROVE  Exclusive'
<1>1. \A u \in Threads : u # t => pc'[u] = pc[u] /\ q'[u] = q[u]
  BY OthersStay DEF IInv
<1>2. \A u \in Threads : u # t => (Own(u)' <=> Own(u))
  BY <1>1 DEF Own
<1>3. ASSUME NEW u \in Threads, Own(u)'
      PROVE  /\ q'[u] \in Piece /\ ~Live(q[u])'
             /\ pc'[u] # "destruct" => home'[q'[u][1]] = slot'[u]
  <2>1. CASE u = t
    BY <1>3, <2>1, ExclusiveSelf
  <2>2. CASE u # t
    BY <1>2, <1>3, <2>2, ExclusiveOther
  <2>3. QED
    BY <2>1, <2>2
<1>4. ASSUME NEW u \in Threads, NEW v \in Threads, Own(u)', Own(v)', q'[u] = q'[v]
      PROVE  u = v
  <2>1. CASE u # t /\ v # t
    BY <1>1, <1>2, <1>4, <2>1 DEF IInv, Exclusive
  <2>2. CASE u = t \/ v = t
    BY <1>1, <1>2, <1>4, <2>2, ExclusiveSelf
  <2>3. QED
    BY <2>1, <2>2
<1>5. QED
  BY <1>3, <1>4 DEF Exclusive

-----------------------------------------------------------------------------
(* The count of an object is the number of references to it.                *)

LEMMA CountsStep ==
  ASSUME IInv, NEW t \in Threads, Step(t)
  PROVE  RefsCounted'
<1> USE DEF TypeOK, Go, pool, threads, objects
<1> TypeOK
  BY DEF IInv
<1> DEFINE Exact(p) ==
  Refers(p) # {} => /\ rc[p] = Cardinality(Refers(p))
                    /\ home[p[1]] \in Slots /\ word[p] = home[p[1]]
<1>1. \A p \in Piece : (Live(p) <=> Refers(p) # {}) /\ Count(p) = Cardinality(Refers(p))
  BY DEF Live, Refers, Count
<1>2. \A p \in Piece : (Live(p)' <=> Refers(p)' # {}) /\ Count(p)' = Cardinality(Refers(p)')
  BY DEF Live, Refers, Count
<1>3. \A p \in Piece : Exact(p)
  BY <1>1 DEF IInv, RefsCounted
<1>4. \A p \in Piece : Refers(p) \in SUBSET Refs
  BY DEF Refers
<1>5. SUFFICES ASSUME NEW p \in Piece PROVE Exact(p)'
  <2>1. \A p \in Piece : Exact(p)'
    BY <1>5
  <2>2. QED
    BY <1>2, <2>1 DEF RefsCounted
<1>6. CASE Initialize(t)
  <2>1. PICK x \in Refs : ref[x] = Null /\ ref' = [ref EXCEPT ![x] = q[t]]
    BY <1>6 DEF Initialize
  <2>2. /\ q[t] \in Piece /\ slot[t] \in Slots /\ home[q[t][1]] = slot[t] /\ ~Live(q[t])
    BY <1>6 DEF Initialize, IInv, WorkInv, Exclusive, Own, SlotPc, PiecePc, PcValues
  <2>3. /\ home' = home /\ word' = [word EXCEPT ![q[t]] = slot[t]]
        /\ rc' = [rc EXCEPT ![q[t]] = 1]
    BY <1>6 DEF Initialize
  <2>4. CASE p = q[t]
    <3>1. Refers(p)' = {x}
      BY <2>1, <2>2, <2>4 DEF Refers, Live
    <3>2. Cardinality({x}) = 1
      BY FS_Singleton
    <3>3. rc'[p] = 1 /\ home'[p[1]] \in Slots /\ word'[p] = home'[p[1]]
      BY <2>2, <2>3, <2>4
    <3>4. QED
      BY <3>1, <3>2, <3>3
  <2>5. CASE p # q[t]
    <3>1. Refers(p)' = Refers(p)
      BY <2>1, <2>5, MempoolAssumption DEF Refers
    <3>2. rc'[p] = rc[p] /\ word'[p] = word[p]
      BY <2>3, <2>5
    <3>3. QED
      BY <1>3, <2>3, <3>1, <3>2
  <2>6. QED
    BY <2>4, <2>5
<1>7. ASSUME NEW o \in Piece, Refe(t, o) PROVE Exact(p)'
  <2>1. PICK x \in Refs : ref[x] = Null /\ ref' = [ref EXCEPT ![x] = o]
    BY <1>7 DEF Refe
  <2>2. home' = home /\ word' = word /\ rc' = [rc EXCEPT ![o] = @ + 1] /\ Live(o)
    BY <1>7 DEF Refe
  <2>3. CASE p = o
    <3>1. Refers(p)' = Refers(p) \cup {x} /\ x \notin Refers(p)
      BY <2>1, <2>3, MempoolAssumption DEF Refers
    <3>2. Cardinality(Refers(p) \cup {x}) = Cardinality(Refers(p)) + 1
      BY <1>4, <3>1, RefersCount
    <3>3. rc'[p] = rc[p] + 1 /\ Exact(p) /\ Refers(p) # {}
      BY <1>1, <1>3, <2>2, <2>3
    <3>4. QED
      BY <2>2, <3>1, <3>2, <3>3
  <2>4. CASE p # o
    <3>1. Refers(p)' = Refers(p)
      BY <2>1, <2>4, MempoolAssumption DEF Refers
    <3>2. rc'[p] = rc[p]
      BY <2>2, <2>4
    <3>3. QED
      BY <1>3, <2>2, <3>1, <3>2
  <2>5. QED
    BY <2>3, <2>4
<1>8. ASSUME NEW x \in Refs, Unrefe(t, x) PROVE Exact(p)'
  <2> PICK o : o = ref[x]
    OBVIOUS
  <2>1. /\ o \in Piece /\ Live(o) /\ Refers(o)' = Refers(o) \ {x} /\ x \in Refers(o)
        /\ rc[o] = Cardinality(Refers(o))
    BY <1>8, LastGoes
  <2>2. /\ home' = home /\ word' = word /\ rc' = [rc EXCEPT ![o] = @ - 1]
        /\ ref' = [ref EXCEPT ![x] = Null]
    BY <1>8 DEF Unrefe
  <2>3. CASE p = o
    <3>1. Cardinality(Refers(o) \ {x}) = Cardinality(Refers(o)) - 1
      BY <1>4, <2>1, RefersCount
    <3>2. rc'[o] = Cardinality(Refers(o) \ {x})
      BY <2>1, <2>2, <3>1
    <3>3. Exact(o)
      BY <1>3, <2>1
    <3>4. QED
      BY <2>1, <2>2, <2>3, <3>2, <3>3
  <2>4. CASE p # o
    <3>1. Refers(p)' = Refers(p)
      BY <2>2, <2>4, MempoolAssumption DEF Refers
    <3>2. rc'[p] = rc[p]
      BY <2>2, <2>4
    <3>3. QED
      BY <1>3, <2>2, <3>1, <3>2
  <2>5. QED
    BY <2>3, <2>4
<1>9. CASE LinkPieces(t)
  <2>1. /\ rc' = rc /\ ref' = ref
        /\ p[1] # r[t].block => word'[p] = word[p] /\ home'[p[1]] = home[p[1]]
    BY <1>9 DEF LinkPieces, Piece
  <2>2. Refers(p)' = Refers(p)
    BY <2>1 DEF Refers
  <2>3. home[p[1]] \in Slots => p[1] # r[t].block
    BY <1>9, MempoolAssumption DEF LinkPieces, IInv, BlockInv, BlockPc
  <2>4. QED
    BY <1>3, <2>1, <2>2, <2>3
<1>10. CASE Chain(t)
  <2>1. rc' = rc /\ ref' = ref /\ home' = home /\ (p # q[t] => word'[p] = word[p])
    BY <1>10 DEF Chain
  <2>2. Refers(p)' = Refers(p)
    BY <2>1 DEF Refers
  <2>3. Refers(p) # {} => p # q[t]
    BY <1>1, <1>10 DEF Chain, IInv, Exclusive, Own
  <2>4. QED
    BY <1>3, <2>1, <2>2, <2>3
<1>11. CASE rc' = rc /\ ref' = ref /\ home' = home /\ word' = word
  <2>1. Refers(p)' = Refers(p)
    BY <1>11 DEF Refers
  <2>2. QED
    BY <1>3, <1>11, <2>1
<1>12. QED
  BY <1>6, <1>7, <1>8, <1>9, <1>10, <1>11
  DEF Step, C_Object_Alloc, LockToAlloc, ReadHead, Extend, AddBlock, OutOfMemory, Pop,
      Object_Destruct, LockToFree, Put

-----------------------------------------------------------------------------
(* The invariant holds in every state.                                      *)

LEMMA InvInit == Init => IInv
<1> SUFFICES ASSUME Init PROVE IInv
  OBVIOUS
<1> USE DEF Init
<1>1. TypeOK
  BY DEF TypeOK, PcValues, NoBlock
<1>2. LocksInv /\ WorkInv /\ BlockInv
  BY DEF LocksInv, WorkInv, BlockInv, Crit, SlotPc, PiecePc, BlockPc, PcValues
<1>3. \A s \in Slots : Free(s) = {}
  BY MempoolAssumption DEF Free, Piece
<1>4. FreeListsSound
  BY <1>3 DEF FreeListsSound
<1>5. Exclusive /\ RefsCounted
  BY MempoolAssumption DEF Exclusive, RefsCounted, Own, Live
<1>6. QED
  BY <1>1, <1>2, <1>4, <1>5 DEF IInv

LEMMA InvNext == IInv /\ [Next]_vars => IInv'
<1> SUFFICES ASSUME IInv, [Next]_vars PROVE IInv'
  OBVIOUS
<1>1. CASE UNCHANGED vars
  <2> USE <1>1 DEF vars, pool, threads, objects
  <2>1. TypeOK' /\ LocksInv' /\ WorkInv' /\ BlockInv'
    BY DEF IInv, TypeOK, LocksInv, WorkInv, BlockInv
  <2>2. \A s : Free(s)' = Free(s)
    BY DEF Free, Live, Owned, Own
  <2>3. FreeListsSound'
    BY <2>2 DEF IInv, FreeListsSound
  <2>4. Exclusive'
    BY DEF IInv, Exclusive, Live, Own
  <2>5. RefsCounted'
    BY DEF IInv, RefsCounted, Live, Count
  <2>6. QED
    BY <2>1, <2>3, <2>4, <2>5 DEF IInv
<1>2. ASSUME NEW t \in Threads, Step(t) PROVE IInv'
  BY <1>2, TypeStep, LocksStep, WorkStep, BlockStep, FreeStep, ExclusiveStep, CountsStep
  DEF IInv
<1>3. QED
  BY <1>1, <1>2 DEF Next, Aborted

THEOREM MempoolInvariant == Spec => []IInv
<1>1. Init => IInv
  BY InvInit
<1>2. IInv /\ [Next]_vars => IInv'
  BY InvNext
<1>3. QED
  BY <1>1, <1>2, PTL DEF Spec

(* Every variable of the pool keeps its type.                               *)
THEOREM MempoolTypes == Spec => []TypeOK
<1>1. IInv => TypeOK
  BY DEF IInv
<1>2. QED
  BY <1>1, MempoolInvariant, PTL

(* Whatever the threads do, __Mempool_Zalloc finds in a free list neither   *)
(* an object nor a piece that is in the list twice.                         *)
THEOREM MempoolLists == Spec => []FreeListsSound
<1>1. IInv => FreeListsSound
  BY DEF IInv
<1>2. QED
  BY <1>1, MempoolInvariant, PTL

(* A piece that a thread has popped or is freeing is nobody else's.         *)
THEOREM MempoolExclusive == Spec => []Exclusive
<1>1. IInv => Exclusive
  BY DEF IInv
<1>2. QED
  BY <1>1, MempoolInvariant, PTL

(* The count in the header of an object is the number of its references.    *)
THEOREM MempoolCounts == Spec => []CountsExact
<1>1. IInv => CountsExact
  BY DEF IInv, CountsExact
<1>2. QED
  BY <1>1, MempoolInvariant, PTL

-----------------------------------------------------------------------------
(* No free piece is lost.  A set of free pieces that has the head and goes  *)
(* with a piece to the next one is all of them: said of every set, this is  *)
(* inductive, and it is what being reached means.                           *)

Whole(s, S) ==
  /\ head[s] \in S \cup {Null}
  /\ \A p \in S : word[p] \in S \cup {Null}

WholeInv == \A s \in Slots : \A S \in SUBSET Free(s) : Whole(s, S) => S = Free(s)

LEMMA WholePop ==
  ASSUME IInv, WholeInv, NEW t \in Threads, Step(t), Pop(t)
  PROVE  WholeInv'
<1>1. PICK z \in Slots, o \in Piece : TakesHead(z, o)
  BY PopLists
<1>2. ASSUME NEW S \in SUBSET Free(z)', Whole(z, S)' PROVE S = Free(z)'
  <2>1. /\ S \subseteq Free(z) \ {o} /\ o \in Free(z) /\ head[z] = o
        /\ word[o] \in S \cup {Null} /\ \A p \in S : word[p] \in S \cup {Null}
    BY <1>1, <1>2 DEF TakesHead, Whole
  <2>2. S \cup {o} \in SUBSET Free(z) /\ Whole(z, S \cup {o})
    BY <2>1 DEF Whole
  <2>3. S \cup {o} = Free(z)
    BY <2>2 DEF WholeInv
  <2> QED
    BY <1>1, <2>1, <2>3 DEF TakesHead
<1>3. ASSUME NEW s \in Slots \ {z}, NEW S \in SUBSET Free(s)', Whole(s, S)' PROVE S = Free(s)'
  <2>1. Free(s)' = Free(s) /\ head'[s] = head[s] /\ word' = word
    BY <1>1 DEF TakesHead, OthersKeep
  <2>2. Whole(s, S)
    BY <1>3, <2>1 DEF Whole
  <2> QED
    BY <2>1, <2>2 DEF WholeInv
<1>4. QED
  BY <1>2, <1>3 DEF WholeInv

LEMMA WholePut ==
  ASSUME IInv, WholeInv, NEW t \in Threads, Step(t), Put(t)
  PROVE  WholeInv'
<1>1. PICK z \in Slots, o \in Piece : PutsHead(z, o)
  BY PutLists
<1>2. ASSUME NEW S \in SUBSET Free(z)', Whole(z, S)' PROVE S = Free(z)'
  <2>1. /\ S \subseteq Free(z) \cup {o} /\ o \in S /\ o \notin Free(z) /\ o # Null
        /\ word[o] = head[z] /\ \A p \in S : word[p] \in S \cup {Null}
    BY <1>1, <1>2 DEF PutsHead, Whole
  <2>2. /\ head[z] \in Free(z) \cup {Null}
        /\ \A p \in Free(z) : word[p] \in Free(z) \cup {Null}
    BY DEF IInv, FreeListsSound
  <2>3. S \ {o} \in SUBSET Free(z) /\ Whole(z, S \ {o})
    BY <2>1, <2>2 DEF Whole
  <2>4. S \ {o} = Free(z)
    BY <2>3 DEF WholeInv
  <2> QED
    BY <1>1, <2>1, <2>4 DEF PutsHead
<1>3. ASSUME NEW s \in Slots \ {z}, NEW S \in SUBSET Free(s)', Whole(s, S)' PROVE S = Free(s)'
  <2>1. Free(s)' = Free(s) /\ head'[s] = head[s] /\ word' = word
    BY <1>1 DEF PutsHead, OthersKeep
  <2>2. Whole(s, S)
    BY <1>3, <2>1 DEF Whole
  <2> QED
    BY <2>1, <2>2 DEF WholeInv
<1>4. QED
  BY <1>2, <1>3 DEF WholeInv

(* The pieces of a block are chained from the last to the first, so what    *)
(* has the last one has all of them: there is no highest one it lacks.      *)
LEMMA ChainDown ==
  ASSUME NEW N \in Nat, NEW A \in SUBSET (1..N), N \in A,
         \A k \in 2..N : k \in A => k - 1 \in A
  PROVE  A = 1..N
<1> SUFFICES ASSUME A # 1..N PROVE FALSE
  OBVIOUS
<1> DEFINE B == {n \in Nat : n <= N /\ N - n \in (1..N) \ A}
<1>1. B # {}
  <2>1. PICK k \in 1..N : k \notin A
    OBVIOUS
  <2>2. N - k \in Nat /\ N - k <= N /\ N - (N - k) = k
    BY <2>1
  <2> QED
    BY <2>1, <2>2
<1>2. PICK n \in B : \A j \in B : ~ (j < n)
  <2>1. B \subseteq Nat
    OBVIOUS
  <2> HIDE DEF B
  <2>2. PICK n \in B : \A j \in B : <<j, n>> \notin OpToRel(<, Nat)
    BY <1>1, <2>1, NatLessThanWellFounded, WFMin, Zenon
  <2> QED
    BY <2>1, <2>2 DEF OpToRel
<1>3. N - n \in (1..N) \ A /\ n \in Nat /\ n # 0
  BY <1>2
<1>4. n - 1 \in Nat /\ n - 1 < n /\ n - 1 <= N /\ N - (n - 1) \in 2..N /\ N - (n - 1) - 1 = N - n
  BY <1>3
<1>5. N - (n - 1) \in A
  <2>1. n - 1 \notin B
    BY <1>2, <1>4
  <2> QED
    BY <1>4, <2>1
<1>6. QED
  BY <1>3, <1>4, <1>5

LEMMA WholeLink ==
  ASSUME IInv, WholeInv, NEW t \in Threads, Step(t), LinkPieces(t)
  PROVE  WholeInv'
<1>1. PICK z \in Slots, b \in Blocks : AddsChain(z, b)
  BY LinkLists
<1>2. ASSUME NEW S \in SUBSET Free(z)', Whole(z, S)' PROVE S = Free(z)'
  <2> DEFINE A == {k \in 1..PIECES : <<b, k>> \in S}
  <2>1. /\ \A k \in 1..PIECES : <<b, k>> \in Piece
        /\ head'[z] = <<b, PIECES>> /\ word'[<<b, 1>>] = head[z]
        /\ \A k \in 2..PIECES : word'[<<b, k>>] = <<b, k - 1>>
        /\ \A p \in Free(z) : p[1] # b /\ word'[p] = word[p]
        /\ Free(z)' = Free(z) \cup {p \in Piece : p[1] = b}
        /\ \A p \in Piece : p[1] = b => p = <<b, p[2]>> /\ p[2] \in 1..PIECES
    BY <1>1 DEF AddsChain
  <2>2. head'[z] \in S \cup {Null} /\ \A p \in S : word'[p] \in S \cup {Null}
    BY <1>2 DEF Whole
  <2>3. \A k \in 1..PIECES : <<b, k>> # Null
    BY <2>1, MempoolAssumption
  <2>4. PIECES \in A
    BY <2>1, <2>2, <2>3, MempoolAssumption
  <2>5. ASSUME NEW k \in 2..PIECES, k \in A PROVE k - 1 \in A
    <3>1. k - 1 \in 1..PIECES /\ <<b, k>> \in S
      BY <2>5, MempoolAssumption
    <3> QED
      BY <2>1, <2>2, <2>3, <3>1
  <2>6. A = 1..PIECES
    <3> HIDE DEF A
    <3>1. A \in SUBSET (1..PIECES)
      BY DEF A
    <3> QED
      BY <2>4, <2>5, <3>1, ChainDown, MempoolAssumption
  <2>7. {p \in Piece : p[1] = b} \subseteq S
    BY <2>1, <2>6
  <2>8. head[z] \in S \cup {Null}
    <3>1. <<b, 1>> \in S
      BY <2>6, MempoolAssumption
    <3> QED
      BY <2>1, <2>2, <3>1
  <2>9. /\ head[z] \in Free(z) \cup {Null}
        /\ \A p \in Free(z) : word[p] \in Free(z) \cup {Null}
    BY DEF IInv, FreeListsSound
  <2>10. S \cap Free(z) \in SUBSET Free(z) /\ Whole(z, S \cap Free(z))
    BY <2>1, <2>2, <2>8, <2>9 DEF Whole
  <2>11. S \cap Free(z) = Free(z)
    BY <2>10 DEF WholeInv
  <2> QED
    BY <2>1, <2>7, <2>11
<1>3. ASSUME NEW s \in Slots \ {z}, NEW S \in SUBSET Free(s)', Whole(s, S)' PROVE S = Free(s)'
  <2>1. Free(s)' = Free(s) /\ head'[s] = head[s] /\ \A p \in Free(s) : word'[p] = word[p]
    BY <1>1 DEF AddsChain, OthersKeep
  <2>2. Whole(s, S)
    BY <1>3, <2>1 DEF Whole
  <2> QED
    BY <2>1, <2>2 DEF WholeInv
<1>4. QED
  BY <1>2, <1>3 DEF WholeInv

LEMMA WholeStep ==
  ASSUME IInv, WholeInv, NEW t \in Threads, Step(t)
  PROVE  WholeInv'
<1>1. CASE ~Pop(t) /\ ~Put(t) /\ ~LinkPieces(t)
  <2>1. head' = head /\ \A s : Free(s)' = Free(s) /\ \A p \in Free(s) : word'[p] = word[p]
    BY <1>1, StillLists
  <2>2. ASSUME NEW s \in Slots, NEW S \in SUBSET Free(s)', Whole(s, S)' PROVE S = Free(s)'
    <3>1. Whole(s, S)
      BY <2>1, <2>2 DEF Whole
    <3> QED
      BY <2>1, <3>1 DEF WholeInv
  <2> QED
    BY <2>2 DEF WholeInv
<1>2. QED
  BY <1>1, WholePop, WholePut, WholeLink

(* No free piece is lost: every piece of a slot that no object and no       *)
(* thread has is reached from the head of the slot's list.                  *)
THEOREM MempoolNoneLost == Spec => []NoPieceLost
<1>1. Init => WholeInv
  <2> SUFFICES ASSUME Init, NEW s \in Slots PROVE Free(s) = {}
    BY DEF WholeInv
  <2> QED
    BY MempoolAssumption DEF Init, Free, Piece
<1>2. IInv /\ WholeInv /\ [Next]_vars => WholeInv'
  <2>1. ASSUME IInv, WholeInv, UNCHANGED vars PROVE WholeInv'
    BY <2>1 DEF vars, pool, threads, objects, WholeInv, Whole, Free, Live, Owned, Own
  <2> QED
    BY <2>1, WholeStep DEF Next, Aborted
<1>3. IInv /\ WholeInv => NoPieceLost
  <2> SUFFICES ASSUME IInv, WholeInv, NEW s \in Slots PROVE Reached(s) = Free(s)
    BY DEF NoPieceLost
  <2>1. /\ head[s] \in Free(s) \cup {Null}
        /\ \A p \in Free(s) : word[p] \in Free(s) \cup {Null}
    BY DEF IInv, FreeListsSound
  <2>2. Free(s) \in SUBSET Piece /\ Closed(s, Free(s))
    BY <2>1, FreePieces, MempoolAssumption DEF Closed
  <2>3. ASSUME NEW S \in SUBSET Piece, Closed(s, S) PROVE Free(s) \subseteq S
    <3>1. S \cap Free(s) \in SUBSET Free(s) /\ Whole(s, S \cap Free(s))
      BY <2>1, <2>2, <2>3 DEF Closed, Whole
    <3> QED
      BY <3>1 DEF WholeInv
  <2> QED
    BY <2>2, <2>3 DEF Reached
<1>4. QED
  BY <1>1, <1>2, <1>3, MempoolInvariant, PTL DEF Spec

-----------------------------------------------------------------------------
(* The list of blocks that C_Mempool_Cleanup frees.                         *)

Elems(s)    == {s[k] : k \in DOMAIN s}
Distinct(s) == \A j, k \in DOMAIN s : s[j] = s[k] => j = k

Linking(b) == \E t \in Threads : pc[t] = "link" /\ r[t].block = b

LEMMA Consed ==
  ASSUME NEW s \in Seq(Blocks), NEW b \in Blocks, b \notin Elems(s), Distinct(s)
  PROVE  /\ Distinct(<<b>> \o s)
         /\ Elems(<<b>> \o s) = Elems(s) \cup {b}
<1> PICK w : w = <<b>> \o s
  OBVIOUS
<1>0. /\ \A k \in DOMAIN s : s[k] # b
      /\ \A j, k \in DOMAIN s : s[j] = s[k] => j = k
  BY DEF Elems, Distinct
<1>1. /\ DOMAIN w = 1..(Len(s) + 1) /\ w[1] = b
      /\ \A k \in DOMAIN w : k # 1 => k - 1 \in DOMAIN s /\ w[k] = s[k - 1]
      /\ \A k \in DOMAIN s : k + 1 \in DOMAIN w /\ w[k + 1] = s[k]
  OBVIOUS
<1>2. ASSUME NEW j \in DOMAIN w, NEW k \in DOMAIN w, w[j] = w[k]
      PROVE  j = k
  <2>1. j \in Int /\ k \in Int
    BY <1>1
  <2>2. CASE j = 1 \/ k = 1
    BY <1>0, <1>1, <1>2, <2>2
  <2>3. CASE j # 1 /\ k # 1
    <3>1. j - 1 = k - 1
      BY <1>0, <1>1, <1>2, <2>3
    <3>2. QED
      BY <2>1, <3>1
  <2>4. QED
    BY <2>2, <2>3
<1>3. ASSUME NEW c
      PROVE  (\E k \in DOMAIN w : w[k] = c) <=> c = b \/ \E k \in DOMAIN s : s[k] = c
  <2>1. ASSUME NEW k \in DOMAIN w, w[k] = c
        PROVE  c = b \/ \E j \in DOMAIN s : s[j] = c
    BY <1>1, <2>1
  <2>2. 1 \in DOMAIN w
    BY <1>1
  <2>3. ASSUME NEW k \in DOMAIN s, s[k] = c
        PROVE  \E j \in DOMAIN w : w[j] = c
    BY <1>1, <2>3
  <2>4. c = b => \E j \in DOMAIN w : w[j] = c
    BY <1>1, <2>2
  <2>5. QED
    BY <2>1, <2>3, <2>4
<1>4. Distinct(w) /\ Elems(w) = Elems(s) \cup {b}
  <2>1. Distinct(w)
    BY <1>2 DEF Distinct
  <2>2. \A c : c \in Elems(w) <=> c \in Elems(s) \cup {b}
    <3>1. \A c : /\ c \in Elems(w) <=> \E k \in DOMAIN w : w[k] = c
                 /\ c \in Elems(s) <=> \E k \in DOMAIN s : s[k] = c
      BY DEF Elems
    <3>2. QED
      BY <1>3, <3>1
  <2>3. QED
    BY <2>1, <2>2
<1>5. QED
  BY <1>4

(* Of two threads that extend slots at the same time one loses its block to *)
(* the list, but no block is in it twice: what a thread conses its block to *)
(* has only blocks that were listed before, and its own is not one of them. *)
Used(b) == home[b] # NoSlot \/ Linking(b)

SeenInv ==
  /\ Distinct(blocks) /\ \A b \in Elems(blocks) : Used(b)
  /\ \A t \in Threads : pc[t] = "extend" =>
       Distinct(r[t].seen) /\ \A b \in Elems(r[t].seen) : Used(b)

LEMMA SeenStep ==
  ASSUME IInv, SeenInv, NEW t \in Threads, Step(t)
  PROVE  SeenInv'
<1> USE DEF TypeOK, Go, pool, threads, objects
<1> TypeOK
  BY DEF IInv
<1>1. \A u \in Threads : u # t => pc'[u] = pc[u] /\ r'[u] = r[u]
  BY OthersStay
<1>2. Elems(blocks) \subseteq Blocks /\ \A u \in Threads : Elems(r[u].seen) \subseteq Blocks
  BY DEF Elems
<1>3. CASE Extend(t)
  <2>1. PICK b \in Unused : r' = [r EXCEPT ![t] = [block |-> b, seen |-> blocks]]
    BY <1>3 DEF Extend
  <2>2. blocks' = blocks /\ home' = home /\ pc[t] = "head" /\ pc'[t] = "extend"
    BY <1>3 DEF Extend
  <2>3. r'[t].seen = blocks
    BY <2>1
  <2>4. \A c : Linking(c)' <=> Linking(c)
    BY <1>1, <2>2 DEF Linking
  <2>5. \A c : Used(c)' <=> Used(c)
    BY <2>2, <2>4 DEF Used
  <2>6. QED
    BY <1>1, <2>2, <2>3, <2>5 DEF SeenInv
<1>4. CASE AddBlock(t)
  <2> PICK b, s : b = r[t].block /\ s = r[t].seen
    OBVIOUS
  <2>1. /\ pc[t] = "extend" /\ pc'[t] = "link" /\ home' = home /\ r' = r
        /\ blocks' = <<b>> \o s
    BY <1>4 DEF AddBlock, Listed
  <2>2. /\ b \in Blocks /\ home[b] = NoSlot /\ s \in Seq(Blocks)
        /\ \A u \in Threads : pc[u] \in BlockPc /\ r[u].block = b => u = t
    BY <2>1 DEF IInv, BlockInv, BlockPc
  <2>3. ~Linking(b) /\ \A c : Linking(c)' <=> Linking(c) \/ c = b
    BY <1>1, <2>1, <2>2 DEF Linking, BlockPc
  <2>4. b \notin Elems(s) /\ Distinct(s) /\ \A c \in Elems(s) : Used(c)
    BY <2>1, <2>2, <2>3 DEF SeenInv, Used
  <2>5. Distinct(blocks') /\ Elems(blocks') = Elems(s) \cup {b}
    BY <2>1, <2>2, <2>4, Consed
  <2>6. \A c : Used(c)' <=> Used(c) \/ c = b
    BY <2>1, <2>3 DEF Used
  <2>7. QED
    BY <1>1, <2>1, <2>4, <2>5, <2>6 DEF SeenInv
<1>5. CASE LinkPieces(t)
  <2> PICK b : b = r[t].block
    OBVIOUS
  <2>1. /\ pc[t] = "link" /\ pc'[t] = "head" /\ blocks' = blocks
        /\ home' = [home EXCEPT ![b] = slot[t]]
    BY <1>5 DEF LinkPieces
  <2>2. b \in Blocks /\ slot[t] # NoSlot
    BY <2>1, MempoolAssumption DEF IInv, BlockInv, BlockPc, WorkInv, SlotPc, PcValues
  <2>3. \A c \in Blocks : c # b => (Linking(c)' <=> Linking(c))
    BY <1>1, <2>1 DEF Linking
  <2>4. home'[b] # NoSlot /\ \A c \in Blocks : c # b => home'[c] = home[c]
    BY <2>1, <2>2
  <2>5. \A c \in Blocks : Used(c) => Used(c)'
    BY <2>3, <2>4 DEF Used
  <2>6. \A u \in Threads : pc'[u] = "extend" => pc[u] = "extend" /\ r'[u] = r[u]
    BY <1>1, <2>1
  <2>7. QED
    BY <1>2, <2>1, <2>5, <2>6 DEF SeenInv
<1>6. CASE /\ blocks' = blocks /\ home' = home /\ r' = r
           /\ pc[t] \notin BlockPc /\ pc'[t] \notin BlockPc
  <2>1. \A c : Linking(c)' <=> Linking(c)
    BY <1>1, <1>6 DEF Linking, BlockPc
  <2>2. \A c : Used(c)' <=> Used(c)
    BY <1>6, <2>1 DEF Used
  <2>3. QED
    BY <1>1, <1>6, <2>2 DEF SeenInv, BlockPc
<1>7. QED
  BY <1>3, <1>4, <1>5, <1>6 DEF Step, BlockPc, C_Object_Alloc, LockToAlloc, ReadHead, OutOfMemory, Pop, Initialize, Refe, Unrefe, Object_Destruct, LockToFree, Chain, Put

(* C_Mempool_Cleanup frees no block twice, however many sizes of pieces     *)
(* there are and whichever threads race.                                    *)
THEOREM MempoolNoDouble == Spec => []Distinct(blocks)
<1>1. Init => SeenInv
  BY DEF Init, SeenInv, Elems, Distinct
<1>2. IInv /\ SeenInv /\ [Next]_vars => SeenInv'
  <2>1. ASSUME SeenInv, UNCHANGED vars PROVE SeenInv'
    BY <2>1 DEF SeenInv, Used, Linking, vars, pool, threads, objects
  <2>2. QED
    BY <2>1, SeenStep DEF Next, Aborted
<1>3. SeenInv => Distinct(blocks)
  BY DEF SeenInv
<1>4. QED
  BY <1>1, <1>2, <1>3, MempoolInvariant, PTL DEF Spec

-----------------------------------------------------------------------------
(* The pool and the counts implement ObjectLife.                            *)

DyingPc == {"destruct", "free", "chain", "put"}

LEMMA LifeStep ==
  ASSUME IInv, NEW t \in Threads, Step(t)
  PROVE  Life!Next \/ UNCHANGED Life!vars
<1> USE DEF TypeOK, Go, pool, threads, objects
<1> TypeOK
  BY DEF IInv
<1>0. \A u \in Threads : u # t => pc'[u] = pc[u] /\ q'[u] = q[u]
  BY OthersStay
<1>1. CASE Initialize(t)
  <2>1. PICK x \in Refs : ref[x] = Null /\ ref' = [ref EXCEPT ![x] = q[t]]
    BY <1>1 DEF Initialize
  <2>2. pc[t] = "new" /\ pc'[t] = "idle"
    BY <1>1 DEF Initialize
  <2>3. /\ q[t] \in Piece /\ ~Live(q[t])
        /\ \A u \in Threads : Own(u) /\ q[u] = q[t] => u = t
    BY <2>2 DEF IInv, Exclusive, Own
  <2>4. q[t] \notin Dying
    BY <2>2, <2>3 DEF Dying, Own
  <2>5. Dying' = Dying
    BY <1>0, <2>2 DEF Dying
  <2>6. Life!Create(x, q[t])
    BY <2>1, <2>3, <2>4, <2>5 DEF Life!Create, Life!Live, Live
  <2>7. QED
    BY <2>3, <2>6 DEF Life!Next
<1>2. ASSUME NEW p \in Piece, Refe(t, p) PROVE Life!Next
  <2>1. PICK x \in Refs : ref[x] = Null /\ ref' = [ref EXCEPT ![x] = p]
    BY <1>2 DEF Refe
  <2>2. Dying' = Dying /\ Live(p)
    BY <1>2 DEF Refe, Dying
  <2>3. Life!Share(x, p)
    BY <2>1, <2>2 DEF Life!Share, Life!Live, Live
  <2>4. QED
    BY <2>3 DEF Life!Next
<1>3. ASSUME NEW x \in Refs, Unrefe(t, x) PROVE Life!Next
  <2> PICK o : o = ref[x]
    OBVIOUS
  <2>1. /\ o \in Piece /\ Refers(o)' = Refers(o) \ {x}
        /\ LastOne(rc[o] - 1) <=> Refers(o)' = {}
    BY <1>3, LastGoes
  <2>2. o # Null /\ ref' = [ref EXCEPT ![x] = Null] /\ pc[t] = "idle"
    BY <1>3 DEF Unrefe
  <2>3. LastOne(rc[o] - 1) <=> ~\E y \in Refs \ {x} : ref[y] = o
    BY <2>1 DEF Refers
  <2>4. LastOne(rc[o] - 1) => Dying' = Dying \cup {o}
    <3>1. HAVE LastOne(rc[o] - 1)
    <3>2. pc'[t] = "destruct" /\ q'[t] = o
      BY <1>3, <3>1 DEF Unrefe
    <3>3. QED
      BY <1>0, <2>1, <2>2, <3>2 DEF Dying
  <2>5. ~LastOne(rc[o] - 1) => Dying' = Dying
    BY <1>3 DEF Unrefe, Dying
  <2>6. Life!Drop(x)
    BY <2>2, <2>3, <2>4, <2>5 DEF Life!Drop
  <2>7. QED
    BY <2>6 DEF Life!Next
<1>4. CASE Put(t)
  <2> PICK o : o = q[t]
    OBVIOUS
  <2>1. pc[t] = "put" /\ pc'[t] = "idle" /\ ref' = ref
    BY <1>4 DEF Put
  <2>2. o \in Piece /\ \A u \in Threads : Own(u) /\ q[u] = o => u = t
    BY <2>1 DEF IInv, Exclusive, Own
  <2>3. o \in Dying
    BY <2>1, <2>2 DEF Dying
  <2>4. Dying' = Dying \ {o}
    BY <1>0, <2>1, <2>2 DEF Dying, Own
  <2>5. Life!Return(o)
    BY <2>1, <2>3, <2>4 DEF Life!Return
  <2>6. QED
    BY <2>2, <2>5 DEF Life!Next
<1>5. CASE /\ ref' = ref
           /\ pc'[t] \in DyingPc <=> pc[t] \in DyingPc
           /\ pc[t] \in DyingPc => q'[t] = q[t]
  <2>1. \A u \in Threads : /\ pc'[u] \in DyingPc <=> pc[u] \in DyingPc
                           /\ pc[u] \in DyingPc => q'[u] = q[u]
    BY <1>0, <1>5
  <2>2. Dying' = Dying
    BY <2>1 DEF Dying, DyingPc
  <2>3. QED
    BY <1>5, <2>2 DEF Life!vars
<1>6. QED
  BY <1>1, <1>2, <1>3, <1>4, <1>5
  DEF Step, DyingPc, C_Object_Alloc, LockToAlloc, ReadHead, Extend, AddBlock, LinkPieces,
      OutOfMemory, Pop, Object_Destruct, LockToFree, Chain

(* An object is made in memory that nothing uses, and is destroyed once,    *)
(* when its last reference goes.                                            *)
THEOREM MempoolImplements == Spec => ImplementsLife
<1>1. Init => Life!Init
  BY DEF Init, Life!Init, Dying
<1>2. IInv /\ [Next]_vars => [Life!Next]_Life!vars
  <2>1. ASSUME IInv, NEW t \in Threads, Step(t) PROVE [Life!Next]_Life!vars
    BY <2>1, LifeStep
  <2>2. ASSUME UNCHANGED vars PROVE UNCHANGED Life!vars
    BY <2>2 DEF Life!vars, Dying, vars, threads, objects
  <2>3. QED
    BY <2>1, <2>2 DEF Next, Aborted
<1>3. QED
  BY <1>1, <1>2, MempoolInvariant, PTL DEF Spec, ImplementsLife, Life!Spec
=============================================================================
