------------------------------ MODULE Mempool ------------------------------
(***************************************************************************)
(* Objects and the memory pool of Include/c+/csup/object.hc in a build     *)
(* with threads.  An object lives in a piece of a block; the pieces of one *)
(* size form a slot, whose free pieces are chained through their first     *)
(* word, the word that holds the signature of an object that is in use.    *)
(* A spin lock protects each slot; the list of blocks, common to all       *)
(* slots, has none of its own.  An object dies when __Unrefe takes its     *)
(* reference count to zero.                                                *)
(*                                                                         *)
(* A step is one access to memory that other threads may see: inside the   *)
(* spin lock the reads and the writes of the head are steps of their own.  *)
(* A reference is a token, whichever thread uses it: threads pass them on  *)
(* (the task queue does).  Objects too large for the pool and the method   *)
(* tables are left out.                                                    *)
(***************************************************************************)
EXTENDS Integers, Sequences, FiniteSets

CONSTANTS
  Threads,
  Slots,     (* the sizes of pieces: indexes into __Mempool_Slots           *)
  Blocks,    (* what malloc may return (bounds the memory)                  *)
  PIECES,    (* C_MEMPOOL_PIECE_ON_BLOCK (16 in the code)                   *)
  Refs,      (* references that may exist (bounds the objects)              *)
  RCWRAP,    (* the count is looked at modulo this (2^23 in the code)       *)
  Null,      (* the null pointer                                            *)
  NoSlot

Piece == Blocks \X (1..PIECES)

(* There are fewer references than __Unrefe can count.                     *)
ASSUME MempoolAssumption ==
  /\ PIECES \in Nat \ {0}
  /\ IsFiniteSet(Refs) /\ RCWRAP \in Nat /\ Cardinality(Refs) < RCWRAP
  /\ NoSlot \notin Slots
  /\ Null \notin Piece \cup Blocks

VARIABLES
  spin,     (* __Mempool_Spinlock                                           *)
  head,     (* __Mempool_Slots                                              *)
  word,     (* piece -> its first word: a link, or the signature's slot     *)
  rc,       (* piece -> the reference count in its header                   *)
  blocks,   (* __Mempool_Blocks, from its head                              *)
  home,     (* block -> the slot it was cut up for                          *)
  pc,       (* thread -> where it is                                        *)
  slot,     (* thread -> plidx (NoSlot outside the functions that have one)  *)
  q,        (* thread -> Q: the piece it pops, makes an object of or frees  *)
  r,        (* thread -> R: the block it adds and the list it saw           *)
  ref       (* reference -> the object it refers to                         *)

pool    == <<spin, head, word>>
threads == <<pc, slot, q, r>>
objects == <<rc, ref>>
vars    == <<pool, blocks, home, threads, objects>>

PcValues == {"idle", "alloc", "head", "extend", "link", "pop", "new",
             "destruct", "free", "chain", "put", "aborted"}

Go(t, from, to) == pc[t] = from /\ pc' = [pc EXCEPT ![t] = to]
Live(p)  == \E x \in Refs : ref[x] = p
Count(p) == Cardinality({x \in Refs : ref[x] = p})

NoBlock == [block |-> Null, seen |-> <<>>]

Init ==
  /\ spin = [s \in Slots |-> 0]
  /\ head = [s \in Slots |-> Null]
  /\ word = [p \in Piece |-> Null]
  /\ rc = [p \in Piece |-> 0]
  /\ blocks = <<>> /\ home = [b \in Blocks |-> NoSlot]
  /\ pc = [t \in Threads |-> "idle"]
  /\ slot = [t \in Threads |-> NoSlot]
  /\ q = [t \in Threads |-> Null]
  /\ r = [t \in Threads |-> NoBlock]
  /\ ref = [x \in Refs |-> Null]

-----------------------------------------------------------------------------
(* The spin lock of a slot.                                                *)
TryLock_Blind(s) == spin' = [spin EXCEPT ![s] = 1]
TryLock(s) == spin[s] = 0 /\ spin' = [spin EXCEPT ![s] = 1]
Unlock(s) == spin' = [spin EXCEPT ![s] = @ - 1]

-----------------------------------------------------------------------------
(* C_Object_Alloc, __Object_Dtor: a new object with one reference.         *)

(* Tokens that no object and no thread on its way to one will use.         *)
Allocating == {t \in Threads : pc[t] \in {"alloc", "head", "extend", "link", "pop", "new"}}
Spare == Cardinality(Allocating) < Count(Null)

C_Object_Alloc(t, s) ==
  /\ Spare
  /\ Go(t, "idle", "alloc")
  /\ slot' = [slot EXCEPT ![t] = s]
  /\ UNCHANGED <<pool, blocks, home, q, r, objects>>

LockToAlloc(t) ==
  /\ Go(t, "alloc", "head")
  /\ TryLock(slot[t])
  /\ UNCHANGED <<head, word, blocks, home, slot, q, r, objects>>

(* Q = *S, if the list is not empty.                                       *)
ReadHead(t) ==
  /\ Go(t, "head", "pop")
  /\ head[slot[t]] # Null
  /\ q' = [q EXCEPT ![t] = head[slot[t]]]
  /\ UNCHANGED <<pool, blocks, home, slot, r, objects>>

(* ___Mempool_Extend: a new block, which other threads have not got.       *)
Unused == {b \in Blocks : home[b] = NoSlot /\ \A t \in Threads : r[t].block # b}

Extend(t) ==
  /\ Go(t, "head", "extend")
  /\ head[slot[t]] = Null
  /\ \E b \in Unused : r' = [r EXCEPT ![t] = [block |-> b, seen |-> blocks]]
  /\ UNCHANGED <<pool, blocks, home, slot, q, objects>>

(* __Mempool_Blocks = R, under the lock of this slot only.                 *)
Listed_Alone(t) == <<r[t].block>>
Listed(t) == <<r[t].block>> \o r[t].seen

AddBlock(t) ==
  /\ Go(t, "extend", "link")
  /\ blocks' = Listed(t)
  /\ UNCHANGED <<pool, home, slot, q, r, objects>>

(* The loop that pushes the pieces of the block, the first one first.      *)
LinkedTo_Short(b, k, old) == IF k <= 2 THEN old ELSE <<b, k - 1>>
LinkedTo(b, k, old) == IF k = 1 THEN old ELSE <<b, k - 1>>

LinkPieces(t) ==
  LET b == r[t].block  s == slot[t] IN
  /\ Go(t, "link", "head")
  /\ word' = [p \in Piece |-> IF p[1] = b THEN LinkedTo(b, p[2], head[s]) ELSE word[p]]
  /\ head' = [head EXCEPT ![s] = <<b, PIECES>>]
  /\ home' = [home EXCEPT ![b] = s]
  /\ r' = [r EXCEPT ![t] = NoBlock]
  /\ UNCHANGED <<spin, blocks, slot, q, objects>>

(* malloc fails: C_Fatal aborts the process, whatever the threads are at.  *)
OutOfMemory(t) ==
  /\ Go(t, "head", "aborted")
  /\ head[slot[t]] = Null
  /\ UNCHANGED <<pool, blocks, home, slot, q, r, objects>>

(* *S = *Q, and the lock is released.                                      *)
Pop(t) ==
  /\ Go(t, "pop", "new")
  /\ head' = [head EXCEPT ![slot[t]] = word[q[t]]]
  /\ Unlock(slot[t])
  /\ UNCHANGED <<word, blocks, home, slot, q, r, objects>>

(* The piece is cleared and gets its signature and its first reference.    *)
Initialize(t) ==
  /\ Go(t, "new", "idle")
  /\ word' = [word EXCEPT ![q[t]] = slot[t]]
  /\ rc' = [rc EXCEPT ![q[t]] = 1]
  /\ \E x \in Refs : ref[x] = Null /\ ref' = [ref EXCEPT ![x] = q[t]]
  /\ q' = [q EXCEPT ![t] = Null] /\ slot' = [slot EXCEPT ![t] = NoSlot]
  /\ UNCHANGED <<spin, head, blocks, home, r>>

-----------------------------------------------------------------------------
(* References.                                                             *)

Refe(t, p) ==
  /\ pc[t] = "idle" /\ Live(p) /\ Spare
  /\ rc' = [rc EXCEPT ![p] = @ + 1]
  /\ \E x \in Refs : ref[x] = Null /\ ref' = [ref EXCEPT ![x] = p]
  /\ UNCHANGED <<pool, blocks, home, threads>>

(* The atomic decrement says whether the object is to be destroyed.        *)
LastOne_TooEarly(n) == n <= 1
LastOne(n) == n % RCWRAP = 0

Unrefe(t, x) ==
  LET p == ref[x] IN
  /\ pc[t] = "idle" /\ p # Null
  /\ ref' = [ref EXCEPT ![x] = Null]
  /\ rc' = [rc EXCEPT ![p] = @ - 1]
  /\ IF LastOne(rc[p] - 1)
       THEN pc' = [pc EXCEPT ![t] = "destruct"] /\ q' = [q EXCEPT ![t] = p]
       ELSE UNCHANGED <<pc, q>>
  /\ UNCHANGED <<pool, blocks, home, slot, r>>

(* The destructor runs and __Object_Free reads the slot of the signature.  *)
Object_Destruct(t) ==
  /\ Go(t, "destruct", "free")
  /\ slot' = [slot EXCEPT ![t] = word[q[t]]]
  /\ UNCHANGED <<pool, blocks, home, q, r, objects>>

(* __Mempool_Free.                                                         *)
LockToFree(t) ==
  /\ Go(t, "free", "chain")
  /\ TryLock(slot[t])
  /\ UNCHANGED <<head, word, blocks, home, slot, q, r, objects>>

(* *Q = *S, and then *S = Q and the lock is released.                      *)
Chain(t) ==
  /\ Go(t, "chain", "put")
  /\ word' = [word EXCEPT ![q[t]] = head[slot[t]]]
  /\ UNCHANGED <<spin, head, blocks, home, slot, q, r, objects>>

Put(t) ==
  /\ Go(t, "put", "idle")
  /\ head' = [head EXCEPT ![slot[t]] = q[t]]
  /\ Unlock(slot[t])
  /\ q' = [q EXCEPT ![t] = Null] /\ slot' = [slot EXCEPT ![t] = NoSlot]
  /\ UNCHANGED <<word, blocks, home, r, objects>>

-----------------------------------------------------------------------------
(* The program has aborted: nothing happens any more.                      *)
Running == \A t \in Threads : pc[t] # "aborted"
Aborted == ~Running /\ UNCHANGED vars

Step(t) ==
  \/ \E s \in Slots : C_Object_Alloc(t, s)
  \/ LockToAlloc(t) \/ ReadHead(t) \/ Extend(t) \/ AddBlock(t) \/ LinkPieces(t)
  \/ OutOfMemory(t) \/ Pop(t) \/ Initialize(t)
  \/ \E p \in Piece : Refe(t, p)
  \/ \E x \in Refs : Unrefe(t, x)
  \/ Object_Destruct(t) \/ LockToFree(t) \/ Chain(t) \/ Put(t)

Next == (Running /\ \E t \in Threads : Step(t)) \/ Aborted

Spec == Init /\ [][Next]_vars

-----------------------------------------------------------------------------
TypeOK ==
  /\ spin \in [Slots -> Int]
  /\ head \in [Slots -> Piece \cup {Null}]
  /\ word \in [Piece -> Piece \cup {Null} \cup Slots]
  /\ rc \in [Piece -> Int]
  /\ blocks \in Seq(Blocks) /\ home \in [Blocks -> Slots \cup {NoSlot}]
  /\ pc \in [Threads -> PcValues]
  /\ slot \in [Threads -> Slots \cup {NoSlot}]
  /\ q \in [Threads -> Piece \cup {Null}]
  /\ r \in [Threads -> [block : Blocks \cup {Null}, seen : Seq(Blocks)]]
  /\ ref \in [Refs -> Piece \cup {Null}]

(* The pieces that a thread has for itself: just popped, or being freed.   *)
Own(t) == pc[t] \in {"new", "destruct", "free", "chain", "put"}
Owned(p) == \E t \in Threads : Own(t) /\ q[t] = p
Free(s) == {p \in Piece : home[p[1]] = s /\ ~Live(p) /\ ~Owned(p)}

(* A free list runs through free pieces of its own slot, and no two of its *)
(* pointers lead to the same piece: __Mempool_Zalloc never finds an object *)
(* in the list, nor a piece twice.                                         *)
FreeListsSound ==
  \A s \in Slots :
    /\ head[s] \in Free(s) \cup {Null}
    /\ \A p \in Free(s) : word[p] \in Free(s) \cup {Null}
    /\ \A p \in Free(s) : word[p] # Null => word[p] # head[s]
    /\ \A p, p1 \in Free(s) : word[p] # Null /\ word[p] = word[p1] => p = p1

(* No piece is two things at a time: a thread that has popped or frees a   *)
(* piece shares it neither with another thread nor with an object, so an   *)
(* object is destroyed once.                                               *)
Exclusive ==
  \A t \in Threads : Own(t) =>
    /\ q[t] \in Piece /\ ~Live(q[t])
    /\ pc[t] # "destruct" => home[q[t][1]] = slot[t]
    /\ \A u \in Threads : Own(u) /\ q[u] = q[t] => u = t

(* What following the links from the head of a list comes by: the least    *)
(* set that has the head and goes with a piece to the next one.            *)
Closed(s, S) ==
  /\ head[s] \in Piece => head[s] \in S
  /\ \A p \in S : word[p] \in Piece => word[p] \in S
Reached(s) == {p \in Piece : \A S \in SUBSET Piece : Closed(s, S) => p \in S}

(* No free piece is lost: the pieces of a slot that no object and no thread*)
(* has are all reached from its head, and nothing else is.                 *)
NoPieceLost == \A s \in Slots : Reached(s) = Free(s)

(* An object that is referred to has its header in place and a count of    *)
(* exactly its references: it is not freed before the last one is gone.    *)
RefsCounted ==
  \A p \in Piece : Live(p) =>
    /\ rc[p] = Count(p)
    /\ home[p[1]] \in Slots /\ word[p] = home[p[1]]
CountsExact == TypeOK /\ RefsCounted

(* The pool and the counts keep the promises of ObjectLife.                *)
Dying == {p \in Piece : \E t \in Threads :
            pc[t] \in {"destruct", "free", "chain", "put"} /\ q[t] = p}

Life == INSTANCE ObjectLife WITH Memory <- Piece, dying <- Dying
ImplementsLife == Life!Spec
=============================================================================
