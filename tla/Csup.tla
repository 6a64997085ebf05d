-------------------------------- MODULE Csup --------------------------------
(***************************************************************************)
(* Errors, scopes and the autorelease pool of Include/c+/csup/csupport.hc, *)
(* with the interlocked sections of Include/c+/C+.hc.  Each thread has a   *)
(* pool of temporaries and a stack of jump buffers.  __Auto_Release and    *)
(* __Try clean up at their end what was pooled inside them; a raise first  *)
(* unlocks the sections entered since the innermost __Try, then cleans up, *)
(* then jumps.                                                             *)
(*                                                                         *)
(* stack is the C stack of a thread, reduced to the blocks and calls that  *)
(* have something to undo.  What the client code does next is free, as     *)
(* long as blocks nest.  All state but the locks and the counts of         *)
(* references is private to a thread, so that one step is one call, except *)
(* that a truncation and a release hand control to the cleanup of every    *)
(* single entry.  The error record and the growth of the arrays are left   *)
(* out.                                                                    *)
(***************************************************************************)
EXTENDS Integers, Sequences, FiniteSets

CONSTANTS
  Threads,
  LOCKS,     (* there are sections for LOCKS locks, 1 .. LOCKS              *)
  Mutexes,   (* the locks that the thread inside may enter again            *)
  Ptrs,      (* what may be pooled: objects, by their address               *)
  Nil,       (* the null pointer                                            *)
  CSCOUNT,   (* C_MAX_CS_COUNT (7 in the code)                              *)
  DEPTH,     (* thread -> bound of its C stack                              *)
  POOLMAX,   (* thread -> bound of its pool                                 *)
  REFMAX     (* bound of the references to an object                        *)

ASSUME CsupAssumption ==
  /\ LOCKS \in Nat /\ CSCOUNT \in Nat \ {0} /\ DEPTH \in [Threads -> Nat]
  /\ POOLMAX \in [Threads -> Nat] /\ REFMAX \in Nat /\ Nil \notin Ptrs

VARIABLES
  stack,      (* thread -> its blocks and calls, innermost last             *)
  jb,         (* thread -> nfo->jb[0 .. jb_top]                             *)
  pool,       (* thread -> nfo->auto_pool[0 .. auto_top]                    *)
  unwinding,  (* thread -> nfo->stats.unwinding                             *)
  lock,       (* lock, thread -> how often the thread has entered           *)
  refs,       (* object -> its reference count, 0 when it is gone           *)
  own,        (* object -> references held outside the pools                *)
  halted      (* why C_Fatal aborted the program                            *)

vars == <<stack, jb, pool, unwinding, lock, refs, own, halted>>

Locks == 1 .. LOCKS
Kinds == {"try", "auto", "lock", "release", "clean", "endauto", "endtry", "raise"}

(* n: the breaker of a scope, the lock of a section, or the entry that is  *)
(* being cleaned up; keep: the pointer handed over; kept: it was met.      *)
Frame(kind, n, keep) == [kind |-> kind, n |-> n, keep |-> keep, kept |-> FALSE]

Top(s) == s[Len(s)]
Front(s) == SubSeq(s, 1, Len(s) - 1)
AtTop(t, kinds) == stack[t] # <<>> /\ Top(stack[t]).kind \in kinds
Going == halted = "no"

Init ==
  /\ stack = [t \in Threads |-> <<>>]
  /\ jb = [t \in Threads |-> <<>>]
  /\ pool = [t \in Threads |-> <<>>]
  /\ unwinding = [t \in Threads |-> FALSE]
  /\ lock = [l \in Locks |-> [t \in Threads |-> 0]]
  /\ refs = [p \in Ptrs |-> 0]
  /\ own = [p \in Ptrs |-> 0]
  /\ halted = "no"

Fatal(why) ==
  /\ halted' = why
  /\ UNCHANGED <<stack, jb, pool, unwinding, lock, refs, own>>

-----------------------------------------------------------------------------
(* What may run when.                                                      *)

(* The thread executes client code: a body, a handler or a destructor.     *)
Running(t) == Going /\ ~AtTop(t, {"endauto", "endtry", "raise"})

(* A destructor run by a truncation leaves the pool alone and opens no     *)
(* scope, as none in Include/c+ does: the end of an inner scope would      *)
(* reset unwinding, an entry left behind would be taken for its own.       *)
Calm(t) == Running(t) /\ ~unwinding[t]

(* No destructor in Include/c+ raises when the program releases an object: *)
(* the entry is still in the pool and would be cleaned up twice.           *)
Releasing(t, from) == \E i \in from .. Len(stack[t]) : stack[t][i].kind = "release"

Busy(t) == {stack[t][i].n : i \in {j \in DOMAIN stack[t] : stack[t][j].kind \in {"release", "clean"}}}
Where(t, p) == {i \in DOMAIN pool[t] : pool[t][i] = p /\ i \notin Busy(t)}
Highest(S) == CHOOSE i \in S : \A j \in S : j <= i

Enter(t, frame) ==
  /\ Len(stack[t]) < DEPTH[t]
  /\ stack' = [stack EXCEPT ![t] = Append(@, frame)]

-----------------------------------------------------------------------------
(* Sections: __Interlock_Opt with C_JmpBuf_Push_Cs and C_JmpBuf_Pop_Cs.    *)

(* A slot of a jump buffer holds a lock.  Slots of one lock are alike; here *)
(* the place of the section in the stack tells them apart.                 *)
Slot(l, i) == [cs |-> l, at |-> i]
SlotsOf(t, k, l) == {i \in DOMAIN stack[t] : Slot(l, i) \in jb[t][k].locks}
OnTop(t, l) == SlotsOf(t, Len(jb[t]), l)

Recorded(t) == jb[t] # <<>> /\ ~unwinding[t]
JmpBuf_Push(t, l) ==
  jb' = [jb EXCEPT ![t][Len(jb[t])].locks = @ \cup {Slot(l, Len(stack[t]) + 1)}]
JmpBuf_Pop(t, l) ==
  jb' = [jb EXCEPT ![t][Len(jb[t])].locks = @ \ {Slot(l, Highest(OnTop(t, l)))}]

(* A mutex lets its thread in again (__Mutex_Lock), a spin lock does not:  *)
(* a thread that enters it twice spins for ever (__Xchg_Interlock).        *)
Free(t, l) ==
  /\ \A u \in Threads \ {t} : lock[l][u] = 0
  /\ lock[l][t] > 0 => l \in Mutexes

EnterLock(t, l) ==
  /\ Running(t) /\ Free(t, l)
  /\ IF Recorded(t) /\ Cardinality(Top(jb[t]).locks) >= CSCOUNT
       THEN Fatal("slots")
       ELSE /\ Enter(t, Frame("lock", l, Nil))
            /\ lock' = [lock EXCEPT ![l][t] = @ + 1]
            /\ IF Recorded(t) THEN JmpBuf_Push(t, l) ELSE UNCHANGED jb
            /\ UNCHANGED <<pool, unwinding, refs, own, halted>>

LeaveLock(t) ==
  /\ Running(t) /\ AtTop(t, {"lock"})
  /\ LET l == Top(stack[t]).n IN
       IF Recorded(t) /\ OnTop(t, l) = {}
         THEN Fatal("pop")
         ELSE /\ stack' = [stack EXCEPT ![t] = Front(@)]
              /\ lock' = [lock EXCEPT ![l][t] = @ - 1]
              /\ IF Recorded(t) THEN JmpBuf_Pop(t, l) ELSE UNCHANGED jb
              /\ UNCHANGED <<pool, unwinding, refs, own, halted>>

-----------------------------------------------------------------------------
(* The pool: __Pool_Ptr, __Unpool, __Refresh_Ptr.                          *)

Refer(p, d) == refs' = [refs EXCEPT ![p] = @ + d]
AppendTo(t, p) == Len(pool[t]) < POOLMAX[t] /\ pool' = [pool EXCEPT ![t] = Append(@, p)]

(* A new object comes with one reference, which the pool holds.            *)
PoolNew(t, p) ==
  /\ Calm(t) /\ refs[p] = 0 /\ AppendTo(t, p)
  /\ Refer(p, 1)
  /\ UNCHANGED <<stack, jb, unwinding, lock, own, halted>>

(* __Pool_RefPtr(__Refe(p)): one more reference for the pool.  A pointer   *)
(* that an open __Try hands over is pooled once in it.                     *)
PoolRef(t, p) ==
  /\ Calm(t) /\ refs[p] \in 1 .. REFMAX - 1 /\ AppendTo(t, p)
  /\ \A i \in DOMAIN stack[t] : stack[t][i].keep # p
  /\ Refer(p, 1)
  /\ UNCHANGED <<stack, jb, unwinding, lock, own, halted>>

(* __Retain: the reference of the topmost entry passes to the program.     *)
Retain(t, p) ==
  /\ Calm(t) /\ Where(t, p) # {}
  /\ pool' = [pool EXCEPT ![t][Highest(Where(t, p))] = Nil]
  /\ own' = [own EXCEPT ![p] = @ + 1]
  /\ UNCHANGED <<stack, jb, unwinding, lock, refs, halted>>

(* __Unrefe of a reference outside the pools.                              *)
Drop(t, p) ==
  /\ Running(t) /\ own[p] > 0
  /\ own' = [own EXCEPT ![p] = @ - 1]
  /\ Refer(p, -1)
  /\ UNCHANGED <<stack, jb, pool, unwinding, lock, halted>>

(* __Release: the cleanup runs first, the entry is emptied afterwards.     *)
Release(t, p) ==
  /\ Calm(t) /\ Where(t, p) # {}
  /\ Enter(t, Frame("release", Highest(Where(t, p)), Nil))
  /\ Refer(p, -1)
  /\ UNCHANGED <<jb, pool, unwinding, lock, own, halted>>

Emptied_Forgotten(t) == pool
Emptied(t) == [pool EXCEPT ![t][Top(stack[t]).n] = Nil]

ReleaseDone(t) ==
  /\ Running(t) /\ AtTop(t, {"release"})
  /\ pool' = Emptied(t)
  /\ stack' = [stack EXCEPT ![t] = Front(@)]
  /\ UNCHANGED <<jb, unwinding, lock, refs, own, halted>>

(* __Refresh: realloc has moved old to new; old is not cleaned up.         *)
Refresh(t, old, new) ==
  /\ Calm(t) /\ refs[old] = 1 /\ refs[new] = 0
  /\ own[old] = 1 \/ Where(t, old) # {}
  /\ IF Where(t, old) = {}
       THEN Fatal("pool")
       ELSE /\ pool' = [pool EXCEPT ![t][Highest(Where(t, old))] = new]
            /\ refs' = [refs EXCEPT ![old] = 0, ![new] = 1]
            /\ UNCHANGED <<stack, jb, unwinding, lock, own, halted>>

-----------------------------------------------------------------------------
(* Scopes: __Auto_Release, __Try and _C_Raise.                             *)

EnterAuto(t) ==
  /\ Calm(t) /\ Enter(t, Frame("auto", Len(pool[t]), Nil))
  /\ UNCHANGED <<jb, pool, unwinding, lock, refs, own, halted>>

(* C_Push_JmpBuf; __Try_Ptr evaluates the pointer it hands over here.      *)
NewJmpBuf_StaleLocks(t) ==
  [env |-> Len(stack[t]) + 1, top |-> Len(pool[t]),
   locks |-> IF jb[t] = <<>> THEN {} ELSE Top(jb[t]).locks]
NewJmpBuf(t) == [env |-> Len(stack[t]) + 1, top |-> Len(pool[t]), locks |-> {}]

EnterTry(t, keep) ==
  /\ Calm(t) /\ Enter(t, Frame("try", Len(pool[t]), keep))
  /\ keep # Nil => refs[keep] > 0
  /\ jb' = [jb EXCEPT ![t] = Append(@, NewJmpBuf(t))]
  /\ UNCHANGED <<pool, unwinding, lock, refs, own, halted>>

(* __Pool_Truncate begins for the innermost block.                         *)
Truncate(t, kind, breaker, keep) ==
  /\ stack' = [stack EXCEPT ![t][Len(stack[t])] = Frame(kind, breaker, keep)]
  /\ unwinding' = [unwinding EXCEPT ![t] = TRUE]
  /\ UNCHANGED <<jb, pool, lock, refs, own, halted>>

(* A pointer handed over was pooled once in the block: of two entries      *)
(* __Pool_Truncate would keep one and drop the other with its reference.   *)
LeaveAuto(t, keep) ==
  /\ Calm(t) /\ AtTop(t, {"auto"})
  /\ keep # Nil => Cardinality({i \in Where(t, keep) : i > Top(stack[t]).n}) = 1
  /\ Truncate(t, "endauto", Top(stack[t]).n, keep)

LeaveTry(t) ==
  /\ Calm(t) /\ AtTop(t, {"try"})
  /\ Truncate(t, "endtry", Top(jb[t]).top, Top(stack[t]).keep)

(* The locks of the innermost jump buffer are unlocked and the frames      *)
(* above its setjmp are abandoned; the pool is truncated next.             *)
Abandoned(t) == Top(jb[t]).env + 1
Unlocked_Once(t) ==
  [l \in Locks |-> [lock[l] EXCEPT ![t] = IF OnTop(t, l) = {} THEN @ ELSE @ - 1]]
Unlocked(t) == [l \in Locks |-> [lock[l] EXCEPT ![t] = @ - Cardinality(OnTop(t, l))]]

Raise(t) ==
  /\ Running(t)
  /\ IF jb[t] = <<>> \/ unwinding[t]
       THEN Fatal("raise")
       ELSE /\ ~Releasing(t, Abandoned(t))
            /\ lock' = Unlocked(t)
            /\ stack' = [stack EXCEPT ![t] =
                 Append(SubSeq(@, 1, Top(jb[t]).env), Frame("raise", Top(jb[t]).top, Nil))]
            /\ unwinding' = [unwinding EXCEPT ![t] = TRUE]
            /\ UNCHANGED <<jb, pool, refs, own, halted>>

(* The loop of __Pool_Truncate, from auto_top down to the breaker.         *)
Truncating(t) == Going /\ AtTop(t, {"endauto", "endtry", "raise"})
More(t) == Len(pool[t]) > Top(stack[t]).n
Spared(t) == Top(pool[t]) \in {Nil, Top(stack[t]).keep}

Clean(t) ==
  /\ Truncating(t) /\ More(t) /\ ~Spared(t)
  /\ stack' = [stack EXCEPT ![t] = Append(@, Frame("clean", Len(pool[t]), Nil))]
  /\ Refer(Top(pool[t]), -1)
  /\ UNCHANGED <<jb, pool, unwinding, lock, own, halted>>

Lower(t) == pool' = [pool EXCEPT ![t] = Front(@)]

CleanDone(t) ==
  /\ Running(t) /\ AtTop(t, {"clean"})
  /\ stack' = [stack EXCEPT ![t] = Front(@)]
  /\ Lower(t)
  /\ UNCHANGED <<jb, unwinding, lock, refs, own, halted>>

Spare(t) ==
  /\ Truncating(t) /\ More(t) /\ Spared(t)
  /\ stack' = [stack EXCEPT ![t][Len(stack[t])].kept = @ \/ Top(pool[t]) # Nil]
  /\ Lower(t)
  /\ UNCHANGED <<jb, unwinding, lock, refs, own, halted>>

(* The end of the loop: the pointer handed over is pooled again, in the    *)
(* block around; a raise and the end of a __Try drop the jump buffer, and  *)
(* longjmp goes to its handler, after the __Try.                           *)
Landing(t) == SubSeq(stack[t], 1, Top(jb[t]).env - 1)
HandOver_Nothing(t) == pool[t]
HandOver(t) == IF Top(stack[t]).kept THEN Append(pool[t], Top(stack[t]).keep) ELSE pool[t]
DropJmpBuf_OnRaise(t) == IF AtTop(t, {"raise"}) THEN [jb EXCEPT ![t] = Front(@)] ELSE jb
DropJmpBuf(t) == IF AtTop(t, {"endauto"}) THEN jb ELSE [jb EXCEPT ![t] = Front(@)]

TruncateDone(t) ==
  /\ Truncating(t) /\ ~More(t)
  /\ stack' = [stack EXCEPT ![t] = IF AtTop(t, {"raise"}) THEN Landing(t) ELSE Front(@)]
  /\ pool' = [pool EXCEPT ![t] = HandOver(t)]
  /\ jb' = DropJmpBuf(t)
  /\ unwinding' = [unwinding EXCEPT ![t] = FALSE]
  /\ UNCHANGED <<lock, refs, own, halted>>

Next ==
  \E t \in Threads :
    \/ \E l \in Locks : EnterLock(t, l)
    \/ LeaveLock(t)
    \/ \E p \in Ptrs : \/ PoolNew(t, p) \/ PoolRef(t, p) \/ Retain(t, p)
                       \/ Drop(t, p) \/ Release(t, p)
    \/ ReleaseDone(t)
    \/ \E old, new \in Ptrs : Refresh(t, old, new)
    \/ EnterAuto(t)
    \/ \E keep \in Ptrs \cup {Nil} : EnterTry(t, keep) \/ LeaveAuto(t, keep)
    \/ LeaveTry(t)
    \/ Raise(t)
    \/ Clean(t) \/ CleanDone(t) \/ Spare(t) \/ TruncateDone(t)

Spec == Init /\ [][Next]_vars

-----------------------------------------------------------------------------
(* Properties.                                                             *)

Frames(t, kinds) == {i \in DOMAIN stack[t] : stack[t][i].kind \in kinds}
Scopes == {"auto", "try", "endauto", "endtry", "raise"}

(* Every variable keeps its type.                                          *)
TypeOK ==
  /\ stack \in [Threads -> Seq([kind : Kinds, n : Nat, keep : Ptrs \cup {Nil}, kept : BOOLEAN])]
  /\ jb \in [Threads -> Seq([env : Nat \ {0}, top : Nat, locks : SUBSET [cs : Locks, at : Nat]])]
  /\ pool \in [Threads -> Seq(Ptrs \cup {Nil})]
  /\ unwinding \in [Threads -> BOOLEAN]
  /\ lock \in [Locks -> [Threads -> Nat]]
  /\ refs \in [Ptrs -> Nat] /\ own \in [Ptrs -> Nat]
  /\ halted \in {"no", "raise", "slots", "pop", "pool"}

(* A lock is taken as often as sections for it are open, and in one thread *)
(* only: __Interlock_Opt excludes, and a raise through any number of       *)
(* sections, of one lock or several, unlocks each of them once and none of *)
(* those around the __Try that it ends.                                    *)
SectionsExclusive ==
  \A l \in Locks :
    /\ \A t \in Threads :
         lock[l][t] = Cardinality({i \in Frames(t, {"lock"}) : stack[t][i].n = l})
    /\ \A t, u \in Threads : t # u => lock[l][t] = 0 \/ lock[l][u] = 0

(* A program aborts only for its own fault: it raises outside of any       *)
(* __Try or in a destructor that a truncation runs, it nests more sections *)
(* than C_MAX_CS_COUNT in one __Try, or refreshes what is not pooled.      *)
FatalJustified ==
  /\ halted = "raise" => \E t \in Threads : jb[t] = <<>> \/ Frames(t, {"clean"}) # {}
  /\ halted = "slots" =>
       \E t \in Threads : Cardinality(Frames(t, {"lock"})) >= CSCOUNT

(* The jump buffers of a thread are those of its open __Try blocks, in     *)
(* order: longjmp in _C_Raise goes to the innermost of them, whose frame   *)
(* is still there, and the saved auto_top is where its pool began.  A      *)
(* raise that finds none aborts, rightly.                                  *)
HandlersLive ==
  /\ FatalJustified
  /\ \A t \in Threads :
       /\ {jb[t][k].env : k \in DOMAIN jb[t]} = Frames(t, {"try", "endtry"})
                         \cup {i - 1 : i \in Frames(t, {"raise"})}
       /\ \A k \in DOMAIN jb[t] : /\ k > 1 => jb[t][k - 1].env < jb[t][k].env
                                  /\ stack[t][jb[t][k].env].n = jb[t][k].top

(* Scopes own consecutive parts of the pool, inner ones above outer ones:  *)
(* what a scope cleans up at its end was pooled inside it.                 *)
ScopesNest ==
  \A t \in Threads :
    /\ \A i, j \in Frames(t, Scopes) : i < j => stack[t][i].n <= stack[t][j].n
    /\ \A i \in Frames(t, Scopes) : stack[t][i].n <= Len(pool[t])
    /\ \A i \in Frames(t, {"release"}) : stack[t][i].n \in DOMAIN pool[t]
    /\ \A i \in Frames(t, {"clean"}) : stack[t][i].n = Len(pool[t])

(* A jump buffer records the sections that were entered since its __Try    *)
(* and before the next, those of destructors run by a truncation excepted: *)
(* C_JmpBuf_Pop_Cs never misses its lock, _C_Raise never misses one.       *)
Since(t, k) ==
  {i \in Frames(t, {"lock"}) :
     /\ i > jb[t][k].env
     /\ k < Len(jb[t]) => i < jb[t][k + 1].env
     /\ \A c \in Frames(t, {"clean"}) : i < c}

RecordsExact ==
  /\ TypeOK /\ ScopesNest
  /\ halted # "pop"
  /\ \A t \in Threads : \A k \in DOMAIN jb[t] :
       (k < Len(jb[t]) \/ Frames(t, {"raise"}) = {})
         => jb[t][k].locks = {Slot(stack[t][i].n, i) : i \in Since(t, k)}

(* The references of an object are those the program holds and one for     *)
(* each entry of a pool, one in the hand of a truncation included: every   *)
(* path out of a scope releases each temporary once, while __Retain and    *)
(* the pointer handed over keep theirs.                                    *)
Pooled(p) == UNION {{<<t, i>> : i \in Where(t, p)} : t \in Threads}
InHand(p) ==
  {t \in Threads : \E i \in DOMAIN stack[t] : stack[t][i].kept /\ stack[t][i].keep = p}
RefsExact ==
  \A p \in Ptrs : refs[p] = own[p] + Cardinality(Pooled(p)) + Cardinality(InHand(p))

=============================================================================
