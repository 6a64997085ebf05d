------------------------------ MODULE Monitor ------------------------------
(***************************************************************************)
(* The C_MUTEX of Include/c+/system/threads.hc in its Windows edition: a   *)
(* critical section and an auto-reset event, each created by the first     *)
(* thread that needs it.  Any number of threads may find the pointer null, *)
(* create an object and offer it with one compare-and-swap; the others     *)
(* delete theirs.                                                          *)
(*                                                                         *)
(* A step is one access to a shared pointer or one call of the system.     *)
(* The thread inside may lock again, as the task queue does when it        *)
(* finishes its lists.  Threads wait while they are inside, and have locked*)
(* once, as pairs of __Mutex_Lock and Mutex_Wait do everywhere: the        *)
(* creation of the critical section in Mutex_Wait never happens.           *)
(* Mutex_Free is left out.                                                 *)
(***************************************************************************)
EXTENDS Integers, FiniteSets

CONSTANTS
  Threads,
  Objs,     (* what malloc and CreateEvent may return                       *)
  Null,
  None,
  DEPTH,    (* bound: how often a thread locks                              *)
  TIMED     (* waits have a time-out                                        *)

ASSUME MonitorAssumption ==
  /\ TIMED \in BOOLEAN /\ DEPTH \in Nat \ {0} /\ IsFiniteSet(Threads)
  /\ Null \notin Objs /\ None \notin Threads

VARIABLES
  cs,       (* l->cs                                                        *)
  condwait, (* l->condwait                                                  *)
  made,     (* the system objects that exist                                *)
  owner,    (* critical section -> the thread inside                        *)
  depth,    (* critical section -> how often that thread has entered        *)
  set,      (* event -> whether it is set                                   *)
  pc,       (* thread -> where it is                                        *)
  tmp       (* thread -> the object it has created and not yet offered      *)

vars == <<cs, condwait, made, owner, depth, set, pc, tmp>>

PcValues == {"out", "lock", "offercs", "enter", "in", "wait", "offerwait", "leave",
             "sleep", "reenter", "notify", "offernotify", "set"}

Go(t, from, to) == pc[t] = from /\ pc' = [pc EXCEPT ![t] = to]
Back(t) == IF cs # Null /\ owner[cs] = t THEN "in" ELSE "out"

Init ==
  /\ cs = Null /\ condwait = Null /\ made = {}
  /\ owner = [o \in Objs |-> None] /\ depth = [o \in Objs |-> 0]
  /\ set = [o \in Objs |-> FALSE]
  /\ pc = [t \in Threads |-> "out"] /\ tmp = [t \in Threads |-> Null]

-----------------------------------------------------------------------------
(* malloc and InitializeCriticalSection, or CreateEvent.                   *)
Create(t) ==
  \E o \in Objs \ made :
    /\ made' = made \cup {o}
    /\ tmp' = [tmp EXCEPT ![t] = o]
    /\ owner' = [owner EXCEPT ![o] = None] /\ depth' = [depth EXCEPT ![o] = 0]
    /\ set' = [set EXCEPT ![o] = FALSE]

(* The pointer after the compare-and-swap, and what the loser deletes.     *)
Swapped_Blind(t, ptr) == tmp[t]
Swapped(t, ptr) == IF ptr = Null THEN tmp[t] ELSE ptr
Deleted_Nothing(t, ptr) == {}
Deleted(t, ptr) == IF ptr = Null THEN {} ELSE {tmp[t]}

Offered(t, ptr) ==
  /\ made' = made \ Deleted(t, ptr)
  /\ tmp' = [tmp EXCEPT ![t] = Null]
  /\ UNCHANGED <<owner, depth, set>>

Mutex_Init_CS(t) ==
  /\ Go(t, "lock", "offercs") /\ Create(t) /\ UNCHANGED <<cs, condwait>>
OfferCS(t) ==
  /\ Go(t, "offercs", "enter")
  /\ cs' = Swapped(t, cs) /\ Offered(t, cs) /\ UNCHANGED condwait

Mutex_Init_Condwait(t) ==
  /\ Go(t, "wait", "offerwait") \/ Go(t, "notify", "offernotify")
  /\ Create(t) /\ UNCHANGED <<cs, condwait>>
OfferCondwait(t) ==
  /\ Go(t, "offerwait", "leave") \/ Go(t, "offernotify", "set")
  /\ condwait' = Swapped(t, condwait) /\ Offered(t, condwait) /\ UNCHANGED cs

-----------------------------------------------------------------------------
Unmoved == UNCHANGED <<cs, condwait, made, tmp>>

(* The test of the pointer, unsynchronised.                                *)
Mutex_Lock(t) ==
  /\ Go(t, "out", IF cs = Null THEN "lock" ELSE "enter") /\ Unmoved
  /\ UNCHANGED <<owner, depth, set>>

EnterCriticalSection(t) ==
  /\ Go(t, "enter", "in") \/ Go(t, "reenter", "in")
  /\ owner[cs] = None /\ owner' = [owner EXCEPT ![cs] = t]
  /\ depth' = [depth EXCEPT ![cs] = @ + 1]
  /\ Unmoved /\ UNCHANGED set

(* The thread inside locks again: the pointer is there, and it need not    *)
(* wait.                                                                   *)
Mutex_Lock_Again(t) ==
  /\ pc[t] = "in" /\ owner[cs] = t
  /\ depth[cs] < DEPTH /\ depth' = [depth EXCEPT ![cs] = @ + 1]
  /\ Unmoved /\ UNCHANGED <<pc, owner, set>>

(* LeaveCriticalSection: the last unlock of the thread lets others in.     *)
Mutex_Unlock(t) ==
  /\ pc[t] = "in"
  /\ depth' = [depth EXCEPT ![cs] = @ - 1]
  /\ IF depth[cs] = 1
     THEN Go(t, "in", "out") /\ owner' = [owner EXCEPT ![cs] = None]
     ELSE UNCHANGED <<pc, owner>>
  /\ Unmoved /\ UNCHANGED set

Mutex_Wait(t) ==
  /\ Go(t, "in", IF condwait = Null THEN "wait" ELSE "leave")
  /\ depth[cs] = 1
  /\ Unmoved /\ UNCHANGED <<owner, depth, set>>

LeaveToWait(t) ==
  /\ Go(t, "leave", "sleep") /\ owner' = [owner EXCEPT ![cs] = None]
  /\ depth' = [depth EXCEPT ![cs] = @ - 1]
  /\ Unmoved /\ UNCHANGED set

(* WaitForSingleObject: the event is reset by the wait it ends.            *)
Reset_Never(t) == set
Reset(t) == [set EXCEPT ![condwait] = FALSE]

WaitForSingleObject(t) ==
  /\ Go(t, "sleep", "reenter")
  /\ \/ set[condwait] /\ set' = Reset(t)
     \/ TIMED /\ UNCHANGED set
  /\ Unmoved /\ UNCHANGED <<owner, depth>>

Mutex_Notify(t) ==
  /\ pc[t] \in {"in", "out"}
  /\ pc' = [pc EXCEPT ![t] = IF condwait = Null THEN "notify" ELSE "set"]
  /\ Unmoved /\ UNCHANGED <<owner, depth, set>>

SetEvent(t) ==
  /\ Go(t, "set", Back(t)) /\ set' = [set EXCEPT ![condwait] = TRUE]
  /\ Unmoved /\ UNCHANGED <<owner, depth>>

Next ==
  \E t \in Threads :
    \/ Mutex_Lock(t) \/ Mutex_Init_CS(t) \/ OfferCS(t) \/ EnterCriticalSection(t)
    \/ Mutex_Lock_Again(t) \/ Mutex_Unlock(t)
    \/ Mutex_Wait(t) \/ Mutex_Init_Condwait(t) \/ OfferCondwait(t)
    \/ LeaveToWait(t) \/ WaitForSingleObject(t)
    \/ Mutex_Notify(t) \/ SetEvent(t)

Spec == Init /\ [][Next]_vars

-----------------------------------------------------------------------------
(* Properties.                                                             *)

(* Every variable keeps its type; a thread holds a new object of its own   *)
(* exactly between its creation and its offer; a section that is entered   *)
(* has its thread.                                                         *)
TypeOK ==
  /\ cs \in Objs \cup {Null} /\ condwait \in Objs \cup {Null}
  /\ made \subseteq Objs
  /\ owner \in [Objs -> Threads \cup {None}] /\ depth \in [Objs -> 0 .. DEPTH]
  /\ \A o \in Objs : owner[o] = None <=> depth[o] = 0
  /\ set \in [Objs -> BOOLEAN]
  /\ pc \in [Threads -> PcValues] /\ tmp \in [Threads -> Objs \cup {Null}]
  /\ \A t \in Threads : tmp[t] # Null <=> pc[t] \in {"offercs", "offerwait", "offernotify"}

(* Whatever the race of the first uses, no system object is lost and none  *)
(* is used after its deletion: what exists is what the two pointers and    *)
(* the hands of the creating threads hold, each once.                      *)
HandsOf == {t \in Threads : tmp[t] # Null}
NothingLeaked ==
  /\ TypeOK
  /\ made = {tmp[t] : t \in HandsOf} \cup ({cs, condwait} \ {Null})
  /\ Cardinality(made) = Cardinality(HandsOf) + (IF cs = Null THEN 0 ELSE 1)
                                              + (IF condwait = Null THEN 0 ELSE 1)

(* One thread is between Mutex_Lock and its last Mutex_Unlock at a time,   *)
(* although the critical section is created by the threads that want to    *)
(* enter it.                                                               *)
Inside == {t \in Threads : pc[t] \in {"in", "wait", "offerwait", "leave"}}
OneInside ==
  /\ \A t, u \in Inside : t = u
  /\ \A t \in Inside : cs # Null /\ owner[cs] = t

(* The lazily built mutex refines WaitMonitor: nobody enters a second      *)
(* critical section, and no notification goes to an event that is deleted. *)
Abstract == INSTANCE WaitMonitor WITH
  owner  <- IF cs = Null THEN None ELSE owner[cs],
  asleep <- {t \in Threads : pc[t] = "sleep"},
  woken  <- {t \in Threads : pc[t] = "reenter"},
  signal <- condwait # Null /\ set[condwait]
ImplementsMonitor == Abstract!Spec

=============================================================================
