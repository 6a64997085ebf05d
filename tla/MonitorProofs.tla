--------------------------- MODULE MonitorProofs ----------------------------
(***************************************************************************)
(* Theorems about Monitor, for any finite set of threads and any supply of *)
(* system objects.  Every pointer is set once, to an object that is nobody *)
(* else's, so that a thread may use what it reads there without a lock.    *)
(***************************************************************************)
EXTENDS Monitor, FiniteSetTheorems, TLAPS

(* The two pointers and the hands of the threads hold different objects,   *)
(* and one in a hand is as it was created.                                 *)
HandsInv ==
  /\ cs # Null => cs # condwait
  /\ \A t \in Threads : tmp[t] # Null =>
       /\ tmp[t] # cs /\ tmp[t] # condwait
       /\ \A u \in Threads : tmp[u] = tmp[t] => u = t
       /\ owner[tmp[t]] = None /\ set[tmp[t]] = FALSE

(* What a thread knows at its place.                                       *)
PlaceInv ==
  \A t \in Threads :
    /\ pc[t] \in {"in", "wait", "offerwait", "leave"} => cs # Null /\ owner[cs] = t
    /\ pc[t] \in {"enter", "reenter", "sleep"} => cs # Null
    /\ pc[t] \in {"wait", "offerwait", "leave"} => depth[cs] = 1
    /\ pc[t] \in {"leave", "sleep", "set"} => condwait # Null

MadeInv == made = {tmp[t] : t \in HandsOf} \cup ({cs, condwait} \ {Null})

Held == (IF cs = Null THEN 0 ELSE 1) + (IF condwait = Null THEN 0 ELSE 1)
CountInv == IsFiniteSet(made) /\ Cardinality(made) = Cardinality(HandsOf) + Held

IInv == TypeOK /\ HandsInv /\ PlaceInv /\ MadeInv /\ CountInv

LEMMA HandsFinite == IsFiniteSet(HandsOf) /\ Cardinality(HandsOf) \in Nat
<1>1. HandsOf \subseteq Threads BY DEF HandsOf
<1> QED BY <1>1, MonitorAssumption, FS_Subset, FS_CardinalityType

LEMMA InitIInv == Init => IInv
<1> SUFFICES ASSUME Init PROVE IInv
  OBVIOUS
<1>1. TypeOK /\ HandsInv /\ PlaceInv
  BY MonitorAssumption DEF Init, TypeOK, PcValues, HandsInv, PlaceInv
<1>2. HandsOf = {}
  BY DEF Init, HandsOf
<1>3. MadeInv
  BY <1>2 DEF Init, MadeInv
<1>4. CountInv
  BY <1>2, FS_EmptySet DEF Init, CountInv, Held
<1> QED BY <1>1, <1>3, <1>4 DEF IInv

-----------------------------------------------------------------------------
(* The steps that create and offer objects                                 *)

Creates(t) == Mutex_Init_CS(t) \/ Mutex_Init_Condwait(t)

LEMMA CreateKeeps ==
  ASSUME IInv, NEW t \in Threads, Creates(t)
  PROVE  IInv'
<1>1. PICK o \in Objs \ made :
        /\ made' = made \cup {o}
        /\ tmp' = [tmp EXCEPT ![t] = o]
        /\ owner' = [owner EXCEPT ![o] = None] /\ depth' = [depth EXCEPT ![o] = 0]
        /\ set' = [set EXCEPT ![o] = FALSE]
  BY DEF Creates, Mutex_Init_CS, Mutex_Init_Condwait, Create
<1>2. /\ UNCHANGED <<cs, condwait>>
      /\ \/ pc[t] = "lock" /\ pc' = [pc EXCEPT ![t] = "offercs"]
         \/ pc[t] = "wait" /\ pc' = [pc EXCEPT ![t] = "offerwait"]
         \/ pc[t] = "notify" /\ pc' = [pc EXCEPT ![t] = "offernotify"]
  BY DEF Creates, Mutex_Init_CS, Mutex_Init_Condwait, Go
<1>3. TypeOK /\ tmp[t] = Null /\ o # Null
  BY <1>2, MonitorAssumption DEF IInv, TypeOK
<1>4. o # cs /\ o # condwait /\ \A u \in Threads : tmp[u] # o
  BY <1>3 DEF IInv, MadeInv, HandsOf
<1>5. tmp'[t] = o /\ \A u \in Threads : u # t => tmp'[u] = tmp[u]
  BY <1>1, <1>3 DEF TypeOK
<1>6. /\ owner'[o] = None /\ depth'[o] = 0 /\ set'[o] = FALSE
      /\ \A x \in Objs : x # o => owner'[x] = owner[x] /\ depth'[x] = depth[x] /\ set'[x] = set[x]
  BY <1>1, <1>3 DEF TypeOK
<1>7. TypeOK'
  <2>1. pc' \in [Threads -> PcValues]
    BY <1>2, <1>3 DEF TypeOK, PcValues
  <2>2. \A u \in Threads : tmp'[u] # Null <=> pc'[u] \in {"offercs", "offerwait", "offernotify"}
    BY <1>2, <1>3, <1>5 DEF TypeOK
  <2>3. depth' \in [Objs -> 0 .. DEPTH] /\ \A x \in Objs : owner'[x] = None <=> depth'[x] = 0
    BY <1>1, <1>3, <1>6, MonitorAssumption DEF TypeOK
  <2> QED BY <1>1, <1>2, <1>3, <2>1, <2>2, <2>3 DEF TypeOK
<1>8. HandsInv'
  BY <1>2, <1>3, <1>4, <1>5, <1>6 DEF IInv, HandsInv, TypeOK
<1>9. PlaceInv'
  BY <1>2, <1>3, <1>4, <1>6 DEF IInv, PlaceInv, TypeOK
<1>10. HandsOf' = HandsOf \cup {t} /\ t \notin HandsOf
  BY <1>3, <1>5 DEF HandsOf
<1>11. MadeInv'
  BY <1>1, <1>2, <1>3, <1>5, <1>10 DEF IInv, MadeInv, HandsOf
<1>12. CountInv'
  <2>1. IsFiniteSet(made') /\ Cardinality(made') = Cardinality(made) + 1
    BY <1>1, FS_AddElement DEF IInv, CountInv
  <2>2. Cardinality(HandsOf') = Cardinality(HandsOf) + 1
    BY <1>10, HandsFinite, FS_AddElement
  <2>3. Held' = Held /\ Held \in Nat
    BY <1>2 DEF Held
  <2> QED BY <2>1, <2>2, <2>3, HandsFinite DEF IInv, CountInv
<1> QED BY <1>7, <1>8, <1>9, <1>11, <1>12 DEF IInv

(* What an offer does to the hands and to what exists: ptr is the pointer  *)
(* it is made to.                                                          *)
Offers(t) == OfferCS(t) \/ OfferCondwait(t)

LEMMA OfferTo ==
  ASSUME IInv, NEW t \in Threads, Offers(t)
  PROVE  /\ tmp[t] \in Objs /\ tmp[t] # Null /\ tmp[t] \in made
         /\ tmp'[t] = Null /\ \A u \in Threads : u # t => tmp'[u] = tmp[u]
         /\ tmp' = [tmp EXCEPT ![t] = Null] /\ UNCHANGED <<owner, depth, set>>
         /\ \/ /\ pc[t] = "offercs" /\ pc' = [pc EXCEPT ![t] = "enter"]
               /\ UNCHANGED condwait
               /\ \/ cs = Null /\ cs' = tmp[t] /\ made' = made
                  \/ cs # Null /\ cs' = cs /\ made' = made \ {tmp[t]}
            \/ /\ \/ pc[t] = "offerwait" /\ pc' = [pc EXCEPT ![t] = "leave"]
                  \/ pc[t] = "offernotify" /\ pc' = [pc EXCEPT ![t] = "set"]
               /\ UNCHANGED cs
               /\ \/ condwait = Null /\ condwait' = tmp[t] /\ made' = made
                  \/ condwait # Null /\ condwait' = condwait /\ made' = made \ {tmp[t]}
<1>1. tmp' = [tmp EXCEPT ![t] = Null] /\ UNCHANGED <<owner, depth, set>>
  BY DEF Offers, OfferCS, OfferCondwait, Offered
<1>2. TypeOK /\ pc[t] \in {"offercs", "offerwait", "offernotify"}
  BY DEF IInv, Offers, OfferCS, OfferCondwait, Go
<1>3. tmp[t] \in Objs /\ tmp[t] # Null
  BY <1>2, MonitorAssumption DEF TypeOK
<1>4. tmp[t] \in made
  BY <1>3 DEF IInv, MadeInv, HandsOf
<1>5. tmp'[t] = Null /\ \A u \in Threads : u # t => tmp'[u] = tmp[u]
  BY <1>1, <1>2 DEF TypeOK
<1>6. CASE OfferCS(t)
  BY <1>1, <1>3, <1>4, <1>5, <1>6 DEF OfferCS, Go, Offered, Swapped, Deleted
<1>7. CASE OfferCondwait(t)
  BY <1>1, <1>3, <1>4, <1>5, <1>7 DEF OfferCondwait, Go, Offered, Swapped, Deleted
<1> QED BY <1>6, <1>7 DEF Offers

LEMMA OfferKeeps ==
  ASSUME IInv, NEW t \in Threads, Offers(t)
  PROVE  IInv'
<1> USE OfferTo
<1>1. TypeOK /\ HandsInv /\ PlaceInv /\ MadeInv /\ CountInv
  BY DEF IInv
<1>2. TypeOK'
  <2>1. pc' \in [Threads -> PcValues]
    BY <1>1 DEF TypeOK, PcValues
  <2>2. \A u \in Threads : tmp'[u] # Null <=> pc'[u] \in {"offercs", "offerwait", "offernotify"}
    BY <1>1 DEF TypeOK
  <2> QED BY <1>1, <2>1, <2>2 DEF TypeOK
<1>3. HandsInv'
  BY <1>1 DEF HandsInv
<1>4. PlaceInv'
  BY <1>1 DEF PlaceInv, TypeOK
<1>5. HandsOf' = HandsOf \ {t} /\ t \in HandsOf
  BY <1>1 DEF HandsOf
<1>6. \A x \in {tmp[u] : u \in HandsOf} : x # tmp[t] => x \in {tmp'[u] : u \in HandsOf'}
  BY <1>5 DEF HandsOf
<1>7. {tmp'[u] : u \in HandsOf'} = {tmp[u] : u \in HandsOf} \ {tmp[t]}
  BY <1>1, <1>5, <1>6 DEF HandsOf, HandsInv
<1>8. MadeInv'
  BY <1>1, <1>5, <1>7 DEF MadeInv, HandsInv
<1>9. CountInv'
  <2>1. Cardinality(HandsOf') = Cardinality(HandsOf) - 1
    BY <1>5, HandsFinite, FS_RemoveElement
  <2>2. \/ made' = made /\ Held' = Held + 1
        \/ made' = made \ {tmp[t]} /\ Held' = Held
    BY <1>1 DEF Held
  <2>3. /\ tmp[t] \in made /\ IsFiniteSet(made)
        /\ Cardinality(made) = Cardinality(HandsOf) + Held
    BY <1>1 DEF CountInv
  <2>4. /\ IsFiniteSet(made \ {tmp[t]})
        /\ Cardinality(made \ {tmp[t]}) = Cardinality(made) - 1
    BY <2>3, FS_RemoveElement
  <2>5. Held \in Nat /\ Cardinality(HandsOf) \in Nat
    BY HandsFinite DEF Held
  <2>6. CASE made' = made /\ Held' = Held + 1
    BY ONLY <2>1, <2>3, <2>5, <2>6 DEF CountInv
  <2>7. CASE made' = made \ {tmp[t]} /\ Held' = Held
    BY ONLY <2>1, <2>3, <2>4, <2>5, <2>7 DEF CountInv
  <2> QED BY <2>2, <2>6, <2>7
<1> QED BY <1>2, <1>3, <1>4, <1>8, <1>9 DEF IInv

-----------------------------------------------------------------------------
(* The steps that make nothing                                             *)

Uses(t) ==
  \/ Mutex_Lock(t) \/ EnterCriticalSection(t) \/ Mutex_Lock_Again(t) \/ Mutex_Unlock(t)
  \/ Mutex_Wait(t) \/ LeaveToWait(t) \/ WaitForSingleObject(t)
  \/ Mutex_Notify(t) \/ SetEvent(t)

LEMMA UsesNothing ==
  ASSUME NEW t \in Threads, Uses(t)
  PROVE  cs' = cs /\ condwait' = condwait /\ made' = made /\ tmp' = tmp
  BY DEF Uses, Mutex_Lock, EnterCriticalSection, Mutex_Lock_Again, Mutex_Unlock, Mutex_Wait,
         LeaveToWait, WaitForSingleObject, Mutex_Notify, SetEvent, Unmoved

(* A section is counted while it has its thread, and no longer.            *)
LEMMA UsesDepth ==
  ASSUME IInv, NEW t \in Threads, Uses(t)
  PROVE  depth' \in [Objs -> 0 .. DEPTH] /\ \A o \in Objs : owner'[o] = None <=> depth'[o] = 0
<1>1. TypeOK /\ PlaceInv /\ DEPTH \in Nat \ {0}
  BY MonitorAssumption DEF IInv
<1>2. CASE UNCHANGED <<owner, depth>>
  BY <1>1, <1>2 DEF TypeOK
<1>3. CASE EnterCriticalSection(t)
  <2>1. cs \in Objs /\ owner[cs] = None /\ depth[cs] = 0
    BY <1>1, <1>3 DEF EnterCriticalSection, Go, PlaceInv, TypeOK
  <2> QED BY <1>1, <1>3, <2>1, MonitorAssumption DEF EnterCriticalSection, TypeOK
<1>4. CASE Mutex_Lock_Again(t)
  <2>1. cs \in Objs /\ owner[cs] = t /\ t # None
    BY <1>1, <1>4, MonitorAssumption DEF Mutex_Lock_Again, PlaceInv, TypeOK
  <2> QED BY <1>1, <1>4, <2>1 DEF Mutex_Lock_Again, TypeOK
<1>5. CASE Mutex_Unlock(t) \/ LeaveToWait(t)
  <2>1. cs \in Objs /\ owner[cs] = t /\ t # None /\ depth[cs] \in 1 .. DEPTH
    BY <1>1, <1>5, MonitorAssumption DEF Mutex_Unlock, LeaveToWait, Go, PlaceInv, TypeOK
  <2>2. /\ depth' = [depth EXCEPT ![cs] = depth[cs] - 1]
        /\ owner' = IF depth[cs] = 1 THEN [owner EXCEPT ![cs] = None] ELSE owner
    BY <1>1, <1>5 DEF Mutex_Unlock, LeaveToWait, Go, PlaceInv
  <2> QED BY <1>1, <2>1, <2>2 DEF TypeOK
<1> QED BY <1>2, <1>3, <1>4, <1>5
    DEF Uses, Mutex_Lock, Mutex_Wait, WaitForSingleObject, Mutex_Notify, SetEvent

(* What is inside stays inside alone: nobody else may think he is.         *)
LEMMA UsesType ==
  ASSUME IInv, NEW t \in Threads, Uses(t)
  PROVE  TypeOK' /\ HandsOf' = HandsOf
<1>1. TypeOK /\ PlaceInv /\ MadeInv
  BY DEF IInv
<1>2. tmp' = tmp /\ cs' = cs /\ condwait' = condwait /\ made' = made
  BY UsesNothing
<1>3. /\ pc[t] \notin {"offercs", "offerwait", "offernotify"}
      /\ \E to \in PcValues \ {"offercs", "offerwait", "offernotify"} :
            pc' \in {pc, [pc EXCEPT ![t] = to]}
  BY DEF Uses, Mutex_Lock, EnterCriticalSection, Mutex_Lock_Again, Mutex_Unlock, Mutex_Wait,
         LeaveToWait, WaitForSingleObject, Mutex_Notify, SetEvent, Go, Back, PcValues
<1>4. owner' \in [Objs -> Threads \cup {None}]
  BY <1>1 DEF TypeOK, Uses, Mutex_Lock, EnterCriticalSection, Mutex_Lock_Again, Mutex_Unlock, Mutex_Wait,
         LeaveToWait, WaitForSingleObject, Mutex_Notify, SetEvent
<1>8. depth' \in [Objs -> 0 .. DEPTH] /\ \A o \in Objs : owner'[o] = None <=> depth'[o] = 0
  BY UsesDepth
<1>5. set' \in [Objs -> BOOLEAN]
  BY <1>1 DEF TypeOK, Uses, Mutex_Lock, EnterCriticalSection, Mutex_Lock_Again, Mutex_Unlock, Mutex_Wait,
         LeaveToWait, WaitForSingleObject, Mutex_Notify, SetEvent, Reset
<1>6. TypeOK'
  BY <1>1, <1>2, <1>3, <1>4, <1>5, <1>8 DEF TypeOK
<1>7. HandsOf' = HandsOf
  BY <1>2 DEF HandsOf
<1> QED BY <1>6, <1>7

(* An object in a hand is neither entered nor set.                         *)
LEMMA UsesHands ==
  ASSUME IInv, NEW t \in Threads, Uses(t)
  PROVE  HandsInv'
<1>1. TypeOK /\ PlaceInv /\ HandsInv
  BY DEF IInv
<1>2. tmp' = tmp /\ cs' = cs /\ condwait' = condwait
  BY UsesNothing
<1>3. \A u \in Threads : tmp[u] # Null => tmp[u] \in Objs /\ tmp[u] # cs /\ tmp[u] # condwait
  BY <1>1 DEF TypeOK, HandsInv
<1>4. \A o \in Objs : o # cs => owner'[o] = owner[o]
  BY <1>1 DEF TypeOK, PlaceInv, Uses, Mutex_Lock, EnterCriticalSection, Mutex_Lock_Again, Mutex_Unlock, Mutex_Wait,
         LeaveToWait, WaitForSingleObject, Mutex_Notify, SetEvent, Go
<1>5. \A o \in Objs : o # condwait => set'[o] = set[o]
  BY <1>1 DEF TypeOK, PlaceInv, Uses, Mutex_Lock, EnterCriticalSection, Mutex_Lock_Again, Mutex_Unlock, Mutex_Wait,
         LeaveToWait, WaitForSingleObject, Mutex_Notify, SetEvent, Go, Reset
<1> QED BY <1>1, <1>2, <1>3, <1>4, <1>5 DEF HandsInv

(* Who enters finds the section free, so that nobody else is inside; who   *)
(* leaves was the one inside.                                              *)
LEMMA UsesPlace ==
  ASSUME IInv, NEW t \in Threads, Uses(t)
  PROVE  PlaceInv'
<1>1. TypeOK /\ PlaceInv
  BY DEF IInv
<1>2. cs' = cs /\ condwait' = condwait
  BY UsesNothing
<1>3. \A u \in Threads : u # t => pc'[u] = pc[u]
  BY <1>1 DEF TypeOK, Uses, Mutex_Lock, EnterCriticalSection, Mutex_Lock_Again, Mutex_Unlock, Mutex_Wait,
         LeaveToWait, WaitForSingleObject, Mutex_Notify, SetEvent, Go
<1>4. CASE EnterCriticalSection(t)
  <2>1. /\ owner[cs] = None /\ cs # Null /\ cs \in Objs /\ owner' = [owner EXCEPT ![cs] = t]
        /\ pc'[t] = "in"
    BY <1>1, <1>4 DEF EnterCriticalSection, Go, PlaceInv, TypeOK
  <2> QED BY <1>1, <1>2, <1>3, <2>1, MonitorAssumption DEF PlaceInv, TypeOK
<1>9. CASE Mutex_Lock_Again(t)
  <2>1. owner' = owner /\ pc' = pc /\ pc[t] = "in" /\ owner[cs] = t
    BY <1>9 DEF Mutex_Lock_Again
  <2>2. \A u \in Threads : pc[u] \in {"in", "wait", "offerwait", "leave"} => u = t
    BY <1>1, <2>1 DEF PlaceInv
  <2> QED BY <1>1, <1>2, <2>1, <2>2 DEF PlaceInv
<1>5. CASE Mutex_Unlock(t) \/ LeaveToWait(t)
  <2>1. /\ owner[cs] = t /\ cs # Null /\ cs \in Objs
        /\ pc[t] \in {"in", "leave"}
        /\ \/ /\ owner' = [owner EXCEPT ![cs] = None]
              /\ pc'[t] = "out" \/ (pc'[t] = "sleep" /\ condwait # Null)
           \/ owner' = owner /\ pc' = pc /\ pc[t] = "in"
    BY <1>1, <1>5 DEF Mutex_Unlock, LeaveToWait, Go, PlaceInv, TypeOK
  <2>2. \A u \in Threads : pc[u] \in {"in", "wait", "offerwait", "leave"} => u = t
    BY <1>1, <2>1 DEF PlaceInv
  <2> QED BY <1>1, <1>2, <1>3, <2>1, <2>2 DEF PlaceInv, TypeOK
<1>6. CASE SetEvent(t)
  <2>1. owner' = owner /\ depth' = depth /\ pc'[t] = Back(t)
    BY <1>1, <1>6 DEF SetEvent, Go, TypeOK
  <2> QED BY <1>1, <1>2, <1>3, <2>1 DEF PlaceInv, Back
<1>7. CASE Mutex_Lock(t) \/ Mutex_Wait(t) \/ WaitForSingleObject(t) \/ Mutex_Notify(t)
  <2>1. owner' = owner /\ depth' = depth
    BY <1>7 DEF Mutex_Lock, Mutex_Wait, WaitForSingleObject, Mutex_Notify
  <2>2. \/ pc[t] = "out" /\ pc'[t] = (IF cs = Null THEN "lock" ELSE "enter")
        \/ /\ pc[t] = "in" /\ depth[cs] = 1
           /\ pc'[t] = (IF condwait = Null THEN "wait" ELSE "leave")
        \/ pc[t] = "sleep" /\ pc'[t] = "reenter"
        \/ pc'[t] = (IF condwait = Null THEN "notify" ELSE "set")
    BY <1>1, <1>7 DEF Mutex_Lock, Mutex_Wait, WaitForSingleObject, Mutex_Notify, Go, TypeOK
  <2> QED BY <1>1, <1>2, <1>3, <2>1, <2>2 DEF PlaceInv
<1> QED BY <1>4, <1>5, <1>6, <1>7, <1>9 DEF Uses

LEMMA UsesKeeps ==
  ASSUME IInv, NEW t \in Threads, Uses(t)
  PROVE  IInv'
<1>1. MadeInv' /\ CountInv'
  BY UsesNothing, UsesType DEF IInv, MadeInv, CountInv, Held
<1> QED BY <1>1, UsesType, UsesHands, UsesPlace DEF IInv

LEMMA NextIInv == IInv /\ [Next]_vars => IInv'
<1> SUFFICES ASSUME IInv, [Next]_vars PROVE IInv'
  OBVIOUS
<1>1. CASE UNCHANGED vars
  BY <1>1 DEF vars, IInv, TypeOK, HandsInv, PlaceInv, MadeInv, CountInv, Held, HandsOf
<1>2. CASE Next
  <2>1. PICK t \in Threads : Creates(t) \/ Offers(t) \/ Uses(t)
    BY <1>2 DEF Next, Creates, Offers, Uses
  <2> QED BY <2>1, CreateKeeps, OfferKeeps, UsesKeeps
<1> QED BY <1>1, <1>2

LEMMA Invariant == Spec => []IInv
  BY InitIInv, NextIInv, PTL DEF Spec

(* No critical section and no event is lost or used after its deletion.    *)
THEOREM MonitorNothingLeaked == Spec => []NothingLeaked
<1>1. IInv => NothingLeaked
  BY HandsFinite DEF IInv, MadeInv, CountInv, Held, NothingLeaked
<1> QED BY <1>1, Invariant, PTL

(* One thread at a time is inside.                                         *)
THEOREM MonitorOneInside == Spec => []OneInside
<1>1. IInv => OneInside
  BY DEF IInv, PlaceInv, OneInside, Inside
<1> QED BY <1>1, Invariant, PTL

-----------------------------------------------------------------------------
(* The refinement                                                          *)

Inner == IF cs = Null THEN None ELSE owner[cs]
Signal == condwait # Null /\ set[condwait]
At(place) == {t \in Threads : pc[t] = place}

(* Making an object and offering it is invisible: it is not in use, and a  *)
(* new one is free and not set.                                            *)
LEMMA MakesStutter ==
  ASSUME IInv, NEW t \in Threads, Creates(t) \/ Offers(t)
  PROVE  Inner' = Inner /\ Signal' = Signal /\ At("sleep")' = At("sleep")
         /\ At("reenter")' = At("reenter")
<1>1. TypeOK /\ HandsInv /\ MadeInv
  BY DEF IInv
<1>2. CASE Creates(t)
  <2>1. PICK o \in Objs \ made : /\ owner' = [owner EXCEPT ![o] = None]
                                /\ set' = [set EXCEPT ![o] = FALSE]
    BY <1>2 DEF Creates, Mutex_Init_CS, Mutex_Init_Condwait, Create
  <2>2. /\ cs' = cs /\ condwait' = condwait /\ pc[t] \in {"lock", "wait", "notify"}
        /\ \E to \in {"offercs", "offerwait", "offernotify"} : pc' = [pc EXCEPT ![t] = to]
    BY <1>2 DEF Creates, Mutex_Init_CS, Mutex_Init_Condwait, Go
  <2>3. o # cs /\ o # condwait
    BY <1>1, MonitorAssumption DEF MadeInv
  <2>4. Inner' = Inner
    BY <1>1, <2>1, <2>2, <2>3 DEF Inner, TypeOK
  <2>5. condwait # Null => set'[condwait] = set[condwait]
    BY <1>1, <2>1, <2>3 DEF TypeOK
  <2>6. Signal' = Signal
    BY <2>2, <2>5, Zenon DEF Signal
  <2>7. At("sleep")' = At("sleep") /\ At("reenter")' = At("reenter")
    BY <1>1, <2>2 DEF At, TypeOK
  <2> QED BY <2>4, <2>6, <2>7
<1>3. CASE Offers(t)
  <2>1. owner[tmp[t]] = None /\ set[tmp[t]] = FALSE
    BY <1>1, <1>3, OfferTo DEF HandsInv
  <2>2. Inner' = Inner
    BY <1>3, <2>1, OfferTo DEF Inner
  <2>3. set' = set /\ (condwait' = condwait \/ (condwait = Null /\ condwait' = tmp[t]))
    BY <1>3, OfferTo
  <2>4. Signal' = Signal
    BY <2>1, <2>3, Zenon DEF Signal
  <2>5. At("sleep")' = At("sleep") /\ At("reenter")' = At("reenter")
    BY <1>1, <1>3, OfferTo DEF At, TypeOK
  <2> QED BY <2>2, <2>4, <2>5
<1> QED BY <1>2, <1>3

LEMMA EventStays ==
  ASSUME set' = set, condwait' = condwait
  PROVE  Signal' = Signal
  BY Zenon DEF Signal

LEMMA UseRefines ==
  ASSUME IInv, NEW t \in Threads, Uses(t)
  PROVE  [Abstract!Next]_(Abstract!vars)
<1>1. TypeOK /\ PlaceInv
  BY DEF IInv
<1>2. cs' = cs /\ condwait' = condwait
  BY UsesNothing
<1> DEFINE Still == /\ Inner' = Inner /\ Signal' = Signal
                    /\ At("sleep")' = At("sleep") /\ At("reenter")' = At("reenter")
<1>3. Still => UNCHANGED Abstract!vars
  BY DEF Abstract!vars, Inner, Signal, At
<1>4. CASE EnterCriticalSection(t)
  <2>1. /\ owner[cs] = None /\ cs # Null /\ cs \in Objs /\ owner' = [owner EXCEPT ![cs] = t]
        /\ pc[t] \in {"enter", "reenter"} /\ pc' = [pc EXCEPT ![t] = "in"] /\ set' = set
    BY <1>1, <1>4 DEF EnterCriticalSection, Go, PlaceInv, TypeOK
  <2>2. Inner = None /\ Inner' = t
    BY <1>1, <1>2, <2>1 DEF Inner, TypeOK
  <2>3. t \notin At("sleep") /\ At("sleep")' = At("sleep") /\ At("reenter")' = At("reenter") \ {t}
    BY <1>1, <2>1 DEF At, TypeOK
  <2>4. Signal' = Signal
    BY <1>2, <2>1, EventStays
  <2>5. Abstract!Enter(t)
    BY <2>2, <2>3, <2>4 DEF Abstract!Enter, Inner, At, Signal
  <2> QED BY <2>5 DEF Abstract!Next
<1>9. CASE Mutex_Lock_Again(t) \/ (Mutex_Unlock(t) /\ depth[cs] # 1)
  <2>1. owner' = owner /\ pc' = pc /\ set' = set
    BY <1>9 DEF Mutex_Lock_Again, Mutex_Unlock
  <2>2. Signal' = Signal
    BY <1>2, <2>1, EventStays
  <2> QED BY <1>2, <1>3, <2>1, <2>2 DEF Inner, At
<1>5. CASE (Mutex_Unlock(t) /\ depth[cs] = 1) \/ LeaveToWait(t)
  <2>1. /\ owner[cs] = t /\ cs # Null /\ cs \in Objs /\ owner' = [owner EXCEPT ![cs] = None]
        /\ pc[t] \in {"in", "leave"} /\ set' = set
        /\ \E to \in {"out", "sleep"} : pc' = [pc EXCEPT ![t] = to]
    BY <1>1, <1>5 DEF Mutex_Unlock, LeaveToWait, Go, PlaceInv, TypeOK
  <2>2. Inner = t /\ Inner' = None
    BY <1>1, <1>2, <2>1 DEF Inner, TypeOK
  <2>3. At("sleep")' \in {At("sleep"), At("sleep") \cup {t}} /\ At("reenter")' = At("reenter")
    BY <1>1, <2>1 DEF At, TypeOK
  <2>4. Signal' = Signal
    BY <1>2, <2>1, EventStays
  <2>5. Abstract!Leave(t)
    BY <2>2, <2>3, <2>4 DEF Abstract!Leave, Inner, At, Signal
  <2> QED BY <2>5 DEF Abstract!Next
<1>6. CASE WaitForSingleObject(t)
  <2>1. /\ pc[t] = "sleep" /\ pc' = [pc EXCEPT ![t] = "reenter"] /\ owner' = owner
        /\ condwait # Null /\ condwait \in Objs
    BY <1>1, <1>6 DEF WaitForSingleObject, Go, PlaceInv, TypeOK
  <2>2. Inner' = Inner
    BY <1>2, <2>1 DEF Inner
  <2>3. /\ t \in At("sleep") /\ At("sleep")' = At("sleep") \ {t}
        /\ At("reenter")' = At("reenter") \cup {t}
    BY <1>1, <2>1 DEF At, TypeOK
  <2>4. \/ set[condwait] /\ set' = [set EXCEPT ![condwait] = FALSE]
        \/ TIMED /\ set' = set
    BY <1>6, Zenon DEF WaitForSingleObject, Reset
  <2>5. CASE set[condwait] /\ set' = [set EXCEPT ![condwait] = FALSE]
    <3>1. set'[condwait] = FALSE
      BY <1>1, <2>1, <2>5 DEF TypeOK
    <3>2. Signal /\ Signal' = FALSE
      BY <1>2, <2>1, <2>5, <3>1, Zenon DEF Signal
    <3>3. Signal' \in IF TIMED THEN {Signal, FALSE} ELSE {FALSE}
      BY <3>2
    <3>4. Abstract!Wake(t)
      BY <2>2, <2>3, <3>2, <3>3, Zenon DEF Abstract!Wake, Inner, At, Signal
    <3> QED BY <3>4 DEF Abstract!Next
  <2>6. CASE TIMED /\ set' = set
    <3>1. Signal' = Signal
      BY <1>2, <2>6, EventStays
    <3>2. Signal' \in IF TIMED THEN {Signal, FALSE} ELSE {FALSE}
      BY <2>6, <3>1
    <3>3. Abstract!Wake(t)
      BY <2>2, <2>3, <2>6, <3>2, Zenon DEF Abstract!Wake, Inner, At, Signal
    <3> QED BY <3>3 DEF Abstract!Next
  <2> QED BY <2>4, <2>5, <2>6
<1>7. CASE SetEvent(t)
  <2>1. /\ pc[t] = "set" /\ pc' = [pc EXCEPT ![t] = Back(t)] /\ owner' = owner
        /\ set' = [set EXCEPT ![condwait] = TRUE] /\ condwait # Null /\ condwait \in Objs
    BY <1>1, <1>7 DEF SetEvent, Go, PlaceInv, TypeOK
  <2>2. Inner' = Inner
    BY <1>2, <2>1 DEF Inner
  <2>3. Back(t) \in {"in", "out"}
    BY DEF Back
  <2>4. At("sleep")' = At("sleep") /\ At("reenter")' = At("reenter")
    BY <1>1, <2>1, <2>3 DEF At, TypeOK
  <2>5. set'[condwait] = TRUE
    BY <1>1, <2>1 DEF TypeOK
  <2>6. Signal' = TRUE
    BY <1>2, <2>1, <2>5, Zenon DEF Signal
  <2>7. Abstract!Notify
    BY <2>2, <2>4, <2>6, Zenon DEF Abstract!Notify, Inner, At, Signal
  <2> QED BY <2>7 DEF Abstract!Next
<1>8. CASE Mutex_Lock(t) \/ Mutex_Wait(t) \/ Mutex_Notify(t)
  <2>1. /\ owner' = owner /\ set' = set /\ pc[t] \in {"in", "out"}
        /\ \E to \in {"lock", "enter", "wait", "leave", "notify", "set"} : pc' = [pc EXCEPT ![t] = to]
    BY <1>8 DEF Mutex_Lock, Mutex_Wait, Mutex_Notify, Go
  <2>2. Inner' = Inner
    BY <1>2, <2>1 DEF Inner
  <2>3. Signal' = Signal
    BY <1>2, <2>1, EventStays
  <2>4. At("sleep")' = At("sleep") /\ At("reenter")' = At("reenter")
    BY <1>1, <2>1 DEF At, TypeOK
  <2> QED BY <1>3, <2>2, <2>3, <2>4
<1> QED BY <1>4, <1>5, <1>6, <1>7, <1>8, <1>9 DEF Uses

(* The mutex that its users build is a monitor: the race of the first uses *)
(* shows nobody a second section and loses nobody's notification.          *)
THEOREM MonitorImplements == Spec => ImplementsMonitor
<1>1. Init => Abstract!Init
  BY DEF Init, Abstract!Init
<1>2. IInv /\ [Next]_vars => [Abstract!Next]_(Abstract!vars)
  <2> SUFFICES ASSUME IInv, [Next]_vars PROVE [Abstract!Next]_(Abstract!vars)
    OBVIOUS
  <2>1. CASE UNCHANGED vars
    BY <2>1 DEF vars, Abstract!vars
  <2>2. ASSUME NEW t \in Threads, Uses(t) PROVE [Abstract!Next]_(Abstract!vars)
    BY <2>2, UseRefines
  <2>3. ASSUME NEW t \in Threads, Creates(t) \/ Offers(t) PROVE UNCHANGED Abstract!vars
    BY <2>3, MakesStutter DEF Abstract!vars, Inner, Signal, At
  <2>4. CASE Next
    BY <2>2, <2>3, <2>4 DEF Next, Creates, Offers, Uses
  <2> QED BY <2>1, <2>4
<1> QED BY <1>1, <1>2, Invariant, PTL DEF Spec, ImplementsMonitor, Abstract!Spec

=============================================================================
