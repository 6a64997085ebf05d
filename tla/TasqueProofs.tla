---------------------------- MODULE TasqueProofs ----------------------------
(* Proofs about Tasque: see the README for the argument.                    *)
EXTENDS Tasque, FiniteSetTheorems, TLAPS

-----------------------------------------------------------------------------
(* Lists as sequences: what Slist_Push and Slist_Pop do to their elements.  *)

LEMMA ElemsPush ==
  ASSUME NEW s \in Seq(Tasks), NEW x \in Tasks
  PROVE  /\ Push(s, x) \in Seq(Tasks)
         /\ Elems(Push(s, x)) = Elems(s) \cup {x}
         /\ NoRepeat(s) /\ x \notin Elems(s) => NoRepeat(Push(s, x))
  BY DEF Push, Elems, NoRepeat

LEMMA ElemsIn ==
  ASSUME NEW s \in Seq(Tasks)
  PROVE  Elems(s) \subseteq Tasks
  BY DEF Elems

LEMMA ElemsPop ==
  ASSUME NEW s \in Seq(Tasks), s # <<>>
  PROVE  /\ Tail(s) \in Seq(Tasks) /\ Head(s) \in Tasks
         /\ Head(s) \in Elems(s) /\ Elems(Tail(s)) \subseteq Elems(s)
         /\ Elems(s) = Elems(Tail(s)) \cup {Head(s)}
         /\ NoRepeat(s) => NoRepeat(Tail(s)) /\ Head(s) \notin Elems(Tail(s))
<1>1. Head(s) \in Elems(s) /\ Head(s) = s[1] /\ 1 \in DOMAIN s
  BY DEF Elems
<1>2. \A k \in DOMAIN Tail(s) : Tail(s)[k] = s[k + 1] /\ k + 1 \in DOMAIN s /\ k + 1 # 1
  OBVIOUS
<1>3. \A k \in DOMAIN s : k = 1 \/ (k - 1 \in DOMAIN Tail(s) /\ Tail(s)[k - 1] = s[k])
  OBVIOUS
<1>4. Elems(s) = Elems(Tail(s)) \cup {Head(s)}
  <2>1. ASSUME NEW t \in Elems(s) PROVE t \in Elems(Tail(s)) \cup {Head(s)}
    <3>1. PICK k \in DOMAIN s : s[k] = t
      BY <2>1 DEF Elems
    <3>2. CASE k = 1
      BY <3>1, <3>2, <1>1
    <3>3. CASE k - 1 \in DOMAIN Tail(s) /\ Tail(s)[k - 1] = s[k]
      BY <3>1, <3>3 DEF Elems
    <3>4. QED
      BY <3>2, <3>3, <1>3
  <2>2. Elems(Tail(s)) \subseteq Elems(s)
    BY <1>2 DEF Elems
  <2>3. QED
    BY <2>1, <2>2, <1>1
<1>5. QED
  BY <1>1, <1>2, <1>4 DEF Elems, NoRepeat

-----------------------------------------------------------------------------
(* Every variable keeps its type.                                           *)

LEMMA TypeStep ==
  ASSUME TypeOK, [Next]_vars
  PROVE  TypeOK'
<1> USE TasqueAssumption
<1> USE DEF TypeOK, PcValues, MpcValues, Stages, Go, vars, world, main, limits,
        counts, lists, events, hist, links, frames, procs, cursor, quiet
<1>1. ASSUME NEW p \in Procs, Register(p) PROVE TypeOK'
  BY <1>1 DEF Register, Link
<1>2. ASSUME NEW p \in Procs, PassGate(p) PROVE TypeOK'
  BY <1>2 DEF PassGate
<1>3. ASSUME NEW p \in Procs, Take(p) PROVE TypeOK'
  BY ElemsPop, <1>3 DEF Take
<1>4. ASSUME NEW p \in Procs, Retire(p) PROVE TypeOK'
  BY <1>4 DEF Retire, Uncount, Unlink
<1>5. ASSUME NEW p \in Procs, Doze(p) PROVE TypeOK'
  BY <1>5 DEF Doze
<1>6. ASSUME NEW p \in Procs, Wake(p) PROVE TypeOK'
  <2>1. lockEvt' \in BOOLEAN
    BY <1>6, Zenon DEF Wake
  <2>2. QED
    BY <1>6, <2>1 DEF Wake
<1>7. ASSUME NEW p \in Procs, Finish(p) PROVE TypeOK'
  <2>1. cur[p] \in Tasks /\ out' = Push(out, cur[p])
    BY <1>7 DEF Finish
  <2>2. out' \in Seq(Tasks)
    BY <2>1, ElemsPush
  <2>3. QED
    BY <1>7, <2>1, <2>2 DEF Finish, Uncare, Disown
<1>8. ASSUME NEW p \in Procs, NotifyOut(p) PROVE TypeOK'
  BY <1>8 DEF NotifyOut, SignalOut
<1>9. ASSUME NEW p \in Procs, Exit(p) PROVE TypeOK'
  BY <1>9 DEF Exit, NotifyLock
<1>10. ASSUME NEW p \in Procs, Body(p) PROVE TypeOK'
  BY <1>10 DEF Body
<1>11. ASSUME NEW p \in Procs, Spawn(p) PROVE TypeOK'
  BY <1>11 DEF Spawn
<1>12. ASSUME NEW a \in Alerts, FireAlert(a) PROVE TypeOK'
  BY <1>12 DEF FireAlert
<1>13. ASSUME NEW t \in Tasks, Tasque_Queue(t) PROVE TypeOK'
  <2>1. in' \in Seq(Tasks)
    BY <1>13, ElemsPush DEF Tasque_Queue
  <2>2. lockEvt' \in BOOLEAN /\ busy' \in BOOLEAN
    BY <1>13, Zenon DEF Tasque_Queue, NotifyLock
  <2>3. QED
    BY <1>13, <2>1, <2>2 DEF Tasque_Queue
<1>14. ASSUME NEW a \in Alerts, Tasque_Alert(a) PROVE TypeOK'
  BY <1>14 DEF Tasque_Alert
<1>15. CASE Perform_Update
  BY <1>15 DEF Perform_Update, Pass, PassFor
<1>16. CASE CheckCount
  BY <1>16 DEF CheckCount, Pass, PassFor
<1>17. CASE SpawnFails
  BY <1>17 DEF SpawnFails, Pass, PassFor
<1>18. CASE StoreHandle
  BY <1>18 DEF StoreHandle
<1>19. CASE AlertReturns
  BY <1>19 DEF AlertReturns, Pass, PassFor
<1>20. CASE AlertsDone
  BY <1>20 DEF AlertsDone, Pass, PassFor
<1>21. CASE CheckOut
  BY <1>21 DEF CheckOut, Pass, PassFor, NewBatch
<1>22. CASE CheckIn \/ CheckCare
  BY <1>22 DEF CheckIn, CheckCare, Pass, PassFor, NewBatch
<1>23. CASE Sleep
  BY <1>23 DEF Sleep, Pass, PassFor
<1>24. CASE WakeUp
  <2>1. outEvt' \in BOOLEAN
    BY <1>24, Zenon DEF WakeUp
  <2>2. QED
    BY <1>24, <2>1 DEF WakeUp
<1>25. CASE Deliver
  BY ElemsPop, <1>25 DEF Deliver, BatchGoesOn
<1>26. CASE UpdateReturns
  BY <1>26 DEF UpdateReturns
<1>27. CASE EndBatch
  BY <1>27 DEF EndBatch, Pass, PassFor
<1>28. CASE Again
  BY <1>28 DEF Again, PassFor, NewBatch
<1>29. CASE Return
  BY <1>29 DEF Return, Pending
<1>30. CASE StopPolled
  BY <1>30 DEF StopPolled
<1>31. CASE GraceOver
  BY <1>31 DEF GraceOver
<1>32. CASE Finish_Task_List
  <2>0. /\ in # <<>> => Tail(in) \in Seq(Tasks)
        /\ out # <<>> => Tail(out) \in Seq(Tasks)
    BY ElemsPop
  <2>1. in' \in Seq(Tasks) /\ out' \in Seq(Tasks) /\ care' \subseteq Tasks
    BY <1>32, <2>0 DEF Finish_Task_List
  <2>2. PICK t \in Tasks, st \in {"complete", "fail"} : FinishTask(t, st)
    BY <1>32, ElemsPop DEF Finish_Task_List
  <2>3. pc' \in [Procs -> PcValues]
    BY <2>2 DEF FinishTask
  <2>4. \A p \in Procs : pc'[p] \in {"run", "finish"} => cur'[p] \in Tasks
    BY <2>2 DEF FinishTask
  <2>5. QED
    BY <2>1, <2>2, <2>3, <2>4 DEF FinishTask
<1>33. CASE NextList
  BY <1>33 DEF NextList, After
<1>34. CASE StopFinished
  BY <1>34 DEF StopFinished, Terminate, NoMoreProcs, NotifyLock
<1>35. CASE ListsFinished
  BY <1>35 DEF ListsFinished
<1>36. CASE StopPoll
  BY <1>36 DEF StopPoll, NotifyLock
<1>37. CASE Tasque_Stop
  BY <1>37 DEF Tasque_Stop, NoMoreProcs, NotifyLock
<1>38. CASE Tasque_Terminate
  BY <1>38 DEF Tasque_Terminate, Terminate, NoMoreProcs, NotifyLock
<1>39. CASE UNCHANGED vars
  BY <1>39
<1>40. QED
  BY <1>1, <1>2, <1>3, <1>4, <1>5, <1>6, <1>7, <1>8, <1>9, <1>10, <1>11, <1>12, <1>13, <1>14, <1>15, <1>16, <1>17, <1>18, <1>19, <1>20, <1>21, <1>22, <1>23, <1>24, <1>25, <1>26, <1>27, <1>28, <1>29, <1>30, <1>31, <1>32, <1>33, <1>34, <1>35, <1>36, <1>37, <1>38, <1>39 DEF Next, ProcCode, Client, Update, Stopping

LEMMA TypeInit == Init => TypeOK
<1> SUFFICES ASSUME Init PROVE TypeOK
  OBVIOUS
<1>1. lockEvt \in BOOLEAN /\ outEvt \in BOOLEAN /\ locked \in BOOLEAN /\ busy \in BOOLEAN
  BY Zenon DEF Init
<1>2. in \in Seq(Tasks) /\ out \in Seq(Tasks)
  BY DEF Init
<1>3. QED
  BY <1>1, <1>2, TasqueAssumption DEF Init, TypeOK, PcValues, MpcValues, Stages

(* Type correctness of Tasque.                                              *)
THEOREM TasqueTypes == Spec => []TypeOK
  BY TypeInit, TypeStep, PTL DEF Spec

-----------------------------------------------------------------------------
(* Most steps of the main thread concern neither the tasks nor the          *)
(* processors; every invariant below survives them for the same reason.     *)
Calm ==
  /\ UNCHANGED <<procs, counts, lists, outcome, ran, mp>>
  /\ mpc' = "started" <=> mpc = "started"
  /\ mpc' = "spawn" => mpc = "spawn" \/ count < max

Busy ==
  \/ \E p \in Procs : ProcCode(p) \/ Body(p) \/ Spawn(p)
  \/ \E t \in Tasks : Tasque_Queue(t)
  \/ StoreHandle \/ Deliver \/ Finish_Task_List

LEMMA CalmOrBusy ==
  ASSUME [Next]_vars
  PROVE  Calm \/ Busy
<1> USE DEF Calm, vars, world, main, limits, counts, lists, events, hist, links, frames,
        procs, cursor, quiet
<1>1. CASE Perform_Update
  BY <1>1 DEF Perform_Update, Pass, PassFor
<1>2. CASE CheckCount
  BY <1>2 DEF CheckCount, RoomForProc, Pass, PassFor
<1>3. CASE SpawnFails
  BY <1>3 DEF SpawnFails, Pass, PassFor
<1>4. CASE AlertReturns
  BY <1>4 DEF AlertReturns, Pass, PassFor
<1>5. CASE AlertsDone
  BY <1>5 DEF AlertsDone, Pass, PassFor
<1>6. CASE CheckOut
  BY <1>6 DEF CheckOut, Pass, PassFor, NewBatch
<1>7. CASE CheckIn \/ CheckCare
  BY <1>7 DEF CheckIn, CheckCare, Pass, PassFor, NewBatch
<1>8. CASE Sleep
  BY <1>8 DEF Sleep, Pass, PassFor
<1>9. CASE WakeUp
  BY <1>9 DEF WakeUp
<1>10. CASE UpdateReturns
  BY <1>10 DEF UpdateReturns
<1>11. CASE EndBatch
  BY <1>11 DEF EndBatch, Pass, PassFor
<1>12. CASE Again
  BY <1>12 DEF Again, PassFor, NewBatch
<1>13. CASE Return
  BY <1>13 DEF Return
<1>14. CASE StopPolled
  BY <1>14 DEF StopPolled
<1>15. CASE GraceOver
  BY <1>15 DEF GraceOver
<1>16. CASE NextList
  BY <1>16 DEF NextList
<1>17. CASE StopFinished
  BY <1>17 DEF StopFinished, Terminate, NoMoreProcs
<1>18. CASE ListsFinished
  BY <1>18 DEF ListsFinished
<1>19. CASE StopPoll
  BY <1>19 DEF StopPoll
<1>20. CASE Tasque_Stop
  BY <1>20 DEF Tasque_Stop, NoMoreProcs
<1>21. CASE Tasque_Terminate
  BY <1>21 DEF Tasque_Terminate, Terminate, NoMoreProcs
<1>22. ASSUME NEW a \in Alerts, FireAlert(a) \/ Tasque_Alert(a) PROVE Calm
  BY <1>22 DEF FireAlert, Tasque_Alert, InClient
<1>23. CASE UNCHANGED vars
  BY <1>23
<1>24. QED
  BY <1>1, <1>2, <1>3, <1>4, <1>5, <1>6, <1>7, <1>8, <1>9, <1>10, <1>11, <1>12, <1>13, <1>14, <1>15, <1>16, <1>17, <1>18, <1>19, <1>20, <1>21, <1>22, <1>23 DEF Next, Client, Update, Stopping, Busy

-----------------------------------------------------------------------------
(* The start of a processor.  Only one thread is being started at a time,   *)
(* and the main thread waits for it; a processor past the gate has its      *)
(* handle stored.                                                           *)
Threaded == {"loop", "doze", "run", "finish", "notify", "exit"}

StartInv ==
  /\ \A p \in Procs : pc[p] = "start" => mpc = "started" /\ mp = NoProc
  /\ \A p, q \in Procs : pc[p] = "start" /\ pc[q] = "start" => p = q
  /\ \A p \in Procs : pc[p] = "gate" => p \in thr \/ mp = p
  /\ \A p \in Procs : pc[p] \in Threaded => p \in thr
  /\ mp # NoProc => mpc = "started" /\ pc[mp] = "gate"

LEMMA StartStep ==
  ASSUME TypeOK, StartInv, [Next]_vars
  PROVE  StartInv'
<1> USE TasqueAssumption
<1> USE DEF StartInv, Threaded, TypeOK, Go
<1>1. ASSUME NEW p \in Procs, Register(p) PROVE StartInv'
  BY <1>1 DEF Register, main, cursor
<1>2. ASSUME NEW p \in Procs, PassGate(p) PROVE StartInv'
  BY <1>2 DEF PassGate, StartLockFree, main, cursor, frames
<1>3. ASSUME NEW p \in Procs, Take(p) PROVE StartInv'
  BY <1>3 DEF Take, main, cursor
<1>4. ASSUME NEW p \in Procs, Retire(p) PROVE StartInv'
  BY <1>4 DEF Retire, main, cursor
<1>5. ASSUME NEW p \in Procs, Doze(p) PROVE StartInv'
  BY <1>5 DEF Doze, main, cursor, frames
<1>6. ASSUME NEW p \in Procs, Wake(p) PROVE StartInv'
  BY <1>6 DEF Wake, main, cursor, frames
<1>7. ASSUME NEW p \in Procs, Finish(p) PROVE StartInv'
  BY <1>7 DEF Finish, main, cursor
<1>8. ASSUME NEW p \in Procs, NotifyOut(p) PROVE StartInv'
  BY <1>8 DEF NotifyOut, main, cursor, frames
<1>9. ASSUME NEW p \in Procs, Exit(p) PROVE StartInv'
  BY <1>9 DEF Exit, main, cursor
<1>10. ASSUME NEW p \in Procs, Body(p) PROVE StartInv'
  BY <1>10 DEF Body, main, cursor, frames
<1>11. ASSUME NEW p \in Procs, Spawn(p) PROVE StartInv'
  BY <1>11 DEF Spawn, main, cursor, frames
<1>12. ASSUME NEW t \in Tasks, Tasque_Queue(t) PROVE StartInv'
  BY <1>12 DEF Tasque_Queue, procs, frames
<1>13. CASE StoreHandle
  BY <1>13 DEF StoreHandle
<1>14. CASE Deliver
  BY <1>14 DEF Deliver, procs, frames
<1>15. CASE Finish_Task_List
  BY <1>15 DEF Finish_Task_List, FinishTask, frames
<1>16. CASE Calm
  BY <1>16 DEF Calm, procs, frames
<1>17. QED
  BY CalmOrBusy, <1>1, <1>2, <1>3, <1>4, <1>5, <1>6, <1>7, <1>8, <1>9, <1>10, <1>11, <1>12, <1>13, <1>14, <1>15, <1>16 DEF Busy, ProcCode

-----------------------------------------------------------------------------
(* Where the tasks are, and who owns them.                                  *)
TaskInv == OnePlace /\ BackPointers

LEMMA TaskStep ==
  ASSUME TypeOK, TaskInv, [Next]_vars
  PROVE  TaskInv'
<1> USE TasqueAssumption
<1> USE DEF TaskInv, OnePlace, BackPointers, TypeOK, Go
<1>1. ASSUME NEW p \in Procs, Register(p) PROVE TaskInv'
  BY <1>1 DEF Register, quiet, hist, lists
<1>2. ASSUME NEW p \in Procs, PassGate(p) PROVE TaskInv'
  BY <1>2 DEF PassGate, quiet, hist, lists, frames
<1>3. ASSUME NEW p \in Procs, Take(p) PROVE TaskInv'
  <2> DEFINE t == Head(in)
  <2>1. /\ t \in Tasks /\ t \in Elems(in) /\ NoRepeat(in')
        /\ Elems(in') \subseteq Elems(in) /\ t \notin Elems(in')
    BY <1>3, ElemsPop DEF Take
  <2>2. care' = care \cup {t} /\ out' = out /\ outcome' = outcome
    BY <1>3 DEF Take, quiet, hist
  <2>3. OnePlace'
    BY <2>1, <2>2
  <2>4. pc'[p] = "run" /\ cur'[p] = t /\ processor'[t] = p
    BY <1>3, <2>1 DEF Take
  <2>5. /\ \A q \in Procs \ {p} : pc'[q] = pc[q] /\ cur'[q] = cur[q]
        /\ \A u \in Tasks \ {t} : processor'[u] = processor[u]
    BY <1>3 DEF Take
  <2>6. \A u \in care : processor[u] # p
    BY <1>3 DEF Take
  <2>7. Elems(in') \subseteq Tasks /\ Elems(out) \subseteq Tasks
    BY <2>1, ElemsIn
  <2>8. BackPointers'
    <3>1. BackPointers /\ p \in Procs /\ care \subseteq Tasks
      OBVIOUS
    <3>2. Elems(in) \cap care = {} /\ care \cap Elems(out) = {} /\ Elems(in) \cap Elems(out) = {}
      OBVIOUS
    <3> HIDE DEF TypeOK, TaskInv, OnePlace, Go, t
    <3> QED
      BY <2>1, <2>2, <2>4, <2>5, <2>6, <2>7, <3>1, <3>2
  <2>9. QED
    BY <2>3, <2>8
<1>4. ASSUME NEW p \in Procs, Retire(p) PROVE TaskInv'
  BY <1>4 DEF Retire, quiet, hist, lists, Unlink
<1>5. ASSUME NEW p \in Procs, Doze(p) PROVE TaskInv'
  BY <1>5 DEF Doze, quiet, hist, lists, frames
<1>6. ASSUME NEW p \in Procs, Wake(p) PROVE TaskInv'
  BY <1>6 DEF Wake, hist, lists, frames
<1>7. ASSUME NEW p \in Procs, Finish(p) PROVE TaskInv'
  <2> DEFINE t == cur[p]
  <2>1. t \in care /\ t \in Tasks /\ processor[t] = p
    BY <1>7 DEF Finish
  <2>2. out' = Push(out, t) /\ Elems(out') = Elems(out) \cup {t} /\ NoRepeat(out')
    <3>1. out' = Push(out, t) /\ NoRepeat(out) /\ t \notin Elems(out)
      BY <1>7, <2>1 DEF Finish
    <3>2. QED
      BY <2>1, <3>1, ElemsPush
  <2>3. care' = care \ {t} /\ in' = in /\ outcome' = outcome
    BY <1>7 DEF Finish, quiet, hist, Uncare
  <2>4. OnePlace'
    BY <2>1, <2>2, <2>3
  <2>5. /\ pc'[p] = "notify" /\ processor'[t] = NoProc
        /\ \A q \in Procs \ {p} : pc'[q] = pc[q] /\ cur'[q] = cur[q]
        /\ \A u \in Tasks \ {t} : processor'[u] = processor[u]
    BY <1>7, <2>1 DEF Finish, Disown
  <2>6. Elems(in) \subseteq Tasks /\ Elems(out) \subseteq Tasks
    BY ElemsIn
  <2>7. BackPointers'
    <3>1. BackPointers /\ p \in Procs /\ care \subseteq Tasks
      OBVIOUS
    <3>2. Elems(in) \cap care = {} /\ care \cap Elems(out) = {} /\ Elems(in) \cap Elems(out) = {}
      OBVIOUS
    <3> HIDE DEF TypeOK, TaskInv, OnePlace, Go, t
    <3> QED
      BY <2>1, <2>2, <2>3, <2>5, <2>6, <3>1, <3>2
  <2>8. QED
    BY <2>4, <2>7
<1>8. ASSUME NEW p \in Procs, NotifyOut(p) PROVE TaskInv'
  BY <1>8 DEF NotifyOut, hist, lists, frames
<1>9. ASSUME NEW p \in Procs, Exit(p) PROVE TaskInv'
  BY <1>9 DEF Exit, hist, lists
<1>10. ASSUME NEW p \in Procs, Body(p) PROVE TaskInv'
  BY <1>10 DEF Body, lists, frames
<1>11. ASSUME NEW p \in Procs, Spawn(p) PROVE TaskInv'
  BY <1>11 DEF Spawn, quiet, hist, lists, frames
<1>12. ASSUME NEW t \in Tasks, Tasque_Queue(t) PROVE TaskInv'
  <2>1. /\ t \notin Elems(in) /\ t \notin care /\ t \notin Elems(out)
        /\ outcome[t] = "none"
    BY <1>12 DEF Tasque_Queue, Queued
  <2>2. Elems(in') = Elems(in) \cup {t} /\ NoRepeat(in')
    <3>1. in' = Push(in, t) /\ NoRepeat(in)
      BY <1>12 DEF Tasque_Queue
    <3>2. QED
      BY <2>1, <3>1, ElemsPush
  <2>3. UNCHANGED <<care, out, outcome, pc, cur>>
    BY <1>12 DEF Tasque_Queue, procs, frames
  <2>4. OnePlace'
    BY <2>1, <2>2, <2>3
  <2>5. processor'[t] = NoProc /\ \A u \in Tasks \ {t} : processor'[u] = processor[u]
    BY <1>12 DEF Tasque_Queue
  <2>6. Elems(in) \subseteq Tasks /\ Elems(out) \subseteq Tasks
    BY ElemsIn
  <2>7. BackPointers'
    BY <2>1, <2>2, <2>3, <2>5, <2>6
  <2>8. QED
    BY <2>4, <2>7
<1>13. CASE StoreHandle
  BY <1>13 DEF StoreHandle, quiet, hist, lists
<1>14. CASE Deliver
  <2>1. /\ Head(out) \in Tasks /\ Head(out) \in Elems(out) /\ NoRepeat(out')
        /\ Elems(out') \subseteq Elems(out) /\ Head(out) \notin Elems(out')
    BY <1>14, ElemsPop DEF Deliver, BatchGoesOn
  <2>2. /\ UNCHANGED <<in, care, processor, pc, cur>>
        /\ \A u \in Tasks \ {Head(out)} : outcome'[u] = outcome[u]
    BY <1>14 DEF Deliver, procs, frames
  <2>3. Elems(in) \subseteq Tasks /\ Elems(out') \subseteq Tasks
    BY <2>1, ElemsIn
  <2>4. QED
    BY <2>1, <2>2, <2>3
<1>15. CASE Finish_Task_List
  <2>0. /\ in # <<>> => /\ Head(in) \in Elems(in) /\ Head(in) \in Tasks
                        /\ Elems(Tail(in)) \subseteq Elems(in)
                        /\ NoRepeat(Tail(in)) /\ Head(in) \notin Elems(Tail(in))
        /\ out # <<>> => /\ Head(out) \in Elems(out) /\ Head(out) \in Tasks
                         /\ Elems(Tail(out)) \subseteq Elems(out)
                         /\ NoRepeat(Tail(out)) /\ Head(out) \notin Elems(Tail(out))
        /\ Elems(in) \subseteq Tasks /\ Elems(out) \subseteq Tasks
    <3>1. Elems(in) \subseteq Tasks /\ Elems(out) \subseteq Tasks
      BY ElemsIn
    <3>2. QED
      BY <3>1, ElemsPop
  <2>1. PICK t \in Tasks, st \in {"complete", "fail"} :
          /\ FinishTask(t, st)
          /\ \/ t \in care /\ care' = care \ {t} /\ UNCHANGED <<in, out>>
             \/ /\ t \in Elems(in) /\ NoRepeat(in') /\ t \notin Elems(in')
                /\ Elems(in') \subseteq Elems(in) /\ UNCHANGED <<care, out>>
             \/ /\ t \in Elems(out) /\ NoRepeat(out') /\ t \notin Elems(out')
                /\ Elems(out') \subseteq Elems(out) /\ UNCHANGED <<in, care>>
    <3>1. CASE stage = "care"
      BY <1>15, <3>1 DEF Finish_Task_List
    <3>2. CASE stage = "in" /\ in # <<>>
      <4>1. in' = Tail(in) /\ FinishTask(Head(in), "fail") /\ care' = care /\ out' = out
        BY <1>15, <3>2 DEF Finish_Task_List
      <4>2. QED
        BY <2>0, <3>2, <4>1
    <3>3. CASE stage \in {"out", "stop"} /\ out # <<>>
      <4>1. PICK st \in {"complete", "fail"} : FinishTask(Head(out), st)
        BY <1>15, <3>3 DEF Finish_Task_List
      <4>2. out' = Tail(out) /\ care' = care /\ in' = in
        BY <1>15, <3>3 DEF Finish_Task_List
      <4>3. QED
        BY <2>0, <3>3, <4>1, <4>2
    <3>4. QED
      BY <1>15, <3>1, <3>2, <3>3 DEF Finish_Task_List
  <2>2. /\ UNCHANGED <<cur, processor>>
        /\ \A u \in Tasks \ {t} : outcome'[u] = outcome[u]
        /\ \A q \in Procs : pc'[q] = IF q = processor[t] THEN "killed" ELSE pc[q]
    BY <2>1 DEF FinishTask, frames
  <2>3. OnePlace'
    BY <2>0, <2>1, <2>2
  <2>4. \A u \in care' : u # t /\ processor[u] # processor[t]
    BY <2>0, <2>1
  <2>5. BackPointers'
    BY <2>0, <2>1, <2>2, <2>4
  <2>6. QED
    BY <2>3, <2>5
<1>16. CASE Calm
  BY <1>16 DEF Calm, procs, frames, lists
<1>17. QED
  BY CalmOrBusy, <1>1, <1>2, <1>3, <1>4, <1>5, <1>6, <1>7, <1>8, <1>9, <1>10, <1>11, <1>12, <1>13, <1>14, <1>15, <1>16 DEF Busy, ProcCode

-----------------------------------------------------------------------------
(* Perform_Update starts a thread only while COUNT < MAX, and nothing but a *)
(* new thread raises COUNT.                                                 *)
BoundInv ==
  /\ ProcsBounded
  /\ mpc = "spawn" => count < MAX0

LEMMA BoundStep ==
  ASSUME TypeOK, StartInv, BoundInv, [Next]_vars
  PROVE  BoundInv'
<1> USE TasqueAssumption
<1> USE DEF BoundInv, ProcsBounded, TypeOK, main, cursor, counts
<1>1. ASSUME NEW p \in Procs, Register(p) PROVE BoundInv'
  BY <1>1 DEF Register, StartInv
<1>2. ASSUME NEW p \in Procs, PassGate(p) PROVE BoundInv'
  BY <1>2 DEF PassGate
<1>3. ASSUME NEW p \in Procs, Take(p) PROVE BoundInv'
  BY <1>3 DEF Take
<1>4. ASSUME NEW p \in Procs, Retire(p) PROVE BoundInv'
  BY <1>4 DEF Retire, Uncount
<1>5. ASSUME NEW p \in Procs, Doze(p) PROVE BoundInv'
  BY <1>5 DEF Doze
<1>6. ASSUME NEW p \in Procs, Wake(p) PROVE BoundInv'
  BY <1>6 DEF Wake
<1>7. ASSUME NEW p \in Procs, Finish(p) PROVE BoundInv'
  BY <1>7 DEF Finish
<1>8. ASSUME NEW p \in Procs, NotifyOut(p) PROVE BoundInv'
  BY <1>8 DEF NotifyOut
<1>9. ASSUME NEW p \in Procs, Exit(p) PROVE BoundInv'
  BY <1>9 DEF Exit
<1>10. ASSUME NEW p \in Procs, Body(p) PROVE BoundInv'
  BY <1>10 DEF Body
<1>11. ASSUME NEW p \in Procs, Spawn(p) PROVE BoundInv'
  BY <1>11 DEF Spawn
<1>12. ASSUME NEW t \in Tasks, Tasque_Queue(t) PROVE BoundInv'
  BY <1>12 DEF Tasque_Queue
<1>13. CASE StoreHandle
  BY <1>13 DEF StoreHandle
<1>14. CASE Deliver
  BY <1>14 DEF Deliver
<1>15. CASE Finish_Task_List
  BY <1>15 DEF Finish_Task_List, FinishTask
<1>16. CASE Calm
  BY <1>16 DEF Calm
<1>17. QED
  BY CalmOrBusy, <1>1, <1>2, <1>3, <1>4, <1>5, <1>6, <1>7, <1>8, <1>9, <1>10, <1>11, <1>12, <1>13, <1>14, <1>15, <1>16 DEF Busy, ProcCode

-----------------------------------------------------------------------------
(* The two counters count the linked processors, and the idle ones among   *)
(* them.                                                                    *)
CountInv == CountersAgree

(* A processor that stops or starts being idle, or linked, moves the        *)
(* cardinality by one.                                                      *)
LEMMA CardMove ==
  ASSUME NEW S \in SUBSET Procs, NEW p \in Procs
  PROVE  /\ Cardinality(S) \in Nat
         /\ p \notin S => Cardinality(S \cup {p}) = Cardinality(S) + 1
         /\ p \in S => Cardinality(S \ {p}) = Cardinality(S) - 1
<1>1. IsFiniteSet(S)
  BY TasqueAssumption, FS_Subset
<1>2. QED
  BY <1>1, FS_CardinalityType, FS_AddElement, FS_RemoveElement

LEMMA CountStep ==
  ASSUME TypeOK, BackPointers, CountInv, [Next]_vars
  PROVE  CountInv'
<1> USE TasqueAssumption
<1> USE DEF CountInv, CountersAgree, IdleProcs, Linked, TypeOK, Go
<1>0. Linked \in SUBSET Procs /\ IdleProcs \in SUBSET Procs
  OBVIOUS
<1>1. ASSUME NEW p \in Procs, Register(p) PROVE CountInv'
  <2>1. IdleProcs' = IdleProcs \cup {p} /\ Linked' = Linked \cup {p}
    BY <1>1 DEF Register
  <2>2. p \notin IdleProcs /\ p \notin Linked
    BY <1>1 DEF Register
  <2>3. oncare' = oncare + 1 /\ count' = count + 1
    BY <1>1 DEF Register
  <2>4. QED
    BY <1>0, <2>1, <2>2, <2>3, CardMove
<1>2. ASSUME NEW p \in Procs, Take(p) PROVE CountInv'
  <2>1. IdleProcs' = IdleProcs \ {p} /\ p \in IdleProcs
    BY <1>2 DEF Take
  <2>2. Linked' = Linked
    BY <1>2 DEF Take
  <2>3. oncare' = oncare - 1 /\ count' = count
    BY <1>2 DEF Take
  <2>4. QED
    BY <1>0, <2>1, <2>2, <2>3, CardMove
<1>3. ASSUME NEW p \in Procs, Retire(p) PROVE CountInv'
  <2>1. /\ IdleProcs' = IdleProcs \ {p} /\ p \in IdleProcs
        /\ Linked' = Linked \ {p} /\ p \in Linked
    BY <1>3 DEF Retire
  <2>2. oncare' = oncare - 1 /\ count' = count - 1
    BY <1>3 DEF Retire, Uncount
  <2>3. QED
    BY <1>0, <2>1, <2>2, CardMove
<1>4. ASSUME NEW p \in Procs, Finish(p) PROVE CountInv'
  <2>1. IdleProcs' = IdleProcs \cup {p} /\ p \notin IdleProcs
    BY <1>4 DEF Finish
  <2>2. Linked' = Linked
    BY <1>4 DEF Finish
  <2>3. oncare' = oncare + 1 /\ count' = count
    BY <1>4 DEF Finish
  <2>4. QED
    BY <1>0, <2>1, <2>2, <2>3, CardMove
<1>5. ASSUME NEW p \in Procs, PassGate(p) PROVE CountInv'
  <2>1. IdleProcs' = IdleProcs /\ Linked' = Linked
    BY <1>5 DEF PassGate, frames
  <2>2. QED
    BY <1>5, <2>1 DEF PassGate, counts, frames
<1>6. ASSUME NEW p \in Procs, Doze(p) PROVE CountInv'
  <2>1. IdleProcs' = IdleProcs /\ Linked' = Linked
    BY <1>6 DEF Doze, frames
  <2>2. QED
    BY <1>6, <2>1 DEF Doze, counts, frames
<1>7. ASSUME NEW p \in Procs, Wake(p) PROVE CountInv'
  <2>1. IdleProcs' = IdleProcs /\ Linked' = Linked
    BY <1>7 DEF Wake, frames
  <2>2. QED
    BY <1>7, <2>1 DEF Wake, counts, frames
<1>8. ASSUME NEW p \in Procs, NotifyOut(p) PROVE CountInv'
  <2>1. IdleProcs' = IdleProcs /\ Linked' = Linked
    BY <1>8 DEF NotifyOut, frames
  <2>2. QED
    BY <1>8, <2>1 DEF NotifyOut, counts, frames
<1>9. ASSUME NEW p \in Procs, Exit(p) PROVE CountInv'
  <2>1. IdleProcs' = IdleProcs /\ Linked' = Linked
    BY <1>9 DEF Exit, frames
  <2>2. QED
    BY <1>9, <2>1 DEF Exit, counts, frames
<1>10. ASSUME NEW p \in Procs, Body(p) PROVE CountInv'
  <2>1. IdleProcs' = IdleProcs /\ Linked' = Linked
    BY <1>10 DEF Body, frames
  <2>2. QED
    BY <1>10, <2>1 DEF Body, counts, frames
<1>11. ASSUME NEW p \in Procs, Spawn(p) PROVE CountInv'
  <2>1. IdleProcs' = IdleProcs /\ Linked' = Linked
    BY <1>11 DEF Spawn, frames
  <2>2. QED
    BY <1>11, <2>1 DEF Spawn, counts, frames
<1>12. CASE Finish_Task_List
  <2>1. PICK t \in Tasks, st \in {"complete", "fail"} :
          FinishTask(t, st) /\ (t \in care \/ t \in Elems(in) \cup Elems(out))
    BY <1>12, ElemsPop DEF Finish_Task_List
  <2>2. /\ UNCHANGED <<oncare, count>>
        /\ \A q \in Procs : pc'[q] = IF q = processor[t] THEN "killed" ELSE pc[q]
    BY <2>1 DEF FinishTask, frames, counts
  <2>3. \A q \in Procs : q = processor[t] => pc[q] \in {"run", "finish"}
    BY <2>1 DEF BackPointers
  <2>4. IdleProcs' = IdleProcs /\ Linked' = Linked
    BY <2>2, <2>3
  <2>5. QED
    BY <2>2, <2>4
<1>13. CASE UNCHANGED <<pc, oncare, count>>
  BY <1>13
<1>14. QED
  BY CalmOrBusy, <1>1, <1>2, <1>3, <1>4, <1>5, <1>6, <1>7, <1>8, <1>9, <1>10, <1>11, <1>12, <1>13
     DEF Busy, ProcCode, Calm, Tasque_Queue, StoreHandle, Deliver, procs, frames, counts

-----------------------------------------------------------------------------
(* The inductive invariant of the task queue.                               *)
IInv == TypeOK /\ StartInv /\ TaskInv /\ BoundInv /\ CountInv

LEMMA TasqueInvariant == Spec => []IInv
<1>1. Init => IInv
  <2> SUFFICES ASSUME Init PROVE IInv
    OBVIOUS
  <2> USE TasqueAssumption DEF Init
  <2>1. TypeOK
    BY TypeInit
  <2>2. StartInv
    BY DEF StartInv, Threaded
  <2>3. TaskInv
    BY DEF TaskInv, OnePlace, BackPointers, NoRepeat, Elems
  <2>4. BoundInv
    BY DEF BoundInv, ProcsBounded
  <2>5. CountInv
    <3>1. IdleProcs = {} /\ Linked = {}
      BY DEF IdleProcs, Linked
    <3>2. QED
      BY <3>1, FS_EmptySet DEF CountInv, CountersAgree
  <2>6. QED
    BY <2>1, <2>2, <2>3, <2>4, <2>5 DEF IInv
<1>2. IInv /\ [Next]_vars => IInv'
  BY TypeStep, StartStep, TaskStep, BoundStep, CountStep DEF IInv, TaskInv
<1>3. QED
  BY <1>1, <1>2, PTL DEF Spec

(* The counters are exact in every reachable state, so the assertion that   *)
(* ONCARE > 0 when a processor takes a task holds.                          *)
THEOREM TasqueCounters == Spec => []CountersExact
<1>1. IInv => CountersExact
  BY DEF IInv, CountInv, CountersExact
<1>2. QED
  BY <1>1, TasqueInvariant, PTL

(* There are never more processors than Tasque_MAX.                         *)
THEOREM TasqueBounded == Spec => []ProcsBounded
<1>1. IInv => ProcsBounded
  BY DEF IInv, BoundInv
<1>2. QED
  BY <1>1, TasqueInvariant, PTL

(* Tasque_Start_Lock protects the frame of a starting processor, and a      *)
(* task in care is owned by a processor with a stored handle.               *)
THEOREM TasqueHandshake == Spec => []StartHandshake
<1>1. IInv => StartHandshake
  BY DEF IInv, StartInv, Threaded, TaskInv, BackPointers, StartHandshake
<1>2. QED
  BY <1>1, TasqueInvariant, PTL

(* No task is lost, repeated or owned by a processor that does not run it.  *)
THEOREM TasqueTasks == Spec => [](OnePlace /\ BackPointers)
<1>1. IInv => OnePlace /\ BackPointers
  BY DEF IInv, TaskInv
<1>2. QED
  BY <1>1, TasqueInvariant, PTL

(* Only the processor that runs a task is ever terminated, and the task is  *)
(* failed in the same step.                                                 *)
THEOREM TasqueKills == Spec => KillsOnlyRunning
<1> DEFINE Fair(p) == /\ pc[p] \in {"run", "finish"} /\ p \in thr
                     /\ outcome[cur[p]] = "none" /\ outcome'[cur[p]] = "fail"
<1>1. ASSUME IInv, [Next]_vars, NEW p \in Procs, pc[p] # "killed", pc'[p] = "killed"
      PROVE  Fair(p)
  <2> USE <1>1 DEF IInv, TypeOK, Go
  <2>1. Finish_Task_List
    <3>1. \A q \in Procs : ~(Register(q) \/ PassGate(q) \/ Take(q) \/ Retire(q) \/ Doze(q))
      BY DEF Register, PassGate, Take, Retire, Doze
    <3>2. \A q \in Procs : ~(Wake(q) \/ Finish(q) \/ NotifyOut(q) \/ Exit(q) \/ Body(q)
                              \/ Spawn(q))
      BY DEF Wake, Finish, NotifyOut, Exit, Body, Spawn
    <3>3. ~(Calm \/ StoreHandle \/ Deliver \/ \E t \in Tasks : Tasque_Queue(t))
      BY DEF Calm, StoreHandle, Deliver, Tasque_Queue, procs
    <3>4. QED
      BY <3>1, <3>2, <3>3, CalmOrBusy DEF Busy, ProcCode
  <2>2. \A t \in Elems(in) \cup Elems(out) : processor[t] = NoProc
    BY DEF TaskInv, BackPointers
  <2>3. \A t \in Elems(in) \cup Elems(out), st \in {"complete", "fail"} : ~FinishTask(t, st)
    BY <2>2, TasqueAssumption DEF FinishTask
  <2>4. PICK t \in care : FinishTask(t, "fail")
    BY <2>1, <2>3, ElemsPop DEF Finish_Task_List
  <2>5. p = processor[t] /\ outcome'[t] = "fail"
    BY <2>4 DEF FinishTask
  <2>6. pc[p] \in {"run", "finish"} /\ cur[p] = t /\ outcome[t] = "none"
    BY <2>5 DEF TaskInv, BackPointers, OnePlace
  <2>7. QED
    BY <2>5, <2>6 DEF StartInv, Threaded
<1>2. IInv /\ [Next]_vars =>
        [\A p \in Procs : pc[p] # "killed" /\ pc'[p] = "killed" =>
           /\ pc[p] \in {"run", "finish"} /\ p \in thr
           /\ outcome[cur[p]] = "none" /\ outcome'[cur[p]] = "fail"]_vars
  BY <1>1
<1>3. QED
  BY <1>2, TasqueInvariant, PTL DEF Spec, KillsOnlyRunning

-----------------------------------------------------------------------------
(* Refinement: Tasque does what TaskService promises.  It takes one more    *)
(* invariant, on what ran says of the task in each place.                   *)
RanInv ==
  /\ \A t \in Elems(in) : t \notin ran
  /\ \A t \in Elems(out) : t \in ran
  /\ \A p \in Procs : pc[p] = "run" => cur[p] \notin ran
  /\ \A p \in Procs : pc[p] = "finish" => cur[p] \in ran
  /\ ran \subseteq Queued

(* What an action of a task does to the lists, without the sequences.       *)
LEMMA TakeLists ==
  ASSUME TypeOK, TaskInv, NEW p \in Procs, Take(p)
  PROVE  /\ in # <<>> /\ in' = Tail(in) /\ Head(in) \in Tasks
         /\ Head(in) \in Elems(in) /\ Head(in) \notin Elems(in') /\ Head(in) \notin Elems(out)
         /\ Elems(in) = Elems(in') \cup {Head(in)}
         /\ care' = care \cup {Head(in)} /\ Head(in) \notin care
         /\ UNCHANGED <<out, outcome, ran>>
<1>1. in \in Seq(Tasks) /\ in # <<>> /\ NoRepeat(in)
  BY DEF TypeOK, Take, TaskInv, OnePlace
<1>2. QED
  BY <1>1, ElemsPop DEF Take, TaskInv, OnePlace, quiet, hist

LEMMA FinishLists ==
  ASSUME TypeOK, TaskInv, NEW p \in Procs, Finish(p)
  PROVE  /\ cur[p] \in care /\ cur[p] \in Tasks
         /\ cur[p] \notin Elems(in) /\ cur[p] \notin Elems(out)
         /\ care' = care \ {cur[p]} /\ Elems(out') = Elems(out) \cup {cur[p]}
         /\ UNCHANGED <<in, outcome, ran>>
<1>1. /\ cur[p] \in care /\ cur[p] \in Tasks /\ out \in Seq(Tasks)
      /\ cur[p] \notin Elems(in) /\ cur[p] \notin Elems(out)
  BY DEF TypeOK, Finish, TaskInv, OnePlace, BackPointers
<1>2. out' = Push(out, cur[p])
  BY DEF Finish
<1>3. Elems(out') = Elems(out) \cup {cur[p]}
  BY <1>1, <1>2, ElemsPush
<1>4. QED
  BY <1>1, <1>3 DEF Finish, Uncare, quiet, hist

LEMMA DeliverLists ==
  ASSUME TypeOK, TaskInv, Deliver
  PROVE  /\ Head(out) \in Tasks /\ Head(out) \notin Elems(in) /\ Head(out) \notin care
         /\ Elems(out) = Elems(out') \cup {Head(out)} /\ Head(out) \notin Elems(out')
         /\ outcome' = [outcome EXCEPT ![Head(out)] = "complete"]
         /\ outcome[Head(out)] = "none"
         /\ UNCHANGED <<in, care, ran>>
<1>1. out \in Seq(Tasks) /\ out # <<>> /\ out' = Tail(out) /\ NoRepeat(out)
  BY DEF TypeOK, Deliver, BatchGoesOn, TaskInv, OnePlace
<1>2. QED
  BY <1>1, ElemsPop DEF Deliver, TaskInv, OnePlace

LEMMA QueueLists ==
  ASSUME TypeOK, TaskInv, NEW t \in Tasks, Tasque_Queue(t)
  PROVE  /\ t \notin Queued
         /\ in' = Append(in, t) /\ Elems(in') = Elems(in) \cup {t}
         /\ UNCHANGED <<care, out, outcome, ran>>
<1>1. in \in Seq(Tasks) /\ in' = Push(in, t)
  BY DEF TypeOK, Tasque_Queue
<1>2. QED
  BY <1>1, ElemsPush DEF Tasque_Queue, Push

(* A turn of Finish_Task_List takes one task from one list.                 *)
LEMMA FailLists ==
  ASSUME TypeOK, TaskInv, Finish_Task_List
  PROVE  \E t \in Tasks, st \in {"complete", "fail"} :
           /\ FinishTask(t, st)
           /\ outcome[t] = "none"
           /\ \/ /\ t \in care /\ care' = care \ {t} /\ st = "fail"
                 /\ t \notin Elems(in) /\ t \notin Elems(out) /\ UNCHANGED <<in, out>>
              \/ /\ in # <<>> /\ t = Head(in) /\ in' = Tail(in) /\ st = "fail"
                 /\ Elems(in) = Elems(in') \cup {t} /\ t \notin Elems(in')
                 /\ t \notin care /\ t \notin Elems(out) /\ UNCHANGED <<care, out>>
              \/ /\ Elems(out) = Elems(out') \cup {t} /\ t \notin Elems(out')
                 /\ t \notin care /\ t \notin Elems(in) /\ UNCHANGED <<in, care>>
<1>1. CASE stage = "care"
  <2>1. PICK t \in care : care' = care \ {t} /\ FinishTask(t, "fail")
    BY <1>1 DEF Finish_Task_List
  <2>2. in' = in /\ out' = out /\ t \in Tasks
    BY <1>1 DEF Finish_Task_List, TypeOK
  <2>3. QED
    BY <2>1, <2>2 DEF TaskInv, OnePlace
<1>2. CASE stage = "in"
  <2>1. /\ in # <<>> /\ in' = Tail(in) /\ FinishTask(Head(in), "fail")
        /\ care' = care /\ out' = out /\ in \in Seq(Tasks) /\ NoRepeat(in)
    BY <1>2 DEF Finish_Task_List, TypeOK, TaskInv, OnePlace
  <2>2. /\ Elems(in) = Elems(in') \cup {Head(in)} /\ Head(in) \notin Elems(in')
        /\ Head(in) \in Tasks
    BY <2>1, ElemsPop
  <2>3. QED
    BY <2>1, <2>2 DEF TaskInv, OnePlace
<1>3. CASE stage \in {"out", "stop"}
  <2>1. PICK st \in {"complete", "fail"} : FinishTask(Head(out), st)
    BY <1>3 DEF Finish_Task_List
  <2>2. /\ out # <<>> /\ out' = Tail(out) /\ out \in Seq(Tasks) /\ NoRepeat(out)
        /\ care' = care /\ in' = in
    BY <1>3 DEF Finish_Task_List, TypeOK, TaskInv, OnePlace
  <2>3. /\ Elems(out) = Elems(out') \cup {Head(out)} /\ Head(out) \notin Elems(out')
        /\ Head(out) \in Tasks
    BY <2>2, ElemsPop
  <2>4. QED
    BY <2>1, <2>2, <2>3 DEF TaskInv, OnePlace
<1>4. QED
  BY <1>1, <1>2, <1>3 DEF Finish_Task_List

LEMMA RanStep ==
  ASSUME TypeOK, TaskInv, RanInv, [Next]_vars
  PROVE  RanInv'
<1> USE DEF RanInv, TypeOK, Go, Queued
<1>1. ASSUME NEW p \in Procs, Take(p) PROVE RanInv'
  <2>1. pc'[p] = "run" /\ cur'[p] = Head(in)
    BY <1>1 DEF Take
  <2>2. \A q \in Procs \ {p} : pc'[q] = pc[q] /\ cur'[q] = cur[q]
    BY <1>1 DEF Take
  <2>3. QED
    BY <1>1, <2>1, <2>2, TakeLists
<1>2. ASSUME NEW p \in Procs, Finish(p) PROVE RanInv'
  <2>1. pc[p] = "finish" /\ pc'[p] = "notify"
    BY <1>2 DEF Finish
  <2>2. \A q \in Procs \ {p} : pc'[q] = pc[q] /\ cur'[q] = cur[q]
    BY <1>2 DEF Finish
  <2>3. /\ cur[p] \in care /\ care' = care \ {cur[p]} /\ in' = in
        /\ Elems(out') = Elems(out) \cup {cur[p]}
        /\ UNCHANGED <<outcome, ran>>
    BY <1>2, FinishLists
  <2>4. RanInv /\ pc[p] = "finish"
    BY <2>1
  <2>5. ran' \subseteq Queued'
    <3> HIDE DEF TypeOK, Go
    <3> QED
      BY <2>3, <2>4
  <2> HIDE DEF TypeOK, Go, Queued
  <2>6. QED
    BY <2>1, <2>2, <2>3, <2>4, <2>5
<1>3. ASSUME NEW p \in Procs, Body(p) PROVE RanInv'
  <2>1. /\ pc[p] = "run" /\ pc'[p] = "finish" /\ cur[p] \in Tasks
        /\ ran' = ran \cup {cur[p]}
        /\ \A q \in Procs \ {p} : pc'[q] = pc[q]
        /\ UNCHANGED <<in, care, out, outcome, cur>>
    BY <1>3 DEF Body, lists, frames
  <2>2. cur[p] \in care /\ cur[p] \notin Elems(in)
    BY <2>1 DEF TaskInv, BackPointers, OnePlace
  <2>3. \A q \in Procs \ {p} : pc[q] = "run" => cur[q] # cur[p]
    BY <2>1, <2>2 DEF TaskInv, BackPointers
  <2>4. QED
    BY <2>1, <2>2, <2>3
<1>4. ASSUME NEW t \in Tasks, Tasque_Queue(t) PROVE RanInv'
  <2>1. UNCHANGED <<pc, cur>>
    BY <1>4 DEF Tasque_Queue, procs, frames
  <2>2. QED
    BY <1>4, <2>1, QueueLists
<1>5. CASE Deliver
  <2>1. UNCHANGED <<pc, cur>>
    BY <1>5 DEF Deliver, procs, frames
  <2>2. QED
    BY <1>5, <2>1, DeliverLists
<1>6. CASE Finish_Task_List
  <2>1. PICK t \in Tasks, st \in {"complete", "fail"} :
          /\ FinishTask(t, st)
          /\ \/ care' = care \ {t} /\ UNCHANGED <<in, out>>
             \/ Elems(in) = Elems(in') \cup {t} /\ UNCHANGED <<care, out>>
             \/ Elems(out) = Elems(out') \cup {t} /\ UNCHANGED <<in, care>>
    BY <1>6, FailLists
  <2>2. /\ UNCHANGED <<cur, ran>> /\ outcome'[t] = st
        /\ \A u \in Tasks \ {t} : outcome'[u] = outcome[u]
        /\ \A q \in Procs : pc'[q] \in {"run", "finish"} => pc'[q] = pc[q]
    BY <2>1 DEF FinishTask, frames
  <2>3. QED
    BY <2>1, <2>2
<1>7. ASSUME NEW p \in Procs,
             Register(p) \/ PassGate(p) \/ Retire(p) \/ Doze(p) \/ Wake(p)
             \/ NotifyOut(p) \/ Exit(p) \/ Spawn(p)
      PROVE  RanInv'
  <2>1. /\ UNCHANGED <<in, care, out, outcome, cur, ran>>
        /\ \A q \in Procs : pc'[q] \in {"run", "finish"} => pc'[q] = pc[q]
    BY <1>7 DEF Register, PassGate, Retire, Doze, Wake, NotifyOut, Exit, Spawn,
                lists, quiet, hist, frames
  <2>2. QED
    BY <2>1
<1>8. CASE Calm \/ StoreHandle
  BY <1>8 DEF Calm, StoreHandle, procs, frames, lists, quiet, hist
<1>9. QED
  BY CalmOrBusy, <1>1, <1>2, <1>3, <1>4, <1>5, <1>6, <1>7, <1>8 DEF Busy, ProcCode

(* The phases of the abstract specification.                                *)
Phase == [t \in Tasks |-> PhaseOf(t)]

LEMMA PhaseMove ==
  ASSUME NEW t \in Tasks, NEW to, PhaseOf(t)' = to,
         \A u \in Tasks \ {t} : PhaseOf(u)' = PhaseOf(u)
  PROVE  Phase' = [Phase EXCEPT ![t] = to]
BY DEF Phase

LEMMA ServiceStep ==
  ASSUME TypeOK, TaskInv, RanInv, [Next]_vars
  PROVE  [Service!Next]_(Service!svars)
<1> USE DEF TypeOK, RanInv, Go
<1>0. Phase = [t \in Tasks |-> PhaseOf(t)] /\ \A t \in Tasks : Phase[t] = PhaseOf(t)
  BY DEF Phase
<1>1. ASSUME NEW p \in Procs, Take(p) PROVE Service!Next
  <2>1. PICK t \in Tasks :
        /\ in # <<>> /\ in' = Tail(in) /\ t = Head(in)
        /\ t \in Elems(in) /\ t \notin Elems(in') /\ t \notin Elems(out)
        /\ Elems(in) = Elems(in') \cup {t} /\ care' = care \cup {t} /\ t \notin care
        /\ UNCHANGED <<out, outcome, ran>>
    BY <1>1, TakeLists
  <2>2. outcome[t] = "none"
    BY <2>1 DEF TaskInv, OnePlace
  <2>3. PhaseOf(t) = "queued" /\ PhaseOf(t)' = "running"
    BY <2>1, <2>2 DEF PhaseOf
  <2>4. \A u \in Tasks \ {t} : PhaseOf(u)' = PhaseOf(u)
    BY <2>1 DEF PhaseOf
  <2>5. Phase' = [Phase EXCEPT ![t] = "running"]
    BY <2>1, <2>3, <2>4, PhaseMove
  <2>6. Service!Start(t)
    BY <1>0, <2>1, <2>3, <2>5 DEF Service!Start, Service!Leave, Service!Move, Phase
  <2>7. QED
    BY <2>1, <2>6 DEF Service!Next
<1>2. ASSUME NEW p \in Procs, Body(p) PROVE Service!Next
  <2>1. PICK t \in Tasks :
        /\ pc[p] = "run" /\ t = cur[p] /\ ran' = ran \cup {t}
        /\ UNCHANGED <<in, care, out, outcome>>
    BY <1>2 DEF Body, lists
  <2>2. t \in care /\ t \notin Elems(in) /\ outcome[t] = "none" /\ t \notin ran
    BY <2>1 DEF TaskInv, BackPointers, OnePlace
  <2>3. PhaseOf(t) = "running" /\ PhaseOf(t)' = "done"
    BY <2>1, <2>2 DEF PhaseOf
  <2>4. \A u \in Tasks \ {t} : PhaseOf(u)' = PhaseOf(u)
    BY <2>1 DEF PhaseOf
  <2>5. Phase' = [Phase EXCEPT ![t] = "done"]
    BY <2>1, <2>3, <2>4, PhaseMove
  <2>6. Service!End(t)
    BY <1>0, <2>1, <2>3, <2>5 DEF Service!End, Service!Move, Phase
  <2>7. QED
    BY <2>1, <2>6 DEF Service!Next
<1>3. ASSUME NEW p \in Procs, Finish(p) PROVE UNCHANGED Service!svars
  <2>1. \A u \in Tasks : PhaseOf(u)' = PhaseOf(u)
    BY <1>3, FinishLists DEF PhaseOf
  <2>2. Phase' = Phase /\ in' = in
    BY <1>3, <2>1, FinishLists DEF Phase
  <2>3. QED
    BY <2>2 DEF Service!svars, Phase
<1>4. ASSUME NEW t \in Tasks, Tasque_Queue(t) PROVE Service!Next
  <2>1. /\ t \notin Queued /\ in' = Append(in, t) /\ Elems(in') = Elems(in) \cup {t}
        /\ UNCHANGED <<care, out, outcome, ran>>
    BY <1>4, QueueLists
  <2>2. PhaseOf(t) = "new" /\ PhaseOf(t)' = "queued"
    BY <2>1 DEF PhaseOf, Queued
  <2>3. \A u \in Tasks \ {t} : PhaseOf(u)' = PhaseOf(u)
    BY <2>1 DEF PhaseOf
  <2>4. Phase' = [Phase EXCEPT ![t] = "queued"]
    BY <2>2, <2>3, PhaseMove
  <2>5. Service!Submit(t)
    BY <1>0, <2>1, <2>2, <2>4 DEF Service!Submit, Service!Move, Phase
  <2>6. QED
    BY <2>5 DEF Service!Next
<1>5. CASE Deliver
  <2>1. PICK t \in Tasks :
        /\ t = Head(out) /\ t \notin Elems(in) /\ t \notin care
        /\ Elems(out) = Elems(out') \cup {t} /\ t \notin Elems(out')
        /\ outcome' = [outcome EXCEPT ![t] = "complete"] /\ outcome[t] = "none"
        /\ UNCHANGED <<in, care, ran>>
    BY <1>5, DeliverLists
  <2>2. PhaseOf(t) = "done" /\ PhaseOf(t)' = "complete"
    BY <2>1 DEF PhaseOf
  <2>3. \A u \in Tasks \ {t} : PhaseOf(u)' = PhaseOf(u)
    BY <2>1 DEF PhaseOf
  <2>4. Phase' = [Phase EXCEPT ![t] = "complete"]
    BY <2>1, <2>2, <2>3, PhaseMove
  <2>5. Service!Complete(t)
    BY <1>0, <2>1, <2>2, <2>4 DEF Service!Complete, Service!Move, Phase
  <2>6. QED
    BY <2>1, <2>5 DEF Service!Next
<1>6. CASE Finish_Task_List
  <2>1. PICK t \in Tasks, st \in {"complete", "fail"} :
           /\ FinishTask(t, st)
           /\ outcome[t] = "none"
           /\ \/ /\ t \in care /\ care' = care \ {t} /\ st = "fail"
                 /\ t \notin Elems(in) /\ t \notin Elems(out) /\ UNCHANGED <<in, out>>
              \/ /\ in # <<>> /\ t = Head(in) /\ in' = Tail(in) /\ st = "fail"
                 /\ Elems(in) = Elems(in') \cup {t} /\ t \notin Elems(in')
                 /\ t \notin care /\ t \notin Elems(out) /\ UNCHANGED <<care, out>>
              \/ /\ Elems(out) = Elems(out') \cup {t} /\ t \notin Elems(out')
                 /\ t \notin care /\ t \notin Elems(in) /\ UNCHANGED <<in, care>>
    BY <1>6, FailLists
  <2>2. /\ ran' = ran /\ outcome'[t] = st
        /\ \A u \in Tasks \ {t} : outcome'[u] = outcome[u]
    BY <2>1 DEF FinishTask
  <2>3. PhaseOf(t)' = st /\ \A u \in Tasks \ {t} : PhaseOf(u)' = PhaseOf(u)
    BY <2>1, <2>2 DEF PhaseOf
  <2>4. Phase' = [Phase EXCEPT ![t] = st]
    BY <2>3, PhaseMove
  <2>5. CASE t \in care /\ st = "fail" /\ t \notin Elems(in) /\ in' = in
    <3>1. PhaseOf(t) \in {"running", "done"}
      BY <2>1, <2>5 DEF PhaseOf
    <3>2. Service!Abort(t)
      BY <1>0, <2>4, <2>5, <3>1 DEF Service!Abort, Service!Move, Phase
    <3>3. QED
      BY <3>2 DEF Service!Next
  <2>6. CASE /\ in # <<>> /\ t = Head(in) /\ in' = Tail(in) /\ st = "fail"
             /\ t \in Elems(in)
    <3>1. PhaseOf(t) = "queued"
      BY <2>1, <2>6 DEF PhaseOf
    <3>2. Service!Refuse(t)
      BY <1>0, <2>4, <2>6, <3>1 DEF Service!Refuse, Service!Leave, Service!Move, Phase
    <3>3. QED
      BY <3>2 DEF Service!Next
  <2>7. CASE t \in Elems(out) /\ t \notin Elems(in) /\ in' = in
    <3>1. PhaseOf(t) = "done"
      BY <2>1, <2>7 DEF PhaseOf
    <3>2. CASE st = "complete"
      <4>1. Service!Complete(t)
        BY <1>0, <2>4, <2>7, <3>1, <3>2 DEF Service!Complete, Service!Move, Phase
      <4>2. QED
        BY <4>1 DEF Service!Next
    <3>3. CASE st = "fail"
      <4>1. Service!Abort(t)
        BY <1>0, <2>4, <2>7, <3>1, <3>3 DEF Service!Abort, Service!Move, Phase
      <4>2. QED
        BY <4>1 DEF Service!Next
    <3>4. QED
      BY <3>2, <3>3
  <2>8. QED
    BY <2>1, <2>5, <2>6, <2>7
<1>7. CASE UNCHANGED <<in, care, out, outcome, ran>>
  <2>1. \A u \in Tasks : PhaseOf(u)' = PhaseOf(u)
    BY <1>7 DEF PhaseOf
  <2>2. QED
    BY <1>7, <2>1 DEF Service!svars
<1>8. ASSUME NEW p \in Procs,
             Register(p) \/ PassGate(p) \/ Retire(p) \/ Doze(p) \/ Wake(p)
             \/ NotifyOut(p) \/ Exit(p) \/ Spawn(p)
      PROVE  UNCHANGED <<in, care, out, outcome, ran>>
  BY <1>8 DEF Register, PassGate, Retire, Doze, Wake, NotifyOut, Exit, Spawn,
              lists, quiet, hist
<1>9. Calm \/ StoreHandle => UNCHANGED <<in, care, out, outcome, ran>>
  BY DEF Calm, StoreHandle, lists, quiet, hist
<1>10. QED
  BY CalmOrBusy, <1>1, <1>2, <1>3, <1>4, <1>5, <1>6, <1>7, <1>8, <1>9 DEF Busy, ProcCode

(* The task queue implements TaskService.                                   *)
THEOREM TasqueImplements == Spec => ImplementsService
<1>1. Init => RanInv /\ Service!Init
  BY DEF Init, RanInv, Elems, Service!Init, PhaseOf
<1>2. TypeOK /\ TaskInv /\ RanInv /\ [Next]_vars => RanInv'
  BY RanStep
<1>3. IInv => TypeOK /\ TaskInv
  BY DEF IInv
<1>4. TypeOK /\ TaskInv /\ RanInv /\ [Next]_vars => [Service!Next]_(Service!svars)
  BY ServiceStep
<1>5. QED
  BY <1>1, <1>2, <1>3, <1>4, TasqueInvariant, PTL DEF Spec, ImplementsService, Service!Spec


-----------------------------------------------------------------------------
(* The main thread: where it is and on whose behalf, and what that says of  *)
(* the lists.                                                               *)

(* Processors leave the main thread and the history of shutdown alone.      *)
LEMMA ProcsLeaveMain ==
  ASSUME NEW p \in Procs, ProcCode(p) \/ Body(p)
  PROVE  UNCHANGED <<mpc, stage, busy, alert, max, reserve, locked, outcome, late>>
<1> USE DEF main, cursor, quiet, limits, hist
<1>1. CASE Register(p) \/ PassGate(p) \/ Take(p) \/ Retire(p) \/ Doze(p)
  BY <1>1 DEF Register, PassGate, Take, Retire, Doze
<1>2. CASE Wake(p) \/ Finish(p) \/ NotifyOut(p) \/ Exit(p) \/ Body(p)
  BY <1>2 DEF Wake, Finish, NotifyOut, Exit, Body
<1>3. QED
  BY <1>1, <1>2 DEF ProcCode

Locking == {"stop", "care", "in", "out"}

StageInv ==
  /\ mpc = "finish" => stage \in Locking
  /\ mpc = "update" => stage \in Locking \cup {"batch"}
  /\ mpc \in {"alert", "alertcb"} => stage \in {"pre", "batch", "post", "fail"}
  /\ mpc = "down" => stage = "fail"
  /\ stage = "fail" => mpc \in {"alert", "alertcb", "down"}
  /\ stage \in {"care", "in", "out"} => mpc \in {"finish", "update"} /\ locked
  /\ stage = "stop" => mpc \in {"finish", "update", "grace"}

LEMMA StageStep ==
  ASSUME StageInv, [Next]_vars
  PROVE  StageInv'
<1> USE DEF StageInv, Locking, world, main, cursor, quiet, limits, hist
<1>1. CASE UNCHANGED <<mpc, stage, locked>>
  BY <1>1
<1>2. ASSUME NEW p \in Procs, ProcCode(p) \/ Body(p) PROVE StageInv'
  BY <1>1, <1>2, ProcsLeaveMain
<1>3. CASE Client
  BY <1>1, <1>3 DEF Client, Tasque_Queue, Tasque_Alert
<1>4. CASE Perform_Update \/ CheckCount \/ SpawnFails \/ StoreHandle \/ \E p \in Procs : Spawn(p)
  BY <1>4 DEF Perform_Update, CheckCount, SpawnFails, StoreHandle, Spawn, Pass, PassFor
<1>5. CASE (\E a \in Alerts : FireAlert(a)) \/ AlertReturns
  BY <1>5 DEF FireAlert, AlertReturns, Pass, PassFor
<1>6. CASE AlertsDone
  BY <1>6 DEF AlertsDone, Pass, PassFor
<1>7. CASE CheckOut \/ CheckIn \/ CheckCare \/ Sleep
  BY <1>7 DEF CheckOut, CheckIn, CheckCare, Sleep, NewBatch, Pass, PassFor
<1>8. CASE WakeUp \/ Deliver \/ UpdateReturns
  BY <1>8 DEF WakeUp, Deliver, UpdateReturns
<1>9. CASE EndBatch \/ Again \/ Return
  BY <1>9 DEF EndBatch, Again, Return, NewBatch, Pass, PassFor
<1>10. CASE StopPolled \/ GraceOver \/ NextList
  BY <1>10 DEF StopPolled, GraceOver, NextList, After
<1>11. CASE StopFinished \/ ListsFinished
  BY <1>11 DEF StopFinished, ListsFinished, Terminate
<1>12. CASE Finish_Task_List
  <2>1. stage' = stage /\ locked' = locked /\ mpc' = "update" /\ mpc = "finish"
    BY <1>12 DEF Finish_Task_List, FinishTask
  <2> QED
    BY <2>1
<1>13. CASE StopPoll \/ Tasque_Stop \/ Tasque_Terminate
  BY <1>13 DEF StopPoll, Tasque_Stop, Tasque_Terminate, Terminate
<1>14. QED
  BY <1>1, <1>2, <1>3, <1>4, <1>5, <1>6, <1>7, <1>8, <1>9, <1>10, <1>11, <1>12, <1>13
     DEF Next, Update, Stopping, vars

(* Tasque_Terminate finishes one list after the other.  A list that is      *)
(* finished stays so while the lock is held, but for what callbacks queue.  *)
SettleInv ==
  /\ stage \in {"in", "out"} => care = {}
  /\ stage = "out" => Elems(in) \subseteq late
  /\ stage = "fail" => Elems(in) \cup care \cup Elems(out) \subseteq late

LEMMA SettleStep ==
  ASSUME TypeOK, TaskInv, StageInv, SettleInv, [Next]_vars
  PROVE  SettleInv'
<1> USE DEF SettleInv
<1>1. ASSUME NEW p \in Procs, Take(p) PROVE SettleInv'
  <2>1. ~ locked /\ UNCHANGED <<stage, late>>
    BY <1>1 DEF Take, main, quiet, hist
  <2>2. stage \notin {"in", "out"}
    BY <2>1 DEF StageInv
  <2> QED
    BY <1>1, <2>1, <2>2, TakeLists
<1>2. ASSUME NEW p \in Procs, Finish(p) PROVE SettleInv'
  <2>1. UNCHANGED <<stage, late>>
    BY <1>2 DEF Finish, main, quiet, hist
  <2> QED
    BY <1>2, <2>1, FinishLists
<1>3. ASSUME NEW t \in Tasks, Tasque_Queue(t) PROVE SettleInv'
  <2>1. stage' = stage /\ late' = IF stage \in {"out", "fail"} THEN late \cup {t} ELSE late
    BY <1>3 DEF Tasque_Queue
  <2> QED
    BY <1>3, <2>1, QueueLists
<1>4. CASE Deliver
  <2>1. stage' = "batch"
    BY <1>4 DEF Deliver
  <2> QED
    BY <2>1
<1>5. CASE Finish_Task_List
  <2>1. stage' = stage /\ late' = late /\ mpc = "finish"
    BY <1>5 DEF Finish_Task_List, FinishTask
  <2>2. Elems(in') \subseteq Elems(in) /\ care' \subseteq care
    BY <1>5, FailLists
  <2>3. stage # "fail"
    BY <2>1 DEF StageInv
  <2> QED
    BY <2>1, <2>2, <2>3
<1>6. CASE NextList
  <2>1. /\ stage \in {"care", "in"} /\ stage' = After[stage] /\ UNCHANGED <<in, care, out, late>>
        /\ stage = "care" => care = {}
        /\ stage = "in" => in = <<>>
    BY <1>6 DEF NextList, world, lists, quiet, hist
  <2>2. in = <<>> => Elems(in) = {}
    BY DEF Elems
  <2> QED
    BY <2>1, <2>2 DEF After
<1>7. CASE ListsFinished
  <2>1. stage = "out" /\ out = <<>> /\ UNCHANGED <<in, care, out, late>>
    BY <1>7 DEF ListsFinished, lists, hist
  <2>2. Elems(out) = {}
    BY <2>1 DEF Elems
  <2> QED
    BY <2>1, <2>2
<1>8. ASSUME UNCHANGED <<in, care, out, late>>, stage' = stage \/ stage' \in {"pre", "batch", "post", "stop", "care"}
      PROVE  SettleInv'
  BY <1>8
<1>9. ASSUME NEW p \in Procs, ProcCode(p) \/ Body(p), ~ Take(p), ~ Finish(p)
      PROVE  SettleInv'
  <2>1. UNCHANGED <<in, care, out>>
    BY <1>9 DEF ProcCode, Register, PassGate, Retire, Doze, Wake, NotifyOut, Exit, Body, lists
  <2> QED
    BY <1>8, <1>9, <2>1, ProcsLeaveMain
<1>10. CASE Update /\ ~ Deliver
  <2> USE DEF world, main, cursor, quiet, lists, hist
  <2>1. CASE Perform_Update \/ CheckCount \/ SpawnFails \/ StoreHandle \/ \E p \in Procs : Spawn(p)
    BY <1>8, <2>1 DEF Perform_Update, CheckCount, SpawnFails, StoreHandle, Spawn, Pass, PassFor
  <2>2. CASE (\E a \in Alerts : FireAlert(a)) \/ AlertReturns \/ AlertsDone
    BY <1>8, <2>2 DEF FireAlert, AlertReturns, AlertsDone, Pass, PassFor
  <2>3. CASE CheckOut \/ CheckIn \/ CheckCare \/ Sleep
    BY <1>8, <2>3 DEF CheckOut, CheckIn, CheckCare, Sleep, NewBatch, Pass, PassFor
  <2>4. CASE WakeUp \/ UpdateReturns
    BY <1>8, <2>4 DEF WakeUp, UpdateReturns
  <2>5. CASE EndBatch \/ Again \/ Return
    BY <1>8, <2>5 DEF EndBatch, Again, Return, NewBatch, Pass, PassFor
  <2> QED
    BY <1>10, <2>1, <2>2, <2>3, <2>4, <2>5 DEF Update
<1>11. CASE StopPolled \/ GraceOver \/ StopFinished \/ StopPoll \/ Tasque_Stop \/ Tasque_Terminate
  BY <1>8, <1>11 DEF StopPolled, GraceOver, StopFinished, StopPoll, Tasque_Stop, Tasque_Terminate,
                     Terminate, lists, hist, main
<1>12. ASSUME NEW a \in Alerts, Tasque_Alert(a) PROVE SettleInv'
  BY <1>8, <1>12 DEF Tasque_Alert, world, quiet, lists, hist
<1>13. CASE UNCHANGED vars
  BY <1>8, <1>13 DEF vars, world, main, quiet, lists, hist
<1>14. QED
  BY <1>1, <1>2, <1>3, <1>4, <1>5, <1>6, <1>7, <1>9, <1>10, <1>11, <1>12, <1>13
     DEF Next, Client, Stopping

(* When Tasque_Terminate is over no task is left but those that callbacks   *)
(* queued after Task_In was finished.                                       *)
THEOREM TasqueSettles == Spec => []TerminateSettles
<1>1. Init => StageInv /\ SettleInv
  BY DEF Init, StageInv, Locking, SettleInv
<1>2. IInv /\ StageInv /\ SettleInv /\ [Next]_vars => StageInv' /\ SettleInv'
  BY StageStep, SettleStep DEF IInv
<1>3. StageInv /\ SettleInv => TerminateSettles
  BY DEF StageInv, SettleInv, TerminateSettles
<1>4. QED
  BY <1>1, <1>2, <1>3, TasqueInvariant, PTL DEF Spec

(* What Perform_Update returned stays true until a task is queued or an     *)
(* alert armed, also when the next call cannot start a thread.              *)
RestInv ==
  mpc \in {"app", "count", "spawn"} /\ ~ busy =>
    in = <<>> /\ care = {} /\ out = <<>> /\ Armed = {}

LEMMA RestStep ==
  ASSUME TypeOK, TaskInv, StageInv, RestInv, [Next]_vars
  PROVE  RestInv'
<1>1. ASSUME UNCHANGED <<in, care, out, alert, busy>>, mpc' \in {"app", "count", "spawn"} => mpc \in {"app", "count", "spawn"}
      PROVE  RestInv'
  BY <1>1 DEF RestInv, Armed
<1>2. ASSUME mpc' \notin {"app", "count", "spawn"} PROVE RestInv'
  BY <1>2 DEF RestInv
<1>3. ASSUME NEW p \in Procs, ProcCode(p) \/ Body(p) PROVE RestInv'
  <2>1. UNCHANGED <<mpc, busy, alert>>
    BY <1>3, ProcsLeaveMain
  <2>2. CASE Take(p)
    <3>1. in # <<>>
      BY <2>2 DEF Take
    <3> QED
      BY <2>1, <3>1 DEF RestInv
  <2>3. CASE Finish(p)
    <3>1. care # {}
      BY <2>3 DEF Finish, TaskInv, BackPointers
    <3> QED
      BY <2>1, <3>1 DEF RestInv
  <2>4. CASE ~ Take(p) /\ ~ Finish(p)
    <3>1. UNCHANGED <<in, care, out>>
      BY <1>3, <2>4 DEF ProcCode, Register, PassGate, Retire, Doze, Wake, NotifyOut, Exit, Body, lists
    <3> QED
      BY <1>1, <2>1, <3>1
  <2> QED
    BY <2>2, <2>3, <2>4
<1>4. CASE Client
  <2>1. busy' = TRUE
    BY <1>4 DEF Client, Tasque_Queue, Tasque_Alert
  <2> QED
    BY <2>1, Zenon DEF RestInv
<1>5. CASE Return
  <2>1. UNCHANGED <<in, care, out, alert>> /\ busy' = Pending
    BY <1>5 DEF Return, world, lists
  <2>2. Armed' = Armed
    BY <2>1 DEF Armed
  <2>3. Pending <=> ~ (in = <<>> /\ care = {} /\ out = <<>> /\ Armed = {})
    BY DEF Pending
  <2> HIDE DEF Pending
  <2>4. busy' <=> Pending
    BY <2>1
  <2> QED
    BY <2>1, <2>2, <2>3, <2>4 DEF RestInv
<1>6. CASE Perform_Update \/ CheckCount \/ SpawnFails \/ StoreHandle \/ \E p \in Procs : Spawn(p)
  BY <1>1, <1>2, <1>6 DEF Perform_Update, CheckCount, SpawnFails, StoreHandle, Spawn, Pass, PassFor,
                          world, cursor, lists
<1>7. CASE (\E a \in Alerts : FireAlert(a)) \/ AlertReturns \/ AlertsDone
  BY <1>2, <1>7 DEF FireAlert, AlertReturns, AlertsDone, Pass, PassFor
<1>8. CASE CheckOut \/ CheckIn \/ CheckCare \/ Sleep
  BY <1>2, <1>8 DEF CheckOut, CheckIn, CheckCare, Sleep, NewBatch, Pass, PassFor
<1>9. CASE WakeUp \/ Deliver \/ UpdateReturns \/ EndBatch \/ Again
  BY <1>2, <1>9 DEF WakeUp, Deliver, UpdateReturns, EndBatch, Again, NewBatch, Pass, PassFor
<1>10. CASE Stopping \/ Tasque_Stop \/ Tasque_Terminate \/ StopPoll
  BY <1>1, <1>2, <1>10 DEF Stopping, StopPolled, GraceOver, Finish_Task_List, FinishTask, NextList, StopFinished,
                     ListsFinished, Tasque_Stop, Tasque_Terminate, Terminate, StopPoll, main,
                     cursor, world, lists
<1>11. CASE UNCHANGED vars
  BY <1>1, <1>11 DEF vars, world, main, cursor, lists
<1>12. QED
  BY <1>3, <1>4, <1>5, <1>6, <1>7, <1>8, <1>9, <1>10, <1>11 DEF Next, Update

(* A program that was told zero has nothing left in the queue.              *)
THEOREM TasqueZero == Spec => []ZeroMeansDone
<1>1. Init => StageInv /\ RestInv
  BY DEF Init, StageInv, Locking, RestInv, Armed
<1>2. IInv /\ StageInv /\ RestInv /\ [Next]_vars => StageInv' /\ RestInv'
  BY StageStep, RestStep DEF IInv
<1>3. RestInv => ZeroMeansDone
  BY DEF RestInv, ZeroMeansDone
<1>4. QED
  BY <1>1, <1>2, <1>3, TasqueInvariant, PTL DEF Spec
-----------------------------------------------------------------------------
(* Perform_Update never sleeps through a result.                            *)

(* The queue is not being shut down.                                        *)
Open == mpc \notin {"stopping", "grace", "down"} /\ stage \notin Locking \cup {"fail"}

(* Perform_Update has made sure of a processor.                             *)
Staffed ==
  \/ mpc \in {"check", "monitor", "nothing", "sleep", "wait"}
  \/ mpc \in {"alert", "alertcb"} /\ stage = "pre"

LimitInv ==
  IF Open THEN /\ max = MAX0 /\ reserve = RESERVE0
               /\ \A p \in Procs : pc[p] # "killed"
  ELSE max = 0 /\ reserve = 0

LEMMA LimitStep ==
  ASSUME TypeOK, StageInv, LimitInv, [Next]_vars
  PROVE  LimitInv'
<1> USE DEF LimitInv, Open, Locking
<1>1. ASSUME UNCHANGED <<max, reserve>>, UNCHANGED pc \/ (\E p \in Procs, at \in PcValues \ {"killed"} : Go(p, at)), Open' <=> Open
      PROVE  LimitInv'
  BY <1>1 DEF TypeOK, Go
<1> USE DEF world, main, cursor, quiet, limits, procs
<1>2. ASSUME NEW p \in Procs, ProcCode(p) \/ Body(p) PROVE LimitInv'
  <2>1. UNCHANGED <<mpc, stage, max, reserve>>
    BY <1>2, ProcsLeaveMain
  <2>2. \E at \in PcValues \ {"killed"} : Go(p, at)
    BY <1>2 DEF ProcCode, Body, Register, PassGate, Take, Retire, Doze, Wake, Finish, NotifyOut, Exit, PcValues
  <2> QED
    BY <1>1, <2>1, <2>2
<1>3. CASE Client
  BY <1>1, <1>3 DEF Client, Tasque_Queue, Tasque_Alert
<1>4. CASE Perform_Update \/ CheckCount \/ SpawnFails \/ StoreHandle
  BY <1>1, <1>4 DEF Perform_Update, CheckCount, SpawnFails, StoreHandle, Pass, PassFor, StageInv
<1>5. ASSUME NEW p \in Procs, Spawn(p) PROVE LimitInv'
  BY <1>1, <1>5 DEF Spawn, PcValues
<1>6. CASE (\E a \in Alerts : FireAlert(a)) \/ AlertReturns \/ AlertsDone
  BY <1>1, <1>6 DEF FireAlert, AlertReturns, AlertsDone, Pass, PassFor
<1>7. CASE CheckOut \/ CheckIn \/ CheckCare \/ Sleep
  BY <1>1, <1>7 DEF CheckOut, CheckIn, CheckCare, Sleep, NewBatch, Pass, PassFor
<1>8. CASE WakeUp \/ Deliver \/ UpdateReturns
  BY <1>1, <1>8 DEF WakeUp, Deliver, UpdateReturns, StageInv
<1>9. CASE EndBatch \/ Again \/ Return
  BY <1>1, <1>9 DEF EndBatch, Again, Return, NewBatch, Pass, PassFor, StageInv
<1>10. CASE Stopping \/ Tasque_Stop \/ Tasque_Terminate
  <2>1. CASE StopPolled \/ GraceOver \/ NextList
    BY <2>1 DEF StopPolled, GraceOver, NextList, After
  <2>2. CASE Finish_Task_List
    <3>1. /\ stage' = stage /\ mpc = "finish" /\ mpc' = "update"
          /\ UNCHANGED <<max, reserve>>
      BY <2>2 DEF Finish_Task_List, FinishTask
    <3>2. ~ Open /\ ~ Open'
      BY <3>1 DEF StageInv
    <3> HIDE DEF Open
    <3> QED
      BY <3>1, <3>2
  <2>3. CASE StopFinished \/ ListsFinished \/ Tasque_Stop \/ Tasque_Terminate
    BY <2>3 DEF StopFinished, ListsFinished, Tasque_Stop, Tasque_Terminate, Terminate, NoMoreProcs
  <2> QED
    BY <1>10, <2>1, <2>2, <2>3 DEF Stopping
<1>11. CASE StopPoll
  BY <1>1, <1>11 DEF StopPoll
<1>12. CASE UNCHANGED vars
  BY <1>1, <1>12 DEF vars
<1>13. QED
  BY <1>2, <1>3, <1>4, <1>5, <1>6, <1>7, <1>8, <1>9, <1>10, <1>11, <1>12 DEF Next, Update

StaffInv == Staffed => count > 0

(* With a reserve the last processor never retires, because the idle ones   *)
(* are among the linked ones.                                               *)
LEMMA StaffStep ==
  ASSUME RESERVE0 > 0, MAX0 > 0,
         TypeOK, StartInv, CountInv, StageInv, LimitInv, StaffInv, [Next]_vars
  PROVE  StaffInv'
<1> USE TasqueAssumption
<1>1. count \in Nat /\ oncare \in Nat /\ oncare <= count
  <2>1. IsFiniteSet(Linked)
    BY FS_Subset DEF Linked
  <2>2. IdleProcs \subseteq Linked
    BY DEF IdleProcs, Linked
  <2> QED
    BY <2>1, <2>2, FS_Subset, FS_CardinalityType DEF CountInv, CountersAgree
<1>2. \A p \in Procs : pc[p] \notin {"none", "start", "exit"} => count > 0
  <2> SUFFICES ASSUME NEW p \in Linked PROVE count > 0
    BY DEF Linked
  <2>1. IsFiniteSet(Linked)
    BY FS_Subset DEF Linked
  <2>2. count # 0
    BY <2>1, FS_EmptySet DEF CountInv, CountersAgree
  <2> QED
    BY <1>1, <2>2
<1>3. Staffed => Open
  BY DEF Staffed, Open, Locking, StageInv
<1>4. ASSUME Staffed' => Staffed, count' = count PROVE StaffInv'
  BY <1>4 DEF StaffInv
<1>5. ASSUME ~ Staffed' PROVE StaffInv'
  BY <1>5 DEF StaffInv
<1> USE DEF world, main, cursor, quiet, limits, counts
<1>6. ASSUME NEW p \in Procs, ProcCode(p) \/ Body(p) PROVE StaffInv'
  <2>1. UNCHANGED <<mpc, stage, max, reserve>>
    BY <1>6, ProcsLeaveMain
  <2>2. CASE Register(p)
    BY <1>1, <2>2 DEF Register, StaffInv
  <2>3. CASE Retire(p)
    <3>1. oncare > reserve /\ count' = count - 1
      BY <2>3 DEF Retire, Uncount
    <3>2. Open => count' > 0
      BY <1>1, <3>1 DEF LimitInv
    <3>3. Staffed' => Staffed
      BY <2>1 DEF Staffed
    <3> QED
      BY <1>3, <3>2, <3>3 DEF StaffInv
  <2>4. CASE ~ Register(p) /\ ~ Retire(p)
    <3>1. count' = count
      BY <1>6, <2>4 DEF ProcCode, Body, PassGate, Take, Doze, Wake, Finish, NotifyOut, Exit
    <3> QED
      BY <1>4, <2>1, <3>1 DEF Staffed
  <2> QED
    BY <2>2, <2>3, <2>4
<1>7. CASE Client
  BY <1>4, <1>7 DEF Client, Tasque_Queue, Tasque_Alert, Staffed
<1>8. CASE Perform_Update
  BY <1>1, <1>8 DEF Perform_Update, Pass, PassFor, StaffInv, Staffed
<1>9. CASE CheckCount
  <2>1. Open
    BY <1>9 DEF CheckCount, Pass, PassFor, Open, Locking, StageInv
  <2>2. max > 0
    BY <2>1 DEF LimitInv
  <2> QED
    BY <1>1, <1>9, <2>2 DEF CheckCount, RoomForProc, Pass, PassFor, StaffInv, Staffed
<1>10. CASE StoreHandle
  <2>1. mp \in Procs /\ pc[mp] = "gate" /\ count' = count
    BY <1>10 DEF StoreHandle, StartInv, TypeOK
  <2> QED
    BY <1>2, <2>1 DEF StaffInv
<1>11. CASE SpawnFails \/ \E p \in Procs : Spawn(p)
  BY <1>5, <1>11 DEF SpawnFails, Spawn, Pass, PassFor, Staffed
<1>12. CASE (\E a \in Alerts : FireAlert(a)) \/ AlertReturns \/ AlertsDone
  BY <1>4, <1>12 DEF FireAlert, AlertReturns, AlertsDone, Pass, PassFor, Staffed
<1>13. CASE CheckOut \/ CheckIn \/ CheckCare \/ Sleep
  BY <1>4, <1>13 DEF CheckOut, CheckIn, CheckCare, Sleep, NewBatch, Pass, PassFor, Staffed
<1>14. CASE WakeUp \/ Deliver
  BY <1>5, <1>14 DEF WakeUp, Deliver, Staffed
<1>15. CASE UpdateReturns
  BY <1>5, <1>15 DEF UpdateReturns, Staffed, StageInv, Locking
<1>16. CASE EndBatch \/ Again \/ Return
  BY <1>5, <1>16 DEF EndBatch, Again, Return, NewBatch, Pass, PassFor, Staffed
<1>17. CASE Stopping \/ Tasque_Stop \/ Tasque_Terminate \/ StopPoll
  BY <1>5, <1>17 DEF Stopping, StopPolled, GraceOver, Finish_Task_List, FinishTask, NextList, StopFinished,
                     ListsFinished, Tasque_Stop, Tasque_Terminate, Terminate, StopPoll, Staffed
<1>18. CASE UNCHANGED vars
  BY <1>4, <1>18 DEF vars, Staffed
<1>19. QED
  BY <1>6, <1>7, <1>8, <1>9, <1>10, <1>11, <1>12, <1>13, <1>14, <1>15, <1>16, <1>17, <1>18 DEF Next, Update

(* A task that is finished after Perform_Update saw Task_Out empty is       *)
(* signalled by the processor that finished it.                             *)
NotifiedInv ==
  mpc \in {"monitor", "nothing", "sleep", "wait"} =>
    out = <<>> \/ outEvt \/ \E p \in Procs : pc[p] = "notify"

LEMMA NotifiedStep ==
  ASSUME AutoReset, TypeOK, NotifiedInv, [Next]_vars
  PROVE  NotifiedInv'
<1> DEFINE W == {"monitor", "nothing", "sleep", "wait"}
<1>1. ASSUME UNCHANGED <<pc, out, outEvt>>, mpc' \in W => mpc \in W
      PROVE  NotifiedInv'
  BY <1>1, Zenon DEF NotifiedInv
<1>2. ASSUME mpc' \notin W PROVE NotifiedInv'
  BY <1>2 DEF NotifiedInv
<1>3. ASSUME NEW p \in Procs, ProcCode(p) \/ Body(p) PROVE NotifiedInv'
  <2>1. mpc' = mpc
    BY <1>3, ProcsLeaveMain
  <2>2. CASE Finish(p)
    <3>1. pc'[p] = "notify"
      BY <2>2 DEF Finish, Go, TypeOK
    <3> QED
      BY <3>1 DEF NotifiedInv
  <2>3. CASE NotifyOut(p)
    <3>1. outEvt' = (AutoReset \/ mpc = "wait" \/ outEvt)
      BY <2>3 DEF NotifyOut, SignalOut
    <3>2. outEvt'
      BY <3>1
    <3> QED
      BY <3>2 DEF NotifiedInv
  <2>4. CASE ~ Finish(p) /\ ~ NotifyOut(p)
    <3>1. UNCHANGED <<out, outEvt>>
      BY <1>3, <2>4 DEF ProcCode, Register, PassGate, Take, Retire, Doze, Wake, Exit, Body, quiet, events, lists
    <3>2. pc[p] # "notify" /\ \A q \in Procs \ {p} : pc'[q] = pc[q]
      BY <1>3, <2>4 DEF ProcCode, Register, PassGate, Take, Retire, Doze, Wake, Exit, Body, Go, TypeOK
    <3>3. (\E q \in Procs : pc[q] = "notify") => \E q \in Procs : pc'[q] = "notify"
      BY <3>2
    <3> QED
      BY <2>1, <3>1, <3>3, Zenon DEF NotifiedInv
  <2> QED
    BY <2>2, <2>3, <2>4
<1> USE DEF world, main, cursor, quiet, lists, events, procs
<1>4. CASE Client
  <2>1. ASSUME NEW a \in Alerts, Tasque_Alert(a) PROVE NotifiedInv'
    BY <1>2, <2>1 DEF Tasque_Alert, InClient
  <2>2. ASSUME NEW t \in Tasks, Tasque_Queue(t) PROVE NotifiedInv'
    BY <1>1, <2>2 DEF Tasque_Queue
  <2> QED
    BY <1>4, <2>1, <2>2 DEF Client
<1>5. CASE Perform_Update \/ CheckCount \/ SpawnFails \/ StoreHandle \/ \E p \in Procs : Spawn(p)
  BY <1>2, <1>5 DEF Perform_Update, CheckCount, SpawnFails, StoreHandle, Spawn, Pass, PassFor
<1>6. CASE (\E a \in Alerts : FireAlert(a)) \/ AlertReturns \/ AlertsDone
  BY <1>2, <1>6 DEF FireAlert, AlertReturns, AlertsDone, Pass, PassFor
<1>7. CASE CheckOut
  BY <1>2, <1>7 DEF CheckOut, NewBatch, Pass, PassFor, NotifiedInv
<1>8. CASE CheckIn \/ CheckCare \/ Sleep
  BY <1>1, <1>2, <1>8 DEF CheckIn, CheckCare, Sleep, NewBatch, Pass, PassFor
<1>9. CASE WakeUp \/ Deliver \/ UpdateReturns
  BY <1>2, <1>9 DEF WakeUp, Deliver, UpdateReturns
<1>10. CASE EndBatch \/ Again \/ Return
  BY <1>2, <1>10 DEF EndBatch, Again, Return, NewBatch, Pass, PassFor
<1>11. CASE Stopping \/ Tasque_Stop \/ Tasque_Terminate \/ StopPoll
  BY <1>2, <1>11 DEF Stopping, StopPolled, GraceOver, Finish_Task_List, FinishTask, NextList, StopFinished,
                     ListsFinished, Tasque_Stop, Tasque_Terminate, Terminate, StopPoll
<1>12. CASE UNCHANGED vars
  BY <1>1, <1>12 DEF vars
<1>13. QED
  BY <1>3, <1>4, <1>5, <1>6, <1>7, <1>8, <1>9, <1>10, <1>11, <1>12 DEF Next, Update

(* No notification that Perform_Update waits for is lost, when the monitor  *)
(* keeps a signal (the event the code makes) and the limits leave room for  *)
(* a processor (they are 5 and 1000 in the code).                           *)
THEOREM TasqueWakes ==
  ASSUME AutoReset, RESERVE0 > 0, MAX0 > 0
  PROVE  Spec => []WaitIsWoken
<1>1. Init => StageInv /\ LimitInv /\ StaffInv /\ NotifiedInv
  BY DEF Init, StageInv, Locking, LimitInv, Open, StaffInv, Staffed, NotifiedInv
<1>2. IInv /\ StageInv /\ LimitInv /\ StaffInv /\ NotifiedInv /\ [Next]_vars
        => StageInv' /\ LimitInv' /\ StaffInv' /\ NotifiedInv'
  BY StageStep, LimitStep, StaffStep, NotifiedStep DEF IInv
<1>3. IInv /\ StageInv /\ LimitInv /\ StaffInv /\ NotifiedInv => WaitIsWoken
  <2> SUFFICES ASSUME IInv, StageInv, LimitInv, StaffInv, NotifiedInv, mpc = "wait"
               PROVE  /\ out # <<>> => outEvt \/ \E p \in Procs : pc[p] = "notify"
                      /\ \E p \in Procs : pc[p] \in {"gate", "loop", "doze", "run", "finish", "notify"}
    BY Zenon DEF WaitIsWoken
  <2>1. out # <<>> => outEvt \/ \E p \in Procs : pc[p] = "notify"
    BY Zenon DEF NotifiedInv
  <2>2. Staffed /\ Open
    BY DEF Staffed, Open, Locking, StageInv
  <2>3. Linked # {}
    BY <2>2, FS_EmptySet DEF StaffInv, IInv, CountInv, CountersAgree
  <2>4. PICK p \in Procs : pc[p] \notin {"none", "start", "exit"}
    BY <2>3 DEF Linked
  <2>5. pc[p] \in PcValues \ {"killed"}
    BY <2>2 DEF LimitInv, IInv, TypeOK
  <2> QED
    BY <2>1, <2>4, <2>5 DEF PcValues
<1>4. QED
  BY <1>1, <1>2, <1>3, TasqueInvariant, PTL DEF Spec

-----------------------------------------------------------------------------
(* Tasque_Proc_List stays a list: the links of the frames.                  *)
ChainInv ==
  /\ \E s \in [1..count -> Linked] : Order(s) /\ LinkedInOrder(s)
  /\ \A p \in Procs \ Linked : next[p] = NoProc /\ prev[p] = NoProc

(* Only a processor that registers or retires touches the list.             *)
LEMMA ListSteps ==
  ASSUME TypeOK, TaskInv, [Next]_vars,
         \A p \in Procs : ~Register(p) /\ ~Retire(p)
  PROVE  Linked' = Linked /\ UNCHANGED <<next, prev, count>>
<1> USE TasqueAssumption
<1> USE DEF Linked, TypeOK, Go, links, frames, procs, counts
<1> DEFINE Kept == Linked' = Linked /\ UNCHANGED <<next, prev, count>>
<1>1. ASSUME NEW p \in Procs, PassGate(p) \/ Doze(p) \/ Wake(p) \/ NotifyOut(p)
      PROVE  Kept
  BY <1>1 DEF PassGate, Doze, Wake, NotifyOut
<1>2. ASSUME NEW p \in Procs, Take(p) \/ Finish(p) PROVE Kept
  BY <1>2 DEF Take, Finish
<1>3. ASSUME NEW p \in Procs, Exit(p) \/ Body(p) \/ Spawn(p) PROVE Kept
  BY <1>3 DEF Exit, Body, Spawn
<1>4. ASSUME Finish_Task_List PROVE Kept
  <2>1. PICK t \in Tasks, st \in {"complete", "fail"} :
          FinishTask(t, st) /\ (t \in care \/ t \in Elems(in) \cup Elems(out))
    BY <1>4, ElemsPop DEF Finish_Task_List
  <2>2. \A q \in Procs : q = processor[t] => pc[q] \in {"run", "finish"}
    BY <2>1 DEF TaskInv, BackPointers
  <2>3. QED
    BY <2>1, <2>2 DEF FinishTask
<1>5. ASSUME NEW t \in Tasks, Tasque_Queue(t) PROVE Kept
  BY <1>5 DEF Tasque_Queue
<1>6. ASSUME StoreHandle \/ Deliver \/ Calm PROVE Kept
  BY <1>6 DEF StoreHandle, Deliver, Calm
<1>7. QED
  BY CalmOrBusy, <1>1, <1>2, <1>3, <1>4, <1>5, <1>6 DEF Busy, ProcCode

(* A new frame becomes the first of the chain.                              *)
LEMMA ChainLink ==
  ASSUME TypeOK, CountInv, ChainInv, NEW p \in Procs, Register(p)
  PROVE  ChainInv'
<1> USE TasqueAssumption
<1>1. count \in Nat
  BY FS_CardinalityType, FS_Subset DEF CountInv, CountersAgree, Linked
<1>2. PICK n \in Nat : n = count
  BY <1>1
<1>3. PICK s \in [1..n -> Linked] : Order(s) /\ LinkedInOrder(s)
  BY <1>2 DEF ChainInv
<1>4. /\ p \notin Linked /\ Linked' = Linked \cup {p} /\ Linked \subseteq Procs
      /\ count' = n + 1
  BY <1>2 DEF Register, Linked, TypeOK, Go
<1> DEFINE first == next[List]
           s2 == [k \in 1..n + 1 |-> IF k = 1 THEN p ELSE s[k - 1]]
<1>5. /\ next'[List] = p /\ next'[p] = first /\ prev'[p] = List
      /\ \A q \in Procs \ {p} : next'[q] = next[q]
      /\ \A q \in Procs \ {p} : prev'[q] = IF q = first THEN p ELSE prev[q]
  BY DEF Register, Link, TypeOK
<1>6. /\ \A k \in 1..n : s[k] \in Linked /\ s[k] \in Procs \ {p}
      /\ \A j, k \in 1..n : s[j] = s[k] => j = k
      /\ \A q \in Linked : \E k \in 1..n : s[k] = q
      /\ \A k \in 0..n : next[At(s, k)] = At(s, k + 1)
      /\ \A k \in 1..n : prev[s[k]] = At(s, k - 1)
  <2>1. DOMAIN s = 1..n /\ (1..n) \cup {0} = 0..n
    BY <1>3
  <2>2. \A k \in 1..n : s[k] \in Linked /\ s[k] \in Procs \ {p}
    BY <1>3, <1>4
  <2>3. /\ \A j, k \in 1..n : s[j] = s[k] => j = k
        /\ \A q \in Linked : \E k \in 1..n : s[k] = q
    BY <1>3, <2>1, Zenon DEF Order
  <2>4. /\ \A k \in 0..n : next[At(s, k)] = At(s, k + 1)
        /\ \A k \in 1..n : prev[s[k]] = At(s, k - 1)
    BY <1>3, <2>1, Zenon DEF LinkedInOrder
  <2> QED
    BY <2>2, <2>3, <2>4
<1>7. /\ first = At(s, 1)
      /\ n = 0 => first = NoProc
      /\ n # 0 => first = s[1]
  BY <1>6 DEF At
<1>8. /\ At(s2, 0) = List /\ At(s2, 1) = p
      /\ \A k \in 1..n : At(s2, k + 1) = s[k] /\ s2[k + 1] = s[k]
      /\ At(s2, n + 2) = NoProc
  BY <1>4 DEF At
<1>9. Order(s2)'
  <2>1. \A q \in Linked \cup {p} : \E k \in 1..n + 1 : s2[k] = q
    <3>1. s2[1] = p /\ 1 \in 1..n + 1
      OBVIOUS
    <3>2. ASSUME NEW q \in Linked PROVE \E k \in 1..n + 1 : s2[k] = q
      <4>1. PICK k \in 1..n : s[k] = q
        BY <1>6
      <4>2. s2[k + 1] = q /\ k + 1 \in 1..n + 1
        BY <4>1
      <4> QED
        BY <4>2
    <3> QED
      BY <3>1, <3>2
  <2>2. ASSUME NEW j \in 1..n + 1, NEW k \in 1..n + 1, s2[j] = s2[k] PROVE j = k
    <3>1. CASE j = 1 /\ k = 1
      BY <3>1
    <3>2. CASE j = 1 /\ k # 1
      BY <1>6, <2>2, <3>2
    <3>3. CASE j # 1 /\ k = 1
      BY <1>6, <2>2, <3>3
    <3>4. CASE j # 1 /\ k # 1
      <4>1. s[j - 1] = s[k - 1] /\ j - 1 \in 1..n /\ k - 1 \in 1..n
        BY <2>2, <3>4
      <4>2. j - 1 = k - 1
        BY <1>6, <4>1, Zenon
      <4> QED
        BY <4>2
    <3> QED
      BY <3>1, <3>2, <3>3, <3>4
  <2> QED
    BY <1>4, <2>1, <2>2 DEF Order
<1>10. \A k \in 0..n + 1 : next'[At(s2, k)] = At(s2, k + 1)
  <2>1. next'[At(s2, 0)] = At(s2, 1)
    BY <1>5, <1>8
  <2>2. At(s2, 2) = first
    <3>1. CASE n = 0
      BY <1>7, <1>8, <3>1
    <3>2. CASE n # 0
      BY <1>7, <1>8, <3>2
    <3> QED
      BY <3>1, <3>2
  <2>3. ASSUME NEW k \in 1..n PROVE next'[At(s2, k + 1)] = At(s2, k + 2)
    <3>1. next'[s[k]] = At(s, k + 1)
      <4>1. next'[s[k]] = next[s[k]] /\ s[k] = At(s, k)
        BY <1>5, <1>6 DEF At
      <4>2. k \in 0..n
        OBVIOUS
      <4> QED
        BY <4>1, <4>2, <1>6, Zenon
    <3>2. At(s, k + 1) = At(s2, k + 2)
      <4>1. CASE k = n
        BY <1>8, <4>1 DEF At
      <4>2. CASE k # n
        <5>1. k + 1 \in 1..n
          BY <4>2
        <5> QED
          BY <1>8, <5>1 DEF At
      <4> QED
        BY <4>1, <4>2
    <3> QED
      BY <1>8, <3>1, <3>2
  <2>4. next'[At(s2, 1)] = At(s2, 2)
    BY <1>5, <1>8, <2>2
  <2> QED
    <3> TAKE k \in 0..n + 1
    <3> HIDE DEF s2, first
    <3>1. k = 0 \/ k = 1 \/ (k - 1 \in 1..n /\ k = (k - 1) + 1 /\ k + 1 = (k - 1) + 2)
      OBVIOUS
    <3>2. CASE k - 1 \in 1..n /\ k = (k - 1) + 1 /\ k + 1 = (k - 1) + 2
      <4>1. next'[At(s2, (k - 1) + 1)] = At(s2, (k - 1) + 2)
        BY <2>3, <3>2
      <4> QED
        BY <3>2, <4>1
    <3>3. CASE k = 0 \/ k = 1
      BY <2>1, <2>4, <3>3
    <3> QED
      BY <3>1, <3>2, <3>3
<1>11. \A k \in 1..n + 1 : prev'[s2[k]] = At(s2, k - 1)
  <2> TAKE k \in 1..n + 1
  <2>1. CASE k = 1
    BY <1>5, <1>8, <2>1
  <2>2. CASE k = 2
    BY <1>5, <1>6, <1>7, <1>8, <2>2
  <2>3. CASE k > 2
    <3>1. k - 1 \in 1..n /\ k - 2 \in 1..n /\ s2[k] = s[k - 1] /\ n # 0
      BY <2>3
    <3>2. s[k - 1] # first /\ s[k - 1] \in Procs \ {p}
      BY <1>6, <1>7, <2>3, <3>1
    <3>3. prev'[s[k - 1]] = At(s, k - 2)
      <4>1. prev'[s[k - 1]] = prev[s[k - 1]]
        <5> HIDE DEF first, s2
        <5> QED
          BY <1>5, <3>2
      <4>2. prev[s[k - 1]] = At(s, (k - 1) - 1) /\ (k - 1) - 1 = k - 2
        BY <1>6, <3>1
      <4> QED
        BY <4>1, <4>2
    <3>4. At(s, k - 2) = At(s2, k - 1)
      BY <3>1 DEF At
    <3> QED
      BY <3>1, <3>3, <3>4
  <2> QED
    BY <2>1, <2>2, <2>3
<1>12. s2 \in [1..n + 1 -> Linked'] /\ DOMAIN s2 = 1..n + 1
  BY <1>4, <1>6
<1>13. LinkedInOrder(s2)'
  BY <1>10, <1>11, <1>12 DEF LinkedInOrder
<1>14. ASSUME NEW q \in Procs \ Linked' PROVE next'[q] = NoProc /\ prev'[q] = NoProc
  <2>1. q \in Procs \ {p} /\ q \notin Linked /\ next[q] = NoProc /\ prev[q] = NoProc
    BY <1>4 DEF ChainInv
  <2>2. q # first
    BY <2>1, <1>6, <1>7
  <2> QED
    BY <2>1, <2>2, <1>5
<1> HIDE DEF s2, first
<1> QED
  BY <1>4, <1>9, <1>12, <1>13, <1>14 DEF ChainInv

(* A frame that leaves is bridged by its neighbours.                        *)
LEMMA ChainUnlink ==
  ASSUME TypeOK, CountInv, ChainInv, NEW p \in Procs, Retire(p)
  PROVE  ChainInv'
<1> USE TasqueAssumption
<1>1. count \in Nat
  BY FS_CardinalityType, FS_Subset DEF CountInv, CountersAgree, Linked
<1>2. PICK n \in Nat : n = count
  BY <1>1
<1>3. PICK s \in [1..n -> Linked] : Order(s) /\ LinkedInOrder(s)
  BY <1>2 DEF ChainInv
<1>4. /\ p \in Linked /\ Linked' = Linked \ {p} /\ Linked \subseteq Procs
      /\ count' = n - 1
  BY <1>2 DEF Retire, Uncount, Linked, TypeOK, Go
<1>6. /\ \A k \in 1..n : s[k] \in Linked /\ s[k] \in Procs
      /\ \A j, k \in 1..n : s[j] = s[k] => j = k
      /\ \A q \in Linked : \E k \in 1..n : s[k] = q
      /\ \A k \in 0..n : next[At(s, k)] = At(s, k + 1)
      /\ \A k \in 1..n : prev[s[k]] = At(s, k - 1)
  <2>1. DOMAIN s = 1..n /\ (1..n) \cup {0} = 0..n
    BY <1>3
  <2> QED
    BY <1>3, <1>4, <2>1 DEF Order, LinkedInOrder
<1>5. PICK j \in 1..n : s[j] = p
  BY <1>4, <1>6
<1> DEFINE before == prev[p]
           after == next[p]
           s2 == [k \in 1..n - 1 |-> IF k < j THEN s[k] ELSE s[k + 1]]
<1>7. before = At(s, j - 1) /\ after = At(s, j + 1)
  <2>1. At(s, j) = p
    BY <1>5 DEF At
  <2> QED
    BY <1>5, <1>6, <2>1
<1>8. \A k \in 0..n, l \in 0..n : At(s, k) = At(s, l) => k = l
  BY <1>6 DEF At
<1>9. \A k \in 0..n : At(s, k) \in Procs \cup {List}
  BY <1>6 DEF At
<1>10. before # p /\ after # p /\ before \in Procs \cup {List} /\ after \in Procs \cup {NoProc}
  <2>1. At(s, j) = p
    BY <1>5 DEF At
  <2>2. before # p /\ before \in Procs \cup {List}
    BY <1>7, <1>8, <1>9, <2>1
  <2>3. At(s, j + 1) # p /\ At(s, j + 1) \in Procs \cup {NoProc}
    BY <1>5, <1>6 DEF At
  <2> QED
    BY <1>7, <2>2, <2>3
<1>11. /\ next'[p] = NoProc /\ prev'[p] = NoProc
       /\ \A c \in (Procs \cup {List}) \ {p} : next'[c] = IF c = before THEN after ELSE next[c]
       /\ \A q \in Procs \ {p} : prev'[q] = IF q = after THEN before ELSE prev[q]
  BY <1>10 DEF Retire, Unlink, TypeOK
<1>12. /\ \A k \in 0..n - 1 : k < j => At(s2, k) = At(s, k)
       /\ \A k \in 1..n : k >= j => At(s2, k) = At(s, k + 1)
  BY <1>4 DEF At
<1>13. \A k \in 0..n - 1 : next'[At(s2, k)] = At(s2, k + 1)
  <2> TAKE k \in 0..n - 1
  <2>1. CASE k < j - 1
    <3>1. At(s2, k) = At(s, k) /\ At(s2, k + 1) = At(s, k + 1)
      <4>1. k + 1 \in 0..n - 1 /\ k + 1 < j /\ k < j
        BY <2>1
      <4> HIDE DEF s2
      <4> QED
        BY <1>12, <4>1
    <3>2. At(s, k) # before /\ At(s, k) # p /\ At(s, k) \in Procs \cup {List}
      <4>1. At(s, j) = p /\ j - 1 \in 0..n /\ k \in 0..n /\ k # j /\ k # j - 1 /\ j \in 0..n
        BY <1>5, <2>1 DEF At
      <4> HIDE DEF before, s2
      <4> QED
        BY <1>7, <1>8, <1>9, <4>1
    <3>3. next'[At(s, k)] = At(s, k + 1)
      <4>1. k \in 0..n
        OBVIOUS
      <4>2. next[At(s, k)] = At(s, k + 1)
        BY <1>6, <4>1, Zenon
      <4> HIDE DEF before, after, s2
      <4> QED
        BY <1>11, <3>2, <4>2
    <3> QED
      BY <3>1, <3>3
  <2>2. CASE k = j - 1
    <3>1. At(s2, k) = before /\ At(s2, k + 1) = after
      <4>1. k < j /\ k + 1 \in 1..n /\ k + 1 >= j /\ k + 2 = j + 1 /\ (k + 1) + 1 = j + 1
        BY <2>2
      <4> HIDE DEF before, after, s2
      <4> QED
        BY <1>7, <1>12, <2>2, <4>1
    <3> HIDE DEF before, after, s2
    <3> QED
      BY <1>10, <1>11, <3>1
  <2>3. CASE k >= j
    <3>1. At(s2, k) = At(s, k + 1) /\ At(s2, k + 1) = At(s, k + 2)
      <4>1. k \in 1..n /\ k + 1 \in 1..n /\ k + 1 >= j /\ (k + 1) + 1 = k + 2
        BY <2>3
      <4> HIDE DEF s2
      <4> QED
        BY <1>12, <2>3, <4>1
    <3>2. At(s, k + 1) # before /\ At(s, k + 1) # p /\ At(s, k + 1) \in Procs \cup {List}
      <4>1. At(s, j) = p /\ j - 1 \in 0..n /\ k + 1 \in 0..n /\ k + 1 # j /\ k + 1 # j - 1 /\ j \in 0..n
        BY <1>5, <2>3 DEF At
      <4> HIDE DEF before, s2
      <4> QED
        BY <1>7, <1>8, <1>9, <4>1
    <3>3. next'[At(s, k + 1)] = At(s, k + 2)
      <4>1. k + 1 \in 0..n /\ (k + 1) + 1 = k + 2
        OBVIOUS
      <4> HIDE DEF before, after, s2
      <4> QED
        BY <1>6, <1>11, <3>2, <4>1
    <3> QED
      BY <3>1, <3>3
  <2> QED
    BY <2>1, <2>2, <2>3
<1>14. \A k \in 1..n - 1 : prev'[s2[k]] = At(s2, k - 1)
  <2> TAKE k \in 1..n - 1
  <2>1. CASE k < j
    <3>1. s2[k] = s[k] /\ At(s2, k - 1) = At(s, k - 1)
      <4>1. k - 1 \in 0..n - 1 /\ k - 1 < j
        BY <2>1
      <4> QED
        BY <1>12, <2>1, <4>1
    <3>2. s[k] # p /\ s[k] # after /\ s[k] \in Procs /\ prev[s[k]] = At(s, k - 1)
      <4>1. k \in 1..n /\ k # j /\ k # j + 1
        BY <2>1
      <4>2. s[k] \in Procs /\ s[k] # NoProc /\ s[k] # p /\ prev[s[k]] = At(s, k - 1)
        BY <1>5, <1>6, <4>1
      <4>3. after # s[k]
        <5>1. CASE j + 1 \in 1..n
          <6>1. after = s[j + 1]
            BY <1>7, <5>1 DEF At
          <6> QED
            BY <1>6, <4>1, <5>1, <6>1
        <5>2. CASE j + 1 \notin 1..n
          BY <1>7, <4>2, <5>2 DEF At
        <5> QED
          BY <5>1, <5>2
      <4> QED
        BY <4>2, <4>3
    <3> HIDE DEF before, after, s2
    <3> QED
      BY <1>11, <3>1, <3>2
  <2>2. CASE k = j
    <3>1. s2[k] = after /\ after \in Procs /\ At(s2, k - 1) = before
      <4>1. k - 1 \in 0..n - 1 /\ k - 1 < j /\ k + 1 \in 1..n
        BY <2>2
      <4>2. s2[k] = s[j + 1] /\ At(s, j + 1) = s[j + 1] /\ s[j + 1] \in Procs
        BY <1>6, <2>2, <4>1 DEF At
      <4>3. At(s2, k - 1) = At(s, k - 1)
        BY <1>12, <4>1
      <4> QED
        BY <1>7, <2>2, <4>2, <4>3
    <3> HIDE DEF before, after, s2
    <3> QED
      BY <1>10, <1>11, <3>1
  <2>3. CASE k > j
    <3>1. s2[k] = s[k + 1] /\ At(s2, k - 1) = At(s, k)
      <4>1. k - 1 \in 1..n /\ k - 1 >= j /\ (k - 1) + 1 = k
        BY <2>3
      <4> QED
        BY <1>12, <2>3, <4>1
    <3>2. s[k + 1] # p /\ s[k + 1] # after /\ s[k + 1] \in Procs /\ prev[s[k + 1]] = At(s, k)
      <4>1. k + 1 \in 1..n /\ (k + 1) - 1 = k
        OBVIOUS
      <4>2. prev[s[k + 1]] = At(s, k)
        BY <1>6, <4>1
      <4> QED
        BY <1>5, <1>6, <1>7, <2>3, <4>1, <4>2 DEF At
    <3> HIDE DEF before, after, s2
    <3> QED
      BY <1>11, <3>1, <3>2
  <2> QED
    BY <2>1, <2>2, <2>3
<1>15. /\ s2 \in [1..n - 1 -> Linked'] /\ DOMAIN s2 = 1..n - 1
       /\ \A k, l \in 1..n - 1 : s2[k] = s2[l] => k = l
       /\ \A q \in Linked \ {p} : \E k \in 1..n - 1 : s2[k] = q
  <2>1. \A k \in 1..n - 1 : s2[k] \in Linked \ {p}
    BY <1>5, <1>6
  <2>2. ASSUME NEW k \in 1..n - 1, NEW l \in 1..n - 1, s2[k] = s2[l] PROVE k = l
    <3> DEFINE at(m) == IF m < j THEN m ELSE m + 1
    <3>1. at(k) \in 1..n /\ at(l) \in 1..n /\ s[at(k)] = s[at(l)]
      BY <2>2
    <3>2. at(k) = at(l)
      <4> HIDE DEF at, s2
      <4> QED
        BY <1>6, <3>1, Zenon
    <3> QED
      BY <3>2
  <2>3. ASSUME NEW q \in Linked \ {p} PROVE \E k \in 1..n - 1 : s2[k] = q
    <3>1. PICK k \in 1..n : s[k] = q
      BY <1>6
    <3>2. CASE k < j
      <4>1. k \in 1..n - 1 /\ s2[k] = q
        BY <3>1, <3>2
      <4> QED
        BY <4>1
    <3>3. CASE k > j
      <4>1. k - 1 \in 1..n - 1 /\ s2[k - 1] = q
        BY <3>1, <3>3
      <4> QED
        BY <4>1
    <3> QED
      BY <1>5, <3>1, <3>2, <3>3
  <2> QED
    BY <1>4, <2>1, <2>2, <2>3
<1>16. LinkedInOrder(s2)'
  <2>1. (1..n - 1) \cup {0} = 0..n - 1
    BY <1>5
  <2> HIDE DEF s2
  <2> QED
    BY <1>13, <1>14, <1>15, <2>1 DEF LinkedInOrder
<1>17. Order(s2)'
  <2> HIDE DEF s2
  <2> QED
    BY <1>4, <1>15 DEF Order
<1>18. ASSUME NEW q \in Procs \ Linked' PROVE next'[q] = NoProc /\ prev'[q] = NoProc
  <2>1. CASE q = p
    BY <1>11, <2>1
  <2>2. CASE q # p
    <3>1. q \notin Linked /\ next[q] = NoProc /\ prev[q] = NoProc
      BY <1>4, <2>2 DEF ChainInv
    <3>2. q # after
      BY <1>6, <1>7, <3>1 DEF At
    <3>3. q # before
      BY <1>5, <1>6, <1>7, <3>1 DEF At
    <3> HIDE DEF before, after, s2
    <3> QED
      BY <1>11, <2>2, <3>1, <3>2, <3>3
  <2> QED
    BY <2>1, <2>2
<1> HIDE DEF s2, before, after
<1> QED
  BY <1>4, <1>15, <1>16, <1>17, <1>18 DEF ChainInv

LEMMA ChainStep ==
  ASSUME TypeOK, TaskInv, CountInv, ChainInv, [Next]_vars
  PROVE  ChainInv'
<1>1. CASE \E p \in Procs : Register(p)
  BY <1>1, ChainLink
<1>2. CASE \E p \in Procs : Retire(p)
  BY <1>2, ChainUnlink
<1>3. CASE \A p \in Procs : ~Register(p) /\ ~Retire(p)
  <2>1. Linked' = Linked /\ UNCHANGED <<next, prev, count>>
    BY <1>3, ListSteps
  <2>2. \A s : Order(s)' = Order(s) /\ LinkedInOrder(s)' = LinkedInOrder(s)
    BY <2>1 DEF Order, LinkedInOrder, At
  <2> QED
    BY <2>1, <2>2 DEF ChainInv
<1> QED
  BY <1>1, <1>2, <1>3

(* The frames of the processors form a doubly linked list of COUNT, through *)
(* any order of starts and retirements, and until the queue is shut down    *)
(* every frame in it is that of a thread that was not killed.               *)
THEOREM TasqueProcList == Spec => []ProcListSound
<1>1. Init => StageInv /\ LimitInv /\ ChainInv
  <2> SUFFICES ASSUME Init PROVE StageInv /\ LimitInv /\ ChainInv
    OBVIOUS
  <2>1. StageInv /\ LimitInv
    BY DEF Init, StageInv, Locking, LimitInv, Open
  <2>2. Linked = {} /\ count = 0
    BY DEF Init, Linked
  <2>3. <<>> \in [1..count -> Linked] /\ DOMAIN <<>> = {}
    BY <2>2
  <2>4. Order(<<>>)
    BY <2>2, <2>3 DEF Order
  <2>5. next[List] = NoProc /\ At(<<>>, 0) = List /\ At(<<>>, 1) = NoProc
    BY <2>3, TasqueAssumption DEF Init, At
  <2>6. LinkedInOrder(<<>>)
    BY <2>3, <2>5 DEF LinkedInOrder
  <2>7. \A p \in Procs : next[p] = NoProc /\ prev[p] = NoProc
    BY DEF Init
  <2> QED
    BY <2>1, <2>3, <2>4, <2>6, <2>7 DEF ChainInv
<1>2. IInv /\ StageInv /\ LimitInv /\ ChainInv /\ [Next]_vars
        => StageInv' /\ LimitInv' /\ ChainInv'
  BY StageStep, LimitStep, ChainStep DEF IInv
<1>3. LimitInv /\ ChainInv => ProcListSound
  BY DEF LimitInv, ChainInv, ProcListSound, Linked
<1>4. QED
  BY <1>1, <1>2, <1>3, TasqueInvariant, PTL DEF Spec
=============================================================================
