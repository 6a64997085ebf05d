------------------------------- MODULE Tasque -------------------------------
(***************************************************************************)
(* The task queue of Include/c+/system/tasque.hc: processors (worker       *)
(* threads) take tasks from Tasque_Task_In, hold them in Tasque_Task_Care  *)
(* while the body runs, and leave them in Tasque_Task_Out; the main thread *)
(* calls Tasque_Perform_Update, which starts processors, fires alerts and  *)
(* calls the update callback of every finished task.                       *)
(*                                                                         *)
(* A section under Tasque_Lock is one action, because nothing inside it    *)
(* blocks; only Tasque_Stop and Tasque_Terminate hold the lock across      *)
(* callbacks, which is what the variable locked records.  Everything the   *)
(* code does without the lock (the reads of ONCARE, COUNT and Task_Out in  *)
(* Perform_Update, the notifications, the store to p->thr) is an action of *)
(* its own.  Slist_Push appends and Slist_Pop takes the head, so a list is *)
(* a sequence; the order of Task_Care is never observed, so it is a set.   *)
(* Time is abstracted: a wait with a timeout may end at any moment, and    *)
(* any armed alert may be due.                                             *)
(***************************************************************************)
EXTENDS Integers, Sequences, FiniteSets

CONSTANTS
  Tasks,       (* tasks that may be queued, each once (bounds the model)    *)
  Procs,       (* identities of processor threads, reused after they exit   *)
  Alerts,      (* alerts that may be armed, each once (bounds the model)    *)
  NoTask,      (* the null C_TASQUE_TASK pointer                            *)
  NoProc,      (* the null C_TASQUE_PROCESSOR pointer                       *)
  List,        (* the address of Tasque_Proc_List itself                    *)
  MAX0,        (* initial Tasque_MAX (1000 in the code)                     *)
  RESERVE0,    (* initial Tasque_RESERVE (5 in the code)                    *)
  BATCH,       (* updates between two looks at the clock (10 in the code)   *)
  Timed,       (* Perform_Update's ms >= 0: the wait for a result times out *)
  Worktime,    (* Perform_Update's worktime # 0: the loop has a deadline    *)
  AutoReset,   (* condwait is an auto-reset event, not a condition variable *)
  Shutdown     (* the ways the program shuts the queue down, if it does     *)

ASSUME TasqueAssumption ==
  /\ NoTask \notin Tasks
  /\ NoProc \notin Procs /\ List \notin Procs \cup {NoProc}
  /\ IsFiniteSet(Procs)
  /\ MAX0 \in Nat
  /\ RESERVE0 \in Nat
  /\ BATCH \in Nat \ {0}
  /\ Timed \in BOOLEAN /\ Worktime \in BOOLEAN /\ AutoReset \in BOOLEAN
  /\ Shutdown \subseteq {"stop", "terminate"}

VARIABLES
  max, reserve,     (* Tasque_MAX, Tasque_RESERVE                           *)
  oncare, count,    (* Tasque_ONCARE, Tasque_COUNT                          *)
  in, care, out,    (* Tasque_Task_In, Tasque_Task_Care, Tasque_Task_Out    *)
  processor,        (* task -> its t->processor                             *)
  next, prev,       (* the links of the frames: next[List] is the head of   *)
                    (* Tasque_Proc_List, prev[p] says whose next leads to p *)
  lockEvt, outEvt,  (* a signal is pending in Tasque_Lock / Out_Monitor     *)
  locked,           (* the main thread holds Tasque_Lock across callbacks   *)
  pc, cur,          (* processor -> where it is, and its local t            *)
  thr,              (* processors whose pcs.thr has been stored             *)
  mpc, stage,       (* where the main thread is, and on whose behalf        *)
  mp,               (* Perform_Update's local p, null until it is published *)
  mt,               (* the task whose update callback the main thread calls *)
  i,                (* Perform_Update's loop counter                        *)
  busy,             (* the last Perform_Update returned 1, or more came since *)
  alert,            (* alert -> new, armed or fired                         *)
  ran,              (* history: tasks whose body has returned               *)
  outcome,          (* history: the status given to a task's update         *)
  late              (* history: tasks queued after Terminate finished Task_In *)

(* Bundles for UNCHANGED: what only processors, or only the main thread,   *)
(* move, and what most steps leave alone.                                  *)
limits == <<max, reserve>>
counts == <<oncare, count>>
lists  == <<in, care, out, processor>>
events == <<lockEvt, outEvt>>
hist   == <<ran, outcome, late>>
links  == <<next, prev>>
frames == <<cur, thr, links>>
procs  == <<pc, frames>>
cursor == <<mp, mt, i, busy, alert>>
main   == <<mpc, stage, cursor>>
quiet  == <<limits, events, locked, hist>>
world  == <<counts, lists, procs, quiet>>
vars   == <<world, main>>

PcValues  == {"none", "start", "gate", "loop", "doze", "run", "finish",
              "notify", "exit", "killed"}
MpcValues == {"app", "count", "spawn", "started", "alert", "alertcb", "check",
              "monitor", "nothing", "sleep", "wait", "batch", "again", "update",
              "result", "stopping", "grace", "finish", "down"}
Stages    == {"pre", "batch", "post", "stop", "care", "in", "out", "fail"}

Init ==
  /\ max = MAX0 /\ reserve = RESERVE0 /\ oncare = 0 /\ count = 0
  /\ in = <<>> /\ care = {} /\ out = <<>>
  /\ processor = [t \in Tasks |-> NoProc]
  /\ next = [c \in Procs \cup {List} |-> NoProc]
  /\ prev = [p \in Procs |-> NoProc]
  /\ thr = {}
  /\ lockEvt = FALSE /\ outEvt = FALSE /\ locked = FALSE
  /\ pc = [p \in Procs |-> "none"]
  /\ cur = [p \in Procs |-> NoTask]
  /\ mpc = "app" /\ stage = "pre" /\ mp = NoProc /\ mt = NoTask /\ i = 0
  /\ busy = FALSE
  /\ alert = [a \in Alerts |-> "new"]
  /\ ran = {} /\ late = {} /\ outcome = [t \in Tasks |-> "none"]

(* Slist_Push walks to the tail of the list.                               *)
Push_AtHead(s, t) == <<t>> \o s
Push(s, t) == Append(s, t)

Elems(s) == {s[k] : k \in DOMAIN s}
Armed    == {a \in Alerts : alert[a] = "armed"}
Go(p, at) == pc' = [pc EXCEPT ![p] = at]

(* Mutex_Notify(&Tasque_Lock): an event stays set until a wait consumes    *)
(* it; a condition variable keeps nothing for a thread that comes later.   *)
NotifyLock == lockEvt' = AutoReset

-----------------------------------------------------------------------------
(* Processor threads: Tasque_Task_Processor.                               *)

(* The new thread counts itself, links its frame and publishes it to the   *)
(* main thread, which spins until it sees it.                              *)
(* The frame becomes the first of the list.                                *)
Link(p) ==
  /\ next' = [next EXCEPT ![p] = next[List], ![List] = p]
  /\ prev' = [q \in Procs |-> IF q = p THEN List
                              ELSE IF q = next[List] THEN p ELSE prev[q]]

Register(p) ==
  /\ pc[p] = "start" /\ ~locked
  /\ oncare' = oncare + 1 /\ count' = count + 1
  /\ Link(p)
  /\ mp' = p
  /\ Go(p, "gate")
  /\ UNCHANGED <<quiet, lists, alert, busy, cur, i, mpc, mt, stage, thr>>

(* Tasque_Start_Lock is held by the main thread from the creation of the   *)
(* thread until it has stored the thread's handle in the frame.            *)
StartLockFree_Always == TRUE
StartLockFree == mpc # "started"

PassGate(p) ==
  /\ pc[p] = "gate" /\ StartLockFree
  /\ Go(p, "loop")
  /\ UNCHANGED <<main, quiet, lists, frames, counts>>

Take(p) ==
  /\ pc[p] = "loop" /\ ~locked /\ in # <<>>
  /\ cur' = [cur EXCEPT ![p] = Head(in)]
  /\ processor' = [processor EXCEPT ![Head(in)] = p]
  /\ care' = care \cup {Head(in)}
  /\ in' = Tail(in)
  /\ oncare' = oncare - 1
  /\ Go(p, "run")
  /\ UNCHANGED <<main, quiet, count, out, links, thr>>

(* A dying processor leaves the counters and the list of frames.           *)
Uncount_Count == oncare' = oncare /\ count' = count - 1
Uncount == oncare' = oncare - 1 /\ count' = count - 1

(* Its neighbours in the list, whatever their threads do, are written to   *)
(* point past it.                                                          *)
Unlink_OneWay(p) ==
  /\ next' = [next EXCEPT ![prev[p]] = next[p], ![p] = NoProc]
  /\ prev' = [prev EXCEPT ![p] = NoProc]
Unlink(p) ==
  /\ next' = [next EXCEPT ![prev[p]] = next[p], ![p] = NoProc]
  /\ prev' = [q \in Procs |-> IF q = p THEN NoProc
                              ELSE IF q = next[p] THEN prev[p] ELSE prev[q]]

Retire(p) ==
  /\ pc[p] = "loop" /\ ~locked /\ in = <<>> /\ oncare > reserve
  /\ Uncount
  /\ Unlink(p)
  /\ Go(p, "exit")
  /\ UNCHANGED <<main, quiet, lists, cur, thr>>

Doze(p) ==
  /\ pc[p] = "loop" /\ ~locked /\ in = <<>> /\ oncare <= reserve
  /\ Go(p, "doze")
  /\ UNCHANGED <<main, quiet, lists, frames, counts>>

(* Mutex_Wait(&Tasque_Lock,10) ends by the event, which resets it, or by   *)
(* its timeout.  It re-enters and leaves the lock and changes nothing.     *)
Wake(p) ==
  /\ pc[p] = "doze" /\ ~locked
  /\ lockEvt' = FALSE \/ UNCHANGED lockEvt
  /\ Go(p, "loop")
  /\ UNCHANGED <<main, lists, frames, counts, hist, locked, max, outEvt,
                 reserve>>

(* t->task(t->obj), without any lock.                                      *)
Body(p) ==
  /\ pc[p] = "run"
  /\ ran' = ran \cup {cur[p]}
  /\ Go(p, "finish")
  /\ UNCHANGED <<main, lists, frames, counts, events, late, locked, max,
                 outcome, reserve>>

(* The task is no longer in care, and no processor owns it.                *)
Uncare_Nothing(t) == UNCHANGED care
Uncare(t) == care' = care \ {t}

Disown_Nothing(t) == UNCHANGED processor
Disown(t) == processor' = [processor EXCEPT ![t] = NoProc]

Finish(p) ==
  /\ pc[p] = "finish" /\ ~locked
  /\ Uncare(cur[p])
  /\ Disown(cur[p])
  /\ out' = Push(out, cur[p])
  /\ cur' = [cur EXCEPT ![p] = NoTask]
  /\ oncare' = oncare + 1
  /\ Go(p, "notify")
  /\ UNCHANGED <<main, quiet, count, in, links, thr>>

(* Mutex_Notify(&Tasque_Out_Monitor), after the lock is released.          *)
SignalOut_Lost == outEvt' = (mpc = "wait" \/ outEvt)
SignalOut == outEvt' = (AutoReset \/ mpc = "wait" \/ outEvt)

NotifyOut(p) ==
  /\ pc[p] = "notify"
  /\ SignalOut
  /\ Go(p, "loop")
  /\ UNCHANGED <<main, lists, frames, counts, hist, lockEvt, locked, max,
                 reserve>>

(* The last Mutex_Notify(&Tasque_Lock) and the end of the thread.          *)
Exit(p) ==
  /\ pc[p] = "exit"
  /\ NotifyLock
  /\ thr' = thr \ {p}
  /\ Go(p, "none")
  /\ UNCHANGED <<main, lists, limits, counts, hist, cur, locked, outEvt,
                 links>>

ProcCode(p) ==
  \/ Register(p) \/ PassGate(p) \/ Take(p) \/ Retire(p) \/ Doze(p)
  \/ Wake(p) \/ Finish(p) \/ NotifyOut(p) \/ Exit(p)

-----------------------------------------------------------------------------
(* The program between two calls into the queue and in the callbacks the   *)
(* queue makes.  Any thread may queue a task: a body, a thread the queue   *)
(* does not know, or the main thread, which re-enters the lock when it     *)
(* calls from an update that Tasque_Stop or Tasque_Terminate made.  A      *)
(* processor that is killed in its body queues nothing any more.           *)
InClient == mpc \in {"app", "update", "alertcb"}
MayQueue == InClient \/ ~locked

Queued == {t \in Tasks : t \in Elems(in) \/ t \in care \/ t \in Elems(out)
                         \/ outcome[t] # "none"}

Tasque_Queue(t) ==
  /\ MayQueue /\ t \notin Queued
  /\ processor' = [processor EXCEPT ![t] = NoProc]
  /\ in' = Push(in, t)
  /\ NotifyLock
  /\ busy' = TRUE
  /\ late' = IF stage \in {"out", "fail"} THEN late \cup {t} ELSE late
  /\ UNCHANGED <<procs, limits, counts, alert, care, i, locked, mp, mpc, mt,
                 out, outEvt, outcome, ran, stage>>

Tasque_Alert(a) ==
  /\ InClient /\ alert[a] = "new"
  /\ alert' = [alert EXCEPT ![a] = "armed"]
  /\ busy' = TRUE
  /\ UNCHANGED <<world, i, mp, mpc, mt, stage>>

-----------------------------------------------------------------------------
(* Tasque_Perform_Update.                                                  *)

(* Steps that only move the main thread from one place to another: on      *)
(* behalf of s, within the same stage, and into a new batch of updates.    *)
PassFor(from, to, s) ==
  /\ mpc = from /\ mpc' = to /\ stage' = s
  /\ UNCHANGED <<world, cursor>>
Pass(from, to) == PassFor(from, to, stage)
NewBatch(from) ==
  /\ mpc = from /\ mpc' = "batch" /\ i' = 0
  /\ UNCHANGED <<world, stage, mp, mt, busy, alert>>

(* ONCARE and then COUNT are read without the lock.                        *)
Perform_Update ==
  \/ oncare = 0 /\ Pass("app", "count")
  \/ oncare # 0 /\ PassFor("app", "alert", "pre")

RoomForProc_OffByOne == count <= max
RoomForProc_OnlyOne == count = 0
RoomForProc == count < max

CheckCount ==
  \/ RoomForProc /\ Pass("count", "spawn")
  \/ ~RoomForProc /\ PassFor("count", "alert", "pre")

(* Thread_Run_Sure under Tasque_Start_Lock.                                *)
Spawn(p) ==
  /\ mpc = "spawn" /\ pc[p] = "none"
  /\ Go(p, "start")
  /\ mpc' = "started"
  /\ UNCHANGED <<quiet, lists, cursor, frames, counts, stage>>

(* The system refuses a thread: the error is raised out of Perform_Update, *)
(* which releases the lock.                                                *)
SpawnFails == Pass("spawn", "app")

StoreHandle ==
  /\ mpc = "started" /\ mp # NoProc
  /\ thr' = thr \cup {mp}
  /\ mp' = NoProc
  /\ mpc' = "alert" /\ stage' = "pre"
  /\ UNCHANGED <<quiet, lists, counts, alert, busy, cur, i, mt, pc, links>>

(* Tasque_Perform_Alert walks the list and calls the alerts that are due;  *)
(* Tasque_Terminate_Alerts (stage "fail") calls every one.                 *)
FireAlert(a) ==
  /\ mpc = "alert" /\ alert[a] = "armed"
  /\ alert' = [alert EXCEPT ![a] = "fired"]
  /\ mpc' = "alertcb"
  /\ UNCHANGED <<world, busy, i, mp, mt, stage>>

AlertReturns == Pass("alertcb", "alert")

AlertsDone ==
  /\ \/ stage = "pre"   /\ Pass("alert", "check")
     \/ stage = "batch" /\ Pass("alert", "batch")
     \/ stage = "post"  /\ Pass("alert", "result")
     \/ stage = "fail"  /\ Armed = {} /\ Pass("alert", "down")

(* Task_Out is read without the lock.                                      *)
CheckOut ==
  \/ out = <<>> /\ Pass("check", "monitor")
  \/ out # <<>> /\ NewBatch("check")

(* Task_In and then Task_Care are read under Out_Monitor, which guards     *)
(* neither: a section that moves a task from one to the other may have     *)
(* taken it from the first and not yet put it into the second.             *)
InLooksEmpty ==
  \/ in = <<>>
  \/ Len(in) = 1 /\ ~locked /\ \E p \in Procs : pc[p] = "loop"
CareLooksEmpty ==
  \/ care = {}
  \/ ~locked /\ \E p \in Procs : pc[p] = "finish" /\ care = {cur[p]}

CheckIn ==
  \/ in # <<>> /\ Pass("monitor", "sleep")
  \/ InLooksEmpty /\ Pass("monitor", "nothing")

CheckCare ==
  \/ care # {} /\ Pass("nothing", "sleep")
  \/ CareLooksEmpty /\ NewBatch("nothing")

(* Mutex_Wait(&Tasque_Out_Monitor,ms).                                     *)
Sleep == Pass("sleep", "wait")

WakeUp ==
  /\ mpc = "wait" /\ (outEvt \/ Timed)
  /\ outEvt' = FALSE
  /\ mpc' = "batch" /\ i' = 0
  /\ UNCHANGED <<procs, lists, limits, counts, hist, alert, busy, lockEvt,
                 locked, mp, mt, stage>>

BatchGoesOn == i < BATCH /\ out # <<>>

(* The head of Task_Out is popped under the lock and its update is called. *)
Deliver ==
  /\ mpc = "batch" /\ BatchGoesOn
  /\ mt' = Head(out) /\ out' = Tail(out)
  /\ outcome' = [outcome EXCEPT ![Head(out)] = "complete"]
  /\ i' = i + 1
  /\ mpc' = "update" /\ stage' = "batch"
  /\ UNCHANGED <<procs, limits, counts, events, alert, busy, care, in, late,
                 locked, mp, processor, ran>>

(* The update callback returns: to Perform_Update, which fires alerts, or  *)
(* to the Finish_Task_List that called it.                                 *)
UpdateReturns ==
  /\ mpc = "update"
  /\ mpc' = IF stage = "batch" THEN "alert" ELSE "finish"
  /\ mt' = NoTask
  /\ UNCHANGED <<world, alert, busy, i, mp, stage>>

(* The for loop ends after ten tasks or when Task_Out looks empty, ...     *)
EndBatch == ~BatchGoesOn /\ Pass("batch", "again")

(* ... and Task_Out is read once more to decide on another ten.            *)
Again ==
  \/ out # <<>> /\ NewBatch("again")
  \/ (out = <<>> \/ Worktime) /\ PassFor("again", "alert", "post")

Pending_ForgetsCare == in # <<>> \/ out # <<>> \/ Armed # {}
Pending == in # <<>> \/ out # <<>> \/ care # {} \/ Armed # {}

(* The result is computed under the lock.                                  *)
Return ==
  /\ mpc = "result" /\ mpc' = "app"
  /\ busy' = Pending
  /\ UNCHANGED <<world, alert, i, mp, mt, stage>>

-----------------------------------------------------------------------------
(* Tasque_Stop and Tasque_Terminate.                                       *)

NoMoreProcs == max' = 0 /\ reserve' = 0

Tasque_Stop ==
  /\ "stop" \in Shutdown /\ mpc = "app" /\ mpc' = "stopping"
  /\ NoMoreProcs /\ NotifyLock
  /\ UNCHANGED <<procs, lists, cursor, counts, hist, locked, outEvt, stage>>

(* One more turn of the polling loop while a processor is idle.            *)
StopPoll ==
  /\ mpc = "stopping" /\ oncare # 0
  /\ NotifyLock
  /\ UNCHANGED <<main, procs, lists, counts, hist, locked, max, outEvt,
                 reserve>>

(* No processor is idle, or the time is over: Task_Out is finished with    *)
(* TASQUE_COMPLETE under the lock.                                         *)
StopPolled ==
  /\ mpc = "stopping" /\ mpc' = "finish" /\ stage' = "stop"
  /\ locked' = TRUE
  /\ UNCHANGED <<procs, lists, cursor, events, hist, count, max, oncare,
                 reserve>>

Terminate(from) ==
  /\ mpc = from
  /\ NoMoreProcs
  /\ locked' = FALSE
  /\ mpc' = "grace"
  /\ IF count # 0 THEN NotifyLock ELSE UNCHANGED lockEvt
  /\ UNCHANGED <<procs, lists, cursor, counts, hist, outEvt, stage>>

Tasque_Terminate == "terminate" \in Shutdown /\ Terminate("app")

GracePassed_AllGone == count = 0
GracePassed == TRUE

(* The 30 ms of grace are over and the lock is taken.                      *)
GraceOver ==
  /\ mpc = "grace" /\ GracePassed /\ mpc' = "finish" /\ stage' = "care"
  /\ locked' = TRUE
  /\ UNCHANGED <<procs, lists, cursor, events, hist, count, max, oncare,
                 reserve>>

(* One turn of Tasque_Finish_Task_List: the task leaves its list, the      *)
(* processor that runs it is terminated, and its update is called.         *)
FinishTask(t, status) ==
  /\ mt' = t
  /\ pc' = [p \in Procs |-> IF p = processor[t] THEN "killed" ELSE pc[p]]
  /\ outcome' = [outcome EXCEPT ![t] = status]
  /\ mpc' = "update"
  /\ UNCHANGED <<frames, limits, counts, events, alert, busy, i, late, locked,
                 mp, processor, ran, stage>>

Finish_Task_List ==
  /\ mpc = "finish"
  /\ \/ /\ stage = "care"
        /\ \E t \in care : care' = care \ {t} /\ FinishTask(t, "fail")
        /\ UNCHANGED <<in, out>>
     \/ /\ stage = "in" /\ in # <<>>
        /\ in' = Tail(in) /\ FinishTask(Head(in), "fail")
        /\ UNCHANGED <<care, out>>
     \/ /\ stage \in {"out", "stop"} /\ out # <<>>
        /\ out' = Tail(out)
        /\ FinishTask(Head(out), IF stage = "out" THEN "fail" ELSE "complete")
        /\ UNCHANGED <<care, in>>

(* The list after a finished one.                                          *)
After_SkipsIn == [care |-> "out", in |-> "out"]
After == [care |-> "in", in |-> "out"]

(* A list is empty: Tasque_Terminate goes on to the next one.              *)
NextList ==
  /\ mpc = "finish"
  /\ \/ stage = "care" /\ care = {}
     \/ stage = "in" /\ in = <<>>
  /\ stage' = After[stage]
  /\ UNCHANGED <<world, cursor, mpc>>

(* Tasque_Stop releases the lock and calls Tasque_Terminate.               *)
StopFinished == stage = "stop" /\ out = <<>> /\ Terminate("finish")

(* Tasque_Terminate releases the lock and turns to the alerts.             *)
ListsFinished ==
  /\ mpc = "finish" /\ stage = "out" /\ out = <<>>
  /\ locked' = FALSE
  /\ mpc' = "alert" /\ stage' = "fail"
  /\ UNCHANGED <<procs, lists, cursor, events, hist, count, max, oncare,
                 reserve>>

-----------------------------------------------------------------------------
Client ==
  \/ \E t \in Tasks : Tasque_Queue(t)
  \/ \E a \in Alerts : Tasque_Alert(a)

Update ==
  \/ Perform_Update \/ CheckCount \/ SpawnFails \/ StoreHandle
  \/ (\E p \in Procs : Spawn(p)) \/ (\E a \in Alerts : FireAlert(a))
  \/ AlertReturns \/ AlertsDone \/ CheckOut \/ CheckIn \/ CheckCare \/ Sleep \/ WakeUp
  \/ Deliver \/ UpdateReturns \/ EndBatch \/ Again \/ Return

(* The steps that carry a stop through once it is asked for.               *)
Stopping ==
  \/ StopPolled \/ GraceOver \/ Finish_Task_List \/ NextList
  \/ StopFinished \/ ListsFinished

Next ==
  \/ \E p \in Procs : ProcCode(p) \/ Body(p)
  \/ Client \/ Update \/ Stopping \/ StopPoll \/ Tasque_Stop \/ Tasque_Terminate

Spec == Init /\ [][Next]_vars

(* The scheduler runs every processor, and the program calls Perform_Update *)
(* again and again (Tasque_Finish, or its own loop); a thread is not        *)
(* refused for ever.                                                        *)
Fairness ==
  /\ \A p \in Procs : WF_vars(ProcCode(p))
  /\ WF_vars(Update)
  /\ SF_vars(\E p \in Procs : Spawn(p))
  /\ WF_vars(Stopping)

(* Task bodies return.                                                      *)
BodiesReturn == \A p \in Procs : WF_vars(Body(p))

FairSpec == Spec /\ Fairness /\ BodiesReturn

(* Nothing is assumed of the bodies: they may block for ever.               *)
BlockingSpec == Spec /\ Fairness

-----------------------------------------------------------------------------
TypeOK ==
  /\ max \in {0, MAX0} /\ reserve \in {0, RESERVE0}
  /\ oncare \in Int /\ count \in Int
  /\ in \in Seq(Tasks) /\ care \subseteq Tasks /\ out \in Seq(Tasks)
  /\ processor \in [Tasks -> Procs \cup {NoProc}]
  /\ next \in [Procs \cup {List} -> Procs \cup {NoProc}]
  /\ prev \in [Procs -> Procs \cup {List, NoProc}]
  /\ thr \subseteq Procs
  /\ lockEvt \in BOOLEAN /\ outEvt \in BOOLEAN
  /\ locked \in BOOLEAN /\ busy \in BOOLEAN
  /\ pc \in [Procs -> PcValues]
  /\ cur \in [Procs -> Tasks \cup {NoTask}]
  /\ \A p \in Procs : pc[p] \in {"run", "finish"} => cur[p] \in Tasks
  /\ mpc \in MpcValues /\ stage \in Stages
  /\ mp \in Procs \cup {NoProc} /\ mt \in Tasks \cup {NoTask}
  /\ i \in 0..BATCH
  /\ alert \in [Alerts -> {"new", "armed", "fired"}]
  /\ ran \subseteq Tasks /\ late \subseteq Tasks
  /\ outcome \in [Tasks -> {"none", "complete", "fail"}]

(* Tasque_ONCARE is the number of processors without a task and            *)
(* Tasque_COUNT the number of linked frames, whatever the interleaving of  *)
(* starts, takes, finishes and retirements: Perform_Update decides on them *)
(* whether to start a thread, a processor whether to die, and              *)
(* STRICT_REQUIRE(Tasque_ONCARE > 0) must hold when a task is taken.       *)
Linked == {p \in Procs : pc[p] \notin {"none", "start", "exit"}}
IdleProcs == {p \in Procs : pc[p] \in {"gate", "loop", "doze", "notify"}}
CountersAgree ==
  /\ oncare = Cardinality(IdleProcs)
  /\ count = Cardinality(Linked)
CountersExact == TypeOK /\ CountersAgree

(* Never more than Tasque_MAX processors, the one being started included,  *)
(* although COUNT is read without the lock.                                *)
ProcsBounded ==
  count + (IF mpc = "started" /\ mp = NoProc THEN 1 ELSE 0) <= MAX0

(* Tasque_Proc_List is a proper doubly linked list of COUNT frames, those  *)
(* of the processors that registered and did not retire, whatever the      *)
(* order they came and went in.  So a processor that retires writes into   *)
(* linked frames only, never into that of a thread that has retired and    *)
(* whose stack may be gone.  The frames of killed threads stay linked and  *)
(* can still be written to, but there are none before the queue is shut    *)
(* down.                                                                   *)
At(s, k) == IF k = 0 THEN List ELSE IF k \in DOMAIN s THEN s[k] ELSE NoProc
Order(s) ==
  /\ \A p \in Linked : \E k \in DOMAIN s : s[k] = p
  /\ \A j, k \in DOMAIN s : s[j] = s[k] => j = k
LinkedInOrder(s) ==
  /\ \A k \in DOMAIN s \cup {0} : next[At(s, k)] = At(s, k + 1)
  /\ \A k \in DOMAIN s : prev[s[k]] = At(s, k - 1)

ProcListSound ==
  /\ \E s \in [1..count -> Linked] : Order(s) /\ LinkedInOrder(s)
  /\ \A p \in Procs \ Linked : next[p] = NoProc /\ prev[p] = NoProc
  /\ (\E p \in Linked : pc[p] = "killed") => max = 0 /\ reserve = 0

(* What Tasque_Start_Lock is for: when Perform_Update stores p->thr the    *)
(* frame p points to is that of a thread that has not moved on, and no     *)
(* task is ever owned by a processor whose handle is not stored, since     *)
(* Finish_Task_List terminates that handle.                                *)
StartHandshake ==
  /\ mp # NoProc => mpc = "started" /\ pc[mp] = "gate"
  /\ \A t \in care : processor[t] \in thr

(* The back pointer of a task in care names the one processor that runs    *)
(* it, and a task in another list has none: STRICT_REQUIRE(!t->processor). *)
BackPointers ==
  /\ \A t \in care :
       /\ processor[t] \in Procs
       /\ pc[processor[t]] \in {"run", "finish"}
       /\ cur[processor[t]] = t
  /\ \A p \in Procs :
       pc[p] \in {"run", "finish"} => cur[p] \in care /\ processor[cur[p]] = p
  /\ \A t \in Elems(in) \cup Elems(out) : processor[t] = NoProc

NoRepeat(s) == \A j, k \in DOMAIN s : s[j] = s[k] => j = k

(* A task is in one list at most, once, and in none when its update has    *)
(* been called: no interleaving loses a task or updates it twice.          *)
OnePlace ==
  /\ NoRepeat(in) /\ NoRepeat(out)
  /\ Elems(in) \cap care = {} /\ Elems(in) \cap Elems(out) = {}
  /\ care \cap Elems(out) = {}
  /\ \A t \in Elems(in) \cup care \cup Elems(out) : outcome[t] = "none"

(* A program that sees Perform_Update return 0 may stop calling it: every  *)
(* task it queued has been updated and no alert is armed.                  *)
ZeroMeansDone ==
  mpc = "app" /\ ~busy =>
    /\ in = <<>> /\ care = {} /\ out = <<>>
    /\ Armed = {}

(* Whenever Perform_Update waits for a result, with or without a timeout,  *)
(* what it waits for is on its way: the event of a finished task is set or *)
(* about to be, and while tasks are queued there is a processor to take    *)
(* them.  This is what AllUpdated needs of the notifications.              *)
WaitIsWoken ==
  mpc = "wait" =>
    /\ out # <<>> => outEvt \/ \E p \in Procs : pc[p] = "notify"
    /\ in # <<>> =>
         \E p \in Procs :
           pc[p] \in {"gate", "loop", "doze", "run", "finish", "notify"}

(* When Tasque_Terminate is over every task has had its update, except     *)
(* those that the callbacks queued when Task_In was already finished.      *)
TerminateSettles ==
  mpc = "down" =>
    \A t \in Elems(in) \cup care \cup Elems(out) : t \in late

(* A thread is killed only while it runs a task, through a stored handle,  *)
(* and that task is failed in the same step: no thread is killed inside a  *)
(* section of Tasque_Lock, and none for a task already handed over.        *)
KillsOnlyRunning ==
  [][\A p \in Procs : pc[p] # "killed" /\ pc'[p] = "killed" =>
       /\ pc[p] \in {"run", "finish"} /\ p \in thr
       /\ outcome[cur[p]] = "none" /\ outcome'[cur[p]] = "fail"]_vars

(* Tasks are started in the order they were queued, TASQUE_COMPLETE is     *)
(* given only after the body returned, and an update happens once: the     *)
(* queue does what TaskService promises.                                   *)
PhaseOf(t) ==
  IF outcome[t] # "none" THEN outcome[t]
  ELSE IF t \in Elems(in) THEN "queued"
  ELSE IF t \in care \cup Elems(out)
       THEN IF t \in ran THEN "done" ELSE "running"
  ELSE "new"

Service == INSTANCE TaskService
             WITH waiting <- in, phase <- [t \in Tasks |-> PhaseOf(t)]
ImplementsService == Service!Spec

(* Every queued task is updated, even when Perform_Update waits without a  *)
(* timeout: no notification of Tasque_Out_Monitor is lost.                 *)
AllUpdated == \A t \in Tasks : t \in Elems(in) ~> outcome[t] = "complete"

(* A queued task is started even when the bodies before it never return:   *)
(* another processor is started for it.                                    *)
NoHeadOfLine == \A t \in Tasks : t \in Elems(in) ~> t \notin Elems(in) \/ mpc = "down"

(* Tasque_Stop and Tasque_Terminate come to an end, whatever the bodies do.*)
ShutdownEnds == mpc \in {"stopping", "grace"} ~> mpc = "down"
=============================================================================
