---------------------------- MODULE TaskService ----------------------------
(***************************************************************************)
(* What the task queue of system/tasque.hc promises to the code that       *)
(* submits tasks: a task is started in submission order, its body runs to  *)
(* its end on some processor, and its update callback is called once, with *)
(* TASQUE_COMPLETE after the body ended or with TASQUE_FAIL when the queue *)
(* is torn down.  Threads, locks and events do not appear here.            *)
(***************************************************************************)
EXTENDS Sequences

CONSTANT Tasks

VARIABLES
  waiting,   (* submitted tasks whose body has not started, oldest first    *)
  phase      (* how far each task has come                                  *)

svars == <<waiting, phase>>

Phases == {"new", "queued", "running", "done", "complete", "fail"}

TypeOK ==
  /\ waiting \in Seq(Tasks)
  /\ phase \in [Tasks -> Phases]

Init ==
  /\ waiting = <<>>
  /\ phase = [t \in Tasks |-> "new"]

Move(t, from, to) ==
  /\ phase[t] \in from
  /\ phase' = [phase EXCEPT ![t] = to]

Submit(t) ==
  /\ Move(t, {"new"}, "queued")
  /\ waiting' = Append(waiting, t)

(* The oldest waiting task leaves the queue: to run, or failed unrun.      *)
Leave(t, to) ==
  /\ waiting # <<>>
  /\ t = Head(waiting)
  /\ Move(t, {"queued"}, to)
  /\ waiting' = Tail(waiting)

Start(t)    == Leave(t, "running")
Refuse(t)   == Leave(t, "fail")
End(t)      == Move(t, {"running"}, "done") /\ UNCHANGED waiting
Complete(t) == Move(t, {"done"}, "complete") /\ UNCHANGED waiting
Abort(t)    == Move(t, {"running", "done"}, "fail") /\ UNCHANGED waiting

Next == \E t \in Tasks :
  Submit(t) \/ Start(t) \/ Refuse(t) \/ End(t) \/ Complete(t) \/ Abort(t)

Spec == Init /\ [][Next]_svars
=============================================================================
