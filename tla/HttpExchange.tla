---------------------------- MODULE HttpExchange ----------------------------
(***************************************************************************)
(* What a server of net/httpd.hc promises to the program behind its        *)
(* callback about one request: CONNECT is asked first; PERFORM at most     *)
(* once, after POSTDTA if that is asked at all; then exactly one last      *)
(* status, and FINISHED only for a request that was performed.             *)
(***************************************************************************)
CONSTANT Rqsts

VARIABLE stage

Last   == {"FINISHED", "IOFAIL", "LONGRQST", "BADMETHOD", "REJECTED"}
Stages == {"new", "reading", "storing", "performing", "responding"} \cup Last

Moves(r, from, to) ==
  /\ stage[r] \in from
  /\ \E s \in to : stage' = [stage EXCEPT ![r] = s]

Connect(r)  == Moves(r, {"new"}, {"reading", "REJECTED"})
Postdta(r)  == Moves(r, {"reading"}, {"storing", "LONGRQST"})
Perform(r)  == Moves(r, {"reading", "storing"}, {"performing", "responding"})
Continue(r) == Moves(r, {"performing"}, {"responding"})
Refuse(r)   == Moves(r, {"reading"}, {"LONGRQST", "BADMETHOD"})
Fail(r)     == Moves(r, {"reading", "storing", "responding"}, {"IOFAIL"})
Finish(r)   == Moves(r, {"responding"}, {"FINISHED"})

Init == stage = [r \in Rqsts |-> "new"]

Next == \E r \in Rqsts :
  Connect(r) \/ Postdta(r) \/ Perform(r) \/ Continue(r) \/ Refuse(r) \/ Fail(r) \/ Finish(r)

Spec == Init /\ [][Next]_stage
=============================================================================
