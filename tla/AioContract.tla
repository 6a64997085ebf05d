---------------------------- MODULE AioContract ----------------------------
(***************************************************************************)
(* What the asynchronous calls of net/tcpip.hc promise to their caller:    *)
(* every request gets one answer, COMPLETE with at least the bytes it      *)
(* insisted on and no more than it had room for, or a failure with none.   *)
(* Tasks, descriptors and the network do not appear here.                  *)
(***************************************************************************)
EXTENDS AioAnswers

CONSTANTS Requests, Sizes

VARIABLES
  asked,     (* the sizes each request was made with, Nothing before        *)
  answer     (* what its callback was told, Nothing before                  *)

avars == <<asked, answer>>

Nothing == [status |-> "none", count |-> 0]
(* min bytes at least, len at most: a send has min = len, a connect 0 of 0.*)
Orders == {r \in [len : Sizes, min : Sizes] : r.min <= r.len}
Unasked == [len |-> 0, min |-> 1]

Init ==
  /\ asked  = [u \in Requests |-> Unasked]
  /\ answer = [u \in Requests |-> Nothing]

Ask(u, r) ==
  /\ asked[u] = Unasked
  /\ asked' = [asked EXCEPT ![u] = r]
  /\ UNCHANGED answer

Answer(u) ==
  /\ asked[u] # Unasked
  /\ answer[u] = Nothing
  /\ \E a \in Answers(asked[u]) : answer' = [answer EXCEPT ![u] = a]
  /\ UNCHANGED asked

Next == \E u \in Requests : Answer(u) \/ \E r \in Orders : Ask(u, r)

Spec == Init /\ [][Next]_avars

(* Every request is answered at last, while its peer is alive or gone.     *)
AllAnswered == \A u \in Requests : (asked[u] # Unasked) ~> (answer[u] # Nothing)
=============================================================================
