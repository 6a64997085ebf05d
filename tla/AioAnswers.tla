----------------------------- MODULE AioAnswers -----------------------------
(***************************************************************************)
(* The answers that a callback of net/tcpip.hc can get to a request.       *)
(***************************************************************************)
EXTENDS Naturals

(* CLOSED: of a task whose socket is closed, with PERMANENT besides.       *)
IOFailures      == {"FAIL", "CLOSED"}
(* PERMANENT alone: of a name that no host has.                            *)
ResolveFailures == {"FAIL", "PERMANENT"}
Failures        == IOFailures \cup ResolveFailures

Failed(status) == [status |-> status, count |-> 0]
Completed(n)   == [status |-> "COMPLETE", count |-> n]

(* len is the room, min what the caller insists on.                        *)
Answers(r) == {Completed(n) : n \in r.min .. r.len} \cup {Failed(s) : s \in Failures}
=============================================================================
