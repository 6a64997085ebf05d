-------------------------------- MODULE Httpd --------------------------------
(***************************************************************************)
(* The HTTP server of net/httpd.hc: one request per connection, driven by  *)
(* the callbacks of the asynchronous calls (AioAnswers), all in the main   *)
(* thread.  A handler is an operator from the request, and what its        *)
(* callback was told, to the requests it may leave behind: it runs to its  *)
(* end before the next callback.                                           *)
(*                                                                         *)
(* Bytes are tokens and sizes are scaled down.  The program behind the     *)
(* callback continues a request it put off at most once, sends files as    *)
(* its answers, and leaves the stream of posted data to the server; a      *)
(* client sends a length that is not negative.                             *)
(***************************************************************************)
EXTENDS AioAnswers, Sequences, SequencesExt, FiniteSetsExt

CONSTANTS
  Rqsts,       (* connections                                               *)
  Wires,       (* what the clients send, each [text, method, length]        *)
  Bodies,      (* answers: [kind: none, known or chunked; length; file]     *)
  MAXBUF, MAXREQ, MAXPOST, GROW,   (* HTTPD_MAX..., and the 4K step         *)
  HDR,         (* tokens of a response header                               *)
  PREFIX,      (* tokens before the data of a chunk, 30 in the code         *)
  STRAYS       (* what may lie in the buffer behind the data                *)

ASSUME HttpdAssumption ==
  /\ {MAXBUF, MAXREQ, MAXPOST, GROW, HDR, PREFIX} \subseteq Nat
  /\ MAXREQ <= MAXBUF /\ 0 < GROW /\ HDR < MAXBUF /\ 0 < PREFIX /\ PREFIX + 1 < MAXBUF
  /\ \A w \in Wires, r \in Rqsts : LET t == w[r] IN
       t.length \in Nat /\ t.method \in {"GET", "POST", "BAD"} /\ t.text \in Seq(ToSet(t.text))
  /\ \A b \in Bodies :
       /\ DOMAIN b = {"kind", "length", "file"}
       /\ b.kind \in {"none", "known", "chunked"} /\ b.file \in Seq(ToSet(b.file))
       /\ b.length \in Nat /\ (b.kind = "known" <=> b.length > 0)
  /\ \A s \in STRAYS : s \in Seq(ToSet(s))

VARIABLES
  rq,          (* the C_HTTPD_REQUEST of each connection                    *)
  list,        (* httpd->rqst                                               *)
  refs,        (* references to the C_HTTPD: owner, accept and requests     *)
  lsock,       (* its listening socket: open or closed                      *)
  accepting,   (* Tcp_Aio_Accept calls in flight on the listening socket    *)
  barred       (* those that were asked for when it was closed              *)

svars == <<list, refs, lsock, accepting, barred>>
vars  == <<rq, svars>>

X == INSTANCE HttpExchange WITH stage <- [r \in Rqsts |-> rq[r].stage]

NoOp == [kind |-> "none", len |-> 0, min |-> 0]
NoBody == [kind |-> "none", length |-> 0, file |-> <<>>]
Fresh(t) ==
  [stage |-> "new", sent |-> t, got |-> 0, closed |-> FALSE, op |-> NoOp, flying |-> 0,
   bf |-> <<>>, cap |-> MAXBUF, nline |-> 0, left |-> 0, instrm |-> "none", post |-> <<>>,
   out |-> NoBody, read |-> 0, wire |-> <<>>, alive |-> FALSE]

Init ==
  /\ \E w \in Wires : rq = [r \in Rqsts |-> Fresh(w[r])]
  /\ list = <<>> /\ refs = 2 /\ lsock = "open" /\ accepting = 1 /\ barred = 0

Over == X!Last

------------------------------------------------------------------------------
(* Asynchronous calls of a request                                         *)

Asks(q, kind, len, min) ==
  [q EXCEPT !.op = [kind |-> kind, len |-> len, min |-> min], !.flying = @ + 1]

Tcp_Aio_Recv(q, kind, len, min) == Asks(q, kind, len, min)
Tcp_Aio_Send(q, count) == Asks(q, "send", count, count)
Answered(q) == [q EXCEPT !.op = NoOp, !.flying = @ - 1]

(* The callback is told the last status, and the socket is closed.         *)
Ends(q, status) == [q EXCEPT !.stage = status, !.closed = TRUE]

------------------------------------------------------------------------------
(* Response                                                                *)

(* Oj_Read of at most L tokens: all there are, or fewer but some.          *)
Oj_Read(q, L) ==
  LET most == Min({L, Len(q.out.file) - q.read})
  IN  IF most = 0 THEN {0} ELSE 1 .. most
Data(q, n) == SubSeq(q.out.file, q.read + 1, q.read + n)

(* The header, and the body as well when all of it fits behind.            *)
Httpd_Gen_Response_Unread(q, body) ==   (* mutant *)
  LET h == [q EXCEPT !.stage = "responding", !.out = body, !.left = body.length,
                     !.bf = [i \in 1 .. HDR |-> "h"]]
  IN  IF body.kind = "none" \/ body.length > q.cap - HDR THEN {h}
      ELSE {[h EXCEPT !.bf = @ \o Data(h, n), !.read = n] : n \in Oj_Read(h, body.length)}

Httpd_Gen_Response(q, body) ==
  LET h == [q EXCEPT !.stage = "responding", !.out = body, !.left = body.length,
                     !.bf = [i \in 1 .. HDR |-> "h"]]
  IN  IF body.kind = "none" \/ body.length > q.cap - HDR THEN {h}
      ELSE {[h EXCEPT !.bf = @ \o Data(h, n), !.read = n, !.left = @ - n] :
              n \in Oj_Read(h, body.length)}

Httpd_Continue_Request(q, body) ==
  {Tcp_Aio_Send(a, Len(a.bf)) : a \in Httpd_Gen_Response(q, body)}

(* What lies in the buffer after a chunk of n was read: its length is put  *)
(* just before the data, an end of line behind.                            *)
Chunk(q, n) == [i \in 1 .. PREFIX - 1 |-> "old"] \o <<"length">> \o Data(q, n) \o <<"\r\n">>

SendChunk_NoLast(q, n) ==   (* mutant *)
  Tcp_Aio_Send([q EXCEPT !.bf = Chunk(q, n), !.read = @ + n], n)

SendChunk(q, n) ==
  Tcp_Aio_Send([q EXCEPT !.bf = Chunk(q, n), !.read = @ + n,
                         !.out.length = IF n = 0 THEN 1 ELSE @,   (* -1 in the code *)
                         !.left = IF n = 0 THEN 0 ELSE @], n)

SendMore_Nothing(q, n) ==   (* mutant *)
  Tcp_Aio_Send([q EXCEPT !.bf = Data(q, n), !.read = @ + n, !.left = @ - n], n)

SendMore(q, n) ==
  IF n = 0 THEN Ends(q, "FINISHED")
  ELSE Tcp_Aio_Send([q EXCEPT !.bf = Data(q, n), !.read = @ + n, !.left = @ - n], n)

Cbk_Httpd_Sending_Result(q) ==
  IF q.out.kind = "none" THEN {Ends(q, "FINISHED")}
  ELSE IF q.out.length # 0
  THEN IF q.left = 0 THEN {Ends(q, "FINISHED")}
       ELSE {SendMore(q, n) : n \in Oj_Read(q, Min({q.left, q.cap}))}
  ELSE {SendChunk(q, n) : n \in Oj_Read(q, q.cap - PREFIX - 1)}

------------------------------------------------------------------------------
(* Request                                                                 *)

(* The posted data are the buffer itself unless they were stored.  The     *)
(* program answers, or puts the answer off.                                *)
Httpd_Perform_Request(q) ==
  LET p == IF q.sent.method = "POST" /\ q.instrm = "none"
           THEN [q EXCEPT !.instrm = "bf", !.post = q.bf] ELSE q
  IN  {[p EXCEPT !.stage = "performing"]}
        \cup UNION {Httpd_Continue_Request(p, b) : b \in Bodies}

Stored_NoReset(q) == [q EXCEPT !.instrm = "file", !.post = @ \o q.bf]   (* mutant *)
Stored(q) == [q EXCEPT !.instrm = "file", !.post = @ \o q.bf, !.bf = <<>>]

Store(q) ==
  IF q.instrm = "none"
  THEN {Ends(q, "LONGRQST"), Stored([q EXCEPT !.stage = "storing"])}
  ELSE {Stored(q)}

Pow2(n) == CHOOSE p \in {2^i : i \in 0 .. n} : p >= n /\ (p = 1 \/ p \div 2 < n)

(* The buffer never grows past these sizes; arithmetic that TLC evaluates. *)
ASSUME PowersAssumption == \A n \in 0 .. MAXPOST + GROW : Pow2(n) \in Nat /\ Pow2(n) >= n

Buffer_Grow_Reserve(q, n) == [q EXCEPT !.cap = IF @ < n THEN Pow2(n) ELSE @]

RecvPostdta_All(q) ==   (* mutant *)
  Tcp_Aio_Recv(q, "post", q.left, q.left)

RecvPostdta(q) ==
  LET L == Min({q.cap - Len(q.bf), q.left}) IN Tcp_Aio_Recv(q, "post", L, L)

PostOrPerform_Anyway(q) ==   (* mutant *)
  IF q.left > 0 THEN {RecvPostdta(Buffer_Grow_Reserve(q, Len(q.bf) + GROW))}
  ELSE Httpd_Perform_Request(q)

PostOrPerform(q) ==
  IF q.stage \in Over THEN {q}
  ELSE IF q.left > 0 THEN {RecvPostdta(Buffer_Grow_Reserve(q, Len(q.bf) + GROW))}
  ELSE Httpd_Perform_Request(q)

Cbk_Httpd_Getting_Postdta(q, bytes) ==
  LET p == [q EXCEPT !.bf = @ \o bytes, !.left = @ - Len(bytes)] IN
  IF p.instrm # "none" \/ Len(p.bf) > MAXPOST
  THEN UNION {PostOrPerform(s) : s \in Store(p)}
  ELSE PostOrPerform(p)

(* Line ends from nline on, where the line that ends there began, and      *)
(* those that end an empty line.  The query line comes first.              *)
LineEnds(at, nline) == {k \in nline + 1 .. Len(at) : at[k] = "\n"}
LineStart(at, nline, k) == Max({nline} \cup {j \in LineEnds(at, nline) : j < k})
HeadEnds(at, nline) ==
  {k \in LineEnds(at, nline) :
     /\ LineStart(at, nline, k) # 0
     /\ \A i \in LineStart(at, nline, k) + 1 .. k : at[i] \in {"\n", "\r", " "}}

(* What a client means as its head ends with the first empty line of it.   *)
ASSUME HeadsAssumption ==
  \A w \in Wires, r \in Rqsts :
    LET ends == HeadEnds(w[r].text, 0) IN ends # {} => w[r].head = Min(ends)

(* The whole head is there, in h tokens of the buffer.                     *)
Httpd_Analyze(q, h) ==
  IF q.sent.method = "BAD" THEN {Ends([q EXCEPT !.nline = h], "BADMETHOD")}
  ELSE IF q.sent.method = "GET" THEN Httpd_Perform_Request([q EXCEPT !.nline = h])
  ELSE LET rest == SubSeq(q.bf, h + 1, Len(q.bf))
           p    == [q EXCEPT !.nline = h, !.bf = rest, !.left = q.sent.length]
       IN  IF Len(rest) >= p.left
           THEN Httpd_Perform_Request([p EXCEPT !.bf = SubSeq(rest, 1, p.left)])
           ELSE {RecvPostdta(Buffer_Grow_Reserve([p EXCEPT !.left = @ - Len(rest)], MAXPOST))}

(* The scan looks one token past the data, where anything may lie.         *)
Cbk_Httpd_Getting_Request(q, bytes, stray) ==
  LET p  == [q EXCEPT !.bf = @ \o bytes]
      at == p.bf \o stray
  IN  IF Len(p.bf) >= MAXREQ THEN {Ends(p, "LONGRQST")}
      ELSE IF HeadEnds(at, p.nline) # {} THEN Httpd_Analyze(p, Min(HeadEnds(at, p.nline)))
      ELSE {Tcp_Aio_Recv([p EXCEPT !.nline = Max({@} \cup LineEnds(at, @))],
                         "head", p.cap - Len(p.bf), 1)}

------------------------------------------------------------------------------
(* Callbacks                                                               *)

Becomes(r, requests) == \E q \in requests : rq' = [rq EXCEPT ![r] = q]
Waits(r, kind) == rq[r].op.kind = kind

Incoming(q, n) == SubSeq(q.sent.text, q.got + 1, q.got + n)

(* The peer has sent no more than its text.                                *)
Received(r, n) == /\ Completed(n) \in Answers(rq[r].op)
                  /\ rq[r].got + n <= Len(rq[r].sent.text)
Arrived(q, n) == [Answered(q) EXCEPT !.got = @ + n]

GotRequest(r, n) ==
  /\ Waits(r, "head") /\ Received(r, n)
  /\ \E s \in STRAYS : Becomes(r, Cbk_Httpd_Getting_Request(Arrived(rq[r], n), Incoming(rq[r], n), s))
  /\ UNCHANGED svars

GotPostdta(r, n) ==
  /\ Waits(r, "post") /\ Received(r, n)
  /\ Becomes(r, Cbk_Httpd_Getting_Postdta(Arrived(rq[r], n), Incoming(rq[r], n)))
  /\ UNCHANGED svars

Sent(r) ==
  /\ Waits(r, "send")
  /\ LET q == Answered(rq[r])
     IN  Becomes(r, Cbk_Httpd_Sending_Result([q EXCEPT !.wire = @ \o SubSeq(q.bf, 1, rq[r].op.len)]))
  /\ UNCHANGED svars

(* Any of the three callbacks, told an error.                              *)
IOFail(r) ==
  /\ ~ Waits(r, "none")
  /\ Becomes(r, {Ends(Answered(rq[r]), "IOFAIL")})
  /\ UNCHANGED svars

(* The program answers a request that it put off.                          *)
Continue(r) ==
  /\ rq[r].stage = "performing"
  /\ \E b \in Bodies : Becomes(r, Httpd_Continue_Request(rq[r], b))
  /\ UNCHANGED svars

------------------------------------------------------------------------------
(* The server                                                              *)

Httpd_Request_NoRefe(r) ==   (* mutant *)
  /\ list' = <<r>> \o list
  /\ UNCHANGED refs

Httpd_Request_RefsTwice(r) ==   (* mutant *)
  /\ list' = <<r>> \o list
  /\ refs' = refs + 2

Httpd_Request(r) ==
  /\ list' = <<r>> \o list
  /\ refs' = refs + 1

(* The next accept is asked for before the request is looked at, on the    *)
(* socket as it is now: Httpd_Shutdown may have been called since the one  *)
(* that succeeded, and then the next can only fail.                        *)
Rearmed ==
  IF lsock = "open" THEN UNCHANGED <<accepting, barred>>
  ELSE accepting' = accepting - 1 /\ barred' = barred + 1

Cbk_Httpd_Accept(r) ==
  /\ accepting > 0
  /\ rq[r].stage = "new"
  /\ Rearmed
  /\ Httpd_Request(r)
  /\ LET q == [rq[r] EXCEPT !.alive = TRUE] IN
     Becomes(r, {Tcp_Aio_Recv([q EXCEPT !.stage = "reading"], "head", q.cap, 1),
                 [q EXCEPT !.stage = "REJECTED"]})
  /\ UNCHANGED lsock

(* The callback is told ACCEPTFAIL; nothing asks for another accept.      *)
AcceptFails ==
  /\ \/ accepting > 0 /\ accepting' = accepting - 1 /\ UNCHANGED barred
     \/ barred > 0 /\ barred' = barred - 1 /\ UNCHANGED accepting
  /\ refs' = refs - 1
  /\ UNCHANGED <<rq, list, lsock>>

(* The owner shuts the server down and lets go of it.                      *)
Httpd_Shutdown ==
  /\ lsock = "open"
  /\ lsock' = "closed"
  /\ refs' = refs - 1
  /\ UNCHANGED <<rq, list, accepting, barred>>

Httpd_Detach_Request(r) == list' = RemoveFirst(list, r)

(* The last reference to a request is gone: no call is in flight, and the  *)
(* program does not keep it to answer later.                               *)
Destruct(r) ==
  /\ rq[r].alive /\ rq[r].flying = 0 /\ rq[r].stage \in Over
  /\ Httpd_Detach_Request(r)
  /\ refs' = refs - 1
  /\ Becomes(r, {[rq[r] EXCEPT !.alive = FALSE, !.closed = TRUE]})
  /\ UNCHANGED <<lsock, accepting, barred>>

------------------------------------------------------------------------------
Handles(r) ==
  \/ \E n \in 0 .. Len(rq[r].sent.text) : GotRequest(r, n) \/ GotPostdta(r, n)
  \/ Sent(r)
  \/ Continue(r)

Next ==
  \/ \E r \in Rqsts : Cbk_Httpd_Accept(r) \/ Handles(r) \/ IOFail(r) \/ Destruct(r)
  \/ AcceptFails \/ Httpd_Shutdown

Spec == Init /\ [][Next]_vars

(* What has come, or was sent, is reported at last; a peer that has sent   *)
(* all it wants leaves; the program answers what it put off, and keeps no  *)
(* request that has ended.  Closing the listening socket ends the accepts  *)
(* that wait on it, as closesocket does.                                   *)
PeerLeaves(r) ==
  /\ rq[r].op.kind \in {"head", "post"} /\ rq[r].got = Len(rq[r].sent.text)
  /\ IOFail(r)
AcceptEnds == lsock = "closed" /\ AcceptFails
FairSpec ==
  /\ Spec
  /\ \A r \in Rqsts : WF_vars(Handles(r)) /\ WF_vars(PeerLeaves(r)) /\ WF_vars(Destruct(r))
  /\ WF_vars(AcceptEnds)
------------------------------------------------------------------------------
TypeOK ==
  /\ \A r \in Rqsts :
       /\ rq[r].stage \in X!Stages
       /\ {rq[r].got, rq[r].nline, rq[r].left, rq[r].read, rq[r].flying, rq[r].cap} \subseteq Nat
       /\ rq[r].op.kind \in {"none", "head", "post", "send"}
       /\ rq[r].instrm \in {"none", "bf", "file"}
  /\ {refs, accepting, barred} \subseteq Nat /\ lsock \in {"open", "closed"}

Alive(r) == rq[r].stage \notin Over \cup {"new"}

(* A request on its way has one call in flight, whose callback goes on     *)
(* with it, or is in the hands of the program; after its last status it    *)
(* has none, so that nothing happens on a socket that is closed.           *)
NotForgotten ==
  \A r \in Rqsts :
    rq[r].flying = IF Alive(r) /\ rq[r].stage # "performing" THEN 1 ELSE 0

(* A receive never has room for more than the buffer has left, and a send  *)
(* never takes more than was put there.                                    *)
InBuffer ==
  /\ TypeOK
  /\ \A r \in Rqsts :
       LET q == rq[r] IN
       /\ Len(q.bf) <= q.cap
       /\ q.op.kind \in {"head", "post"} => Len(q.bf) + q.op.len <= q.cap
       /\ q.op.kind = "send" => q.op.len <= Len(q.bf)

Performed(r) == rq[r].stage \in {"performing", "responding", "FINISHED"}

(* The program is asked to perform a POST when it has the whole of its     *)
(* data, in order and no token of the head or of what follows, in whatever *)
(* pieces they came and however often they were moved to the stream.       *)
PostWhole ==
  \A r \in Rqsts : LET t == rq[r].sent IN
    Performed(r) /\ t.method = "POST"
      => rq[r].post = SubSeq(t.text, t.head + 1, t.head + t.length)

(* A finished answer of known length went out as its header and then the   *)
(* data of the file, once and in order, up to the length that was set.     *)
BodyWhole ==
  \A r \in Rqsts : LET o == rq[r].out IN
    rq[r].stage = "FINISHED" /\ o.kind = "known"
      => rq[r].wire = [i \in 1 .. HDR |-> "h"] \o SubSeq(o.file, 1, Min({o.length, Len(o.file)}))

(* The server dies with its last reference, when nothing can come back to  *)
(* it: no request is listed (STRICT_REQUIRE(httpd->rqst == 0)) or lives to *)
(* detach itself, and no accept is in flight, the one that was asked for   *)
(* again after the shutdown included.  The list names the requests that    *)
(* live, once each.                                                        *)
ServerSound ==
  /\ refs = 0 => list = <<>> /\ accepting = 0 /\ barred = 0 /\ lsock = "closed"
  /\ ToSet(list) = {r \in Rqsts : rq[r].alive}
  /\ Len(list) = Cardinality(ToSet(list))

(* A server that was shut down is destroyed, whatever its requests and its *)
(* accept were doing: no path through the callbacks keeps a reference.     *)
ServerEnds == lsock = "closed" ~> refs = 0

(* CONNECT, POSTDTA, PERFORM and one last status come in the order that    *)
(* the program expects, for every request.                                 *)
ImplementsExchange == X!Spec

(* A request goes on for some time only: each step of it takes it to a     *)
(* later stage, or brings more of what the peer sends, of which there is   *)
(* no more than its text, or leaves less of the answer to send.  No        *)
(* callback asks again for nothing, as one would that reads an empty piece *)
(* of a file that is shorter than its length, or an empty last chunk.      *)
Level(q) ==
  CASE q.stage = "new"                    -> 0
    [] q.stage \in {"reading", "storing"} -> 1
    [] q.stage = "performing"             -> 2
    [] q.stage = "responding"             -> 3
    [] OTHER                              -> 4

Unfinished(o) == IF o.kind = "chunked" /\ o.length = 0 THEN 1 ELSE 0
ToSend(q) == Len(q.out.file) - q.read + Unfinished(q.out)

Further(q, p) ==
  \/ Level(q) < Level(p)
  \/ Level(q) = 1 /\ Level(p) = 1 /\ q.got < p.got /\ p.got <= Len(p.sent.text)
  \/ Level(q) = 3 /\ Level(p) = 3 /\ ToSend(p) < ToSend(q) /\ 0 <= ToSend(p)
  \/ q.alive /\ ~ p.alive

MovesOn == [][\A r \in Rqsts : rq'[r] # rq[r] => Further(rq[r], rq'[r])]_vars

(* Every request that was accepted comes to its last status.               *)
AllAnswered == \A r \in Rqsts : (rq[r].stage = "reading") ~> (rq[r].stage \in Over)

(* The end of the head is the empty line that the client sent.             *)
HeadWhole == \A r \in Rqsts : Performed(r) => rq[r].got >= rq[r].sent.head

(* What follows the header of a finished chunked answer is a length before *)
(* the data of each chunk and an end of line behind: no token left in the  *)
(* buffer is sent, and as many ends of line as lengths.                    *)
Count(s, x) == Cardinality({i \in 1 .. Len(s) : s[i] = x})
ChunkFramed ==
  \A r \in Rqsts :
    rq[r].stage = "FINISHED" /\ rq[r].out.kind = "chunked"
      => /\ Count(rq[r].wire, "old") = 0
         /\ Count(rq[r].wire, "length") = Count(rq[r].wire, "\r\n")
         /\ SelectSeq(rq[r].wire, LAMBDA x : x \in ToSet(rq[r].out.file)) = rq[r].out.file
=============================================================================
