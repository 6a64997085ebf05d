---------------------------- MODULE HttpdProofs ----------------------------
(***************************************************************************)
(* Theorems about Httpd, for any connections, clients, answers and sizes.  *)
(***************************************************************************)
EXTENDS Httpd, FiniteSetTheorems, SequenceTheorems, WellFoundedInduction, TLAPS

Fields == {"stage", "sent", "got", "closed", "op", "flying", "bf", "cap", "nline", "left",
           "instrm", "post", "out", "read", "wire", "alive"}
IsRqst(q) == DOMAIN q = Fields

(* The stage of a request, by the call it has in flight.                   *)
StageOf(q) ==
  CASE q.op.kind = "head" -> q.stage = "reading" /\ q.instrm = "none"
    [] q.op.kind = "post" -> q.stage = IF q.instrm = "none" THEN "reading" ELSE "storing"
    [] q.op.kind = "send" -> q.stage = "responding"
    [] OTHER -> q.stage \in Over \cup {"new", "performing"}

(* Named, so that the provers need not look into Boolean fields.           *)
Living == TRUE
Unborn == FALSE

Settled(q) ==
  /\ q.op.kind \in {"none", "head", "post", "send"}
  /\ q.op.kind = "none" => q.op = NoOp
  /\ q.flying = IF q.op.kind = "none" THEN 0 ELSE 1
  /\ q.stage = "new" => q.instrm = "none" /\ q.alive = Unborn
  /\ q.alive \in {Living, Unborn} /\ (q.stage \notin Over \cup {"new"} => q.alive = Living)
  /\ StageOf(q)

(* A request whose callback is running.                                    *)
Idle(q) == IsRqst(q) /\ q.op = NoOp /\ q.flying = 0 /\ q.alive = Living

Goes(q, to) == IsRqst(q) /\ Settled(q) /\ q.stage \in to /\ q.alive = Living

LEMMA EndsGoes ==
  ASSUME NEW q, Idle(q), NEW s \in Over
  PROVE  Goes(Ends(q, s), {s})
  BY DEF Idle, Goes, Ends, IsRqst, Fields, Settled, StageOf, NoOp, Over, X!Last

LEMMA SendGoes ==
  ASSUME NEW q, Idle(q), q.stage = "responding", NEW n
  PROVE  Goes(Tcp_Aio_Send(q, n), {"responding"})
  BY DEF Idle, Goes, Tcp_Aio_Send, Asks, IsRqst, Fields, Settled, StageOf, NoOp

LEMMA GenGoes ==
  ASSUME NEW q, Idle(q), NEW b, NEW p \in Httpd_Gen_Response(q, b)
  PROVE  Idle(p) /\ p.stage = "responding"
  BY DEF Idle, Httpd_Gen_Response, IsRqst, Fields, NoOp

LEMMA ContinueGoes ==
  ASSUME NEW q, Idle(q), NEW b, NEW p \in Httpd_Continue_Request(q, b)
  PROVE  Goes(p, {"responding"})
  BY GenGoes, SendGoes DEF Httpd_Continue_Request

LEMMA PerformGoes ==
  ASSUME NEW q, Idle(q), NEW p \in Httpd_Perform_Request(q)
  PROVE  Goes(p, {"performing", "responding"})
<1> DEFINE d == IF q.sent.method = "POST" /\ q.instrm = "none"
                THEN [q EXCEPT !.instrm = "bf", !.post = q.bf] ELSE q
<1>1. Idle(d)
  BY DEF Idle, IsRqst, Fields, NoOp
<1>2. CASE p = [d EXCEPT !.stage = "performing"]
  BY <1>1, <1>2 DEF Goes, Settled, StageOf, Idle, IsRqst, Fields, NoOp
<1>3. CASE \E b \in Bodies : p \in Httpd_Continue_Request(d, b)
  <2>1. Goes(p, {"responding"})
    BY <1>1, <1>3, ContinueGoes
  <2> QED
    BY <2>1 DEF Goes
<1> HIDE DEF d
<1> QED
  BY <1>2, <1>3 DEF Httpd_Perform_Request, d

LEMMA SendChunkGoes ==
  ASSUME NEW q, Idle(q), q.stage = "responding", NEW n
  PROVE  Goes(SendChunk(q, n), {"responding"})
<1> DEFINE d == [q EXCEPT !.bf = Chunk(q, n), !.read = @ + n,
                          !.out.length = IF n = 0 THEN 1 ELSE @,
                          !.left = IF n = 0 THEN 0 ELSE @]
<1>1. Idle(d) /\ d.stage = "responding"
  BY DEF Idle, IsRqst, Fields, NoOp
<1> QED
  BY <1>1, SendGoes DEF SendChunk

LEMMA SendMoreGoes ==
  ASSUME NEW q, Idle(q), q.stage = "responding", NEW n
  PROVE  Goes(SendMore(q, n), {"responding", "FINISHED"})
<1>1. CASE n = 0
  BY <1>1, EndsGoes DEF SendMore, Goes, Over, X!Last
<1>2. CASE n # 0
  <2> DEFINE d == [q EXCEPT !.bf = Data(q, n), !.read = @ + n, !.left = @ - n]
  <2>1. Idle(d) /\ d.stage = "responding"
    BY DEF Idle, IsRqst, Fields, NoOp
  <2>2. Goes(Tcp_Aio_Send(d, n), {"responding"})
    BY <2>1, SendGoes
  <2> QED
    BY <1>2, <2>2 DEF SendMore, Goes
<1> QED
  BY <1>1, <1>2

LEMMA SendingGoes ==
  ASSUME NEW q, Idle(q), q.stage = "responding", NEW p \in Cbk_Httpd_Sending_Result(q)
  PROVE  Goes(p, {"responding", "FINISHED"})
<1>1. Goes(Ends(q, "FINISHED"), {"responding", "FINISHED"})
  BY EndsGoes DEF Goes, Over, X!Last
<1>2. \A n : Goes(SendMore(q, n), {"responding", "FINISHED"})
  BY SendMoreGoes
<1>3. \A n : Goes(SendChunk(q, n), {"responding", "FINISHED"})
  BY SendChunkGoes DEF Goes
<1> QED
  BY <1>1, <1>2, <1>3 DEF Cbk_Httpd_Sending_Result

LEMMA RecvPostdtaGoes ==
  ASSUME NEW q, Idle(q), NEW n, q.stage = IF q.instrm = "none" THEN "reading" ELSE "storing"
  PROVE  Goes(RecvPostdta(Buffer_Grow_Reserve(q, n)), {q.stage})
<1> DEFINE d == Buffer_Grow_Reserve(q, n)
<1>1. Idle(d) /\ d.stage = q.stage /\ d.instrm = q.instrm
  BY DEF Idle, IsRqst, Fields, NoOp, Buffer_Grow_Reserve
<1> HIDE DEF d
<1>2. Goes(RecvPostdta(d), {d.stage})
  BY <1>1 DEF RecvPostdta, Tcp_Aio_Recv, Asks, Goes, Settled, StageOf, Idle, IsRqst, Fields, NoOp
<1> QED
  BY <1>1, <1>2 DEF d

LEMMA PostOrPerformGoes ==
  ASSUME NEW q, Idle(q), NEW p \in PostOrPerform(q),
         q.stage = IF q.instrm = "none" THEN "reading" ELSE "storing"
  PROVE  Goes(p, {q.stage, "performing", "responding"})
<1>1. q.stage \notin Over
  BY DEF Over, X!Last
<1>2. Goes(RecvPostdta(Buffer_Grow_Reserve(q, Len(q.bf) + GROW)), {q.stage})
  BY RecvPostdtaGoes
<1> QED
  BY <1>1, <1>2, PerformGoes DEF PostOrPerform, Goes

LEMMA GettingPostdtaGoes ==
  ASSUME NEW q, Idle(q), NEW bytes, NEW p \in Cbk_Httpd_Getting_Postdta(q, bytes),
         q.stage = IF q.instrm = "none" THEN "reading" ELSE "storing"
  PROVE  Goes(p, {q.stage, "storing", "performing", "responding"}
                   \cup IF q.stage = "reading" THEN {"LONGRQST"} ELSE {})
<1> DEFINE d == [q EXCEPT !.bf = @ \o bytes, !.left = @ - Len(bytes)]
<1>1. Idle(d) /\ d.stage = q.stage /\ d.instrm = q.instrm
  BY DEF Idle, IsRqst, Fields, NoOp
<1> HIDE DEF d
<1>2. CASE p \in PostOrPerform(d)
  BY <1>1, <1>2, PostOrPerformGoes DEF Goes
<1>3. ASSUME NEW s \in Store(d), p \in PostOrPerform(s)
      PROVE  Goes(p, {q.stage, "storing", "performing", "responding"}
                       \cup IF q.stage = "reading" THEN {"LONGRQST"} ELSE {})
  <2>1. CASE d.instrm = "none" /\ s = Ends(d, "LONGRQST")
    <3>1. Goes(s, {"LONGRQST"})
      BY <1>1, <2>1, EndsGoes DEF Over, X!Last
    <3>2. p = s
      BY <1>3, <3>1 DEF PostOrPerform, Goes, Over, X!Last
    <3> QED
      BY <1>1, <2>1, <3>1, <3>2 DEF Goes
  <2>2. CASE d.instrm = "none" /\ s = Stored([d EXCEPT !.stage = "storing"])
    <3>1. Idle(s) /\ s.stage = "storing" /\ s.instrm = "file"
      BY <1>1, <2>2 DEF Stored, Idle, IsRqst, Fields, NoOp
    <3> QED
      BY <1>3, <3>1, PostOrPerformGoes DEF Goes
  <2>3. CASE d.instrm # "none" /\ s = Stored(d)
    <3>1. Idle(s) /\ s.stage = "storing" /\ s.instrm = "file"
      BY <1>1, <2>3 DEF Stored, Idle, IsRqst, Fields, NoOp
    <3> QED
      BY <1>3, <3>1, PostOrPerformGoes DEF Goes
  <2> QED
    BY <2>1, <2>2, <2>3 DEF Store
<1> QED
  BY <1>2, <1>3 DEF Cbk_Httpd_Getting_Postdta, d

Heard == {"reading", "performing", "responding", "BADMETHOD", "LONGRQST"}

LEMMA AnalyzeGoes ==
  ASSUME NEW q, Idle(q), q.stage = "reading", q.instrm = "none", NEW h,
         NEW p \in Httpd_Analyze(q, h)
  PROVE  Goes(p, Heard)
<1> USE DEF Heard
<1>1. CASE q.sent.method = "BAD"
  <2>1. Idle([q EXCEPT !.nline = h])
    BY DEF Idle, IsRqst, Fields, NoOp
  <2> QED
    BY <1>1, <2>1, EndsGoes DEF Httpd_Analyze, Goes, Over, X!Last
<1>2. CASE q.sent.method = "GET"
  <2>1. Idle([q EXCEPT !.nline = h])
    BY DEF Idle, IsRqst, Fields, NoOp
  <2> QED
    BY <1>2, <2>1, PerformGoes DEF Httpd_Analyze, Goes
<1>3. CASE q.sent.method \notin {"BAD", "GET"}
  <2> DEFINE rest == SubSeq(q.bf, h + 1, Len(q.bf))
             d == [q EXCEPT !.nline = h, !.bf = rest, !.left = q.sent.length]
             e == [d EXCEPT !.bf = SubSeq(rest, 1, d.left)]
             f == [d EXCEPT !.left = @ - Len(rest)]
  <2>1. Idle(e)
    BY DEF Idle, IsRqst, Fields, NoOp
  <2>2. Idle(f) /\ f.stage = "reading" /\ f.instrm = "none"
    BY DEF Idle, IsRqst, Fields, NoOp
  <2>3. p \in Httpd_Perform_Request(e) \/ p = RecvPostdta(Buffer_Grow_Reserve(f, MAXPOST))
    BY <1>3 DEF Httpd_Analyze
  <2> HIDE DEF e, f
  <2> QED
    BY <2>1, <2>2, <2>3, PerformGoes, RecvPostdtaGoes DEF Goes
<1> QED
  BY <1>1, <1>2, <1>3

LEMMA GettingRequestGoes ==
  ASSUME NEW q, Idle(q), q.stage = "reading", q.instrm = "none", NEW bytes, NEW stray,
         NEW p \in Cbk_Httpd_Getting_Request(q, bytes, stray)
  PROVE  Goes(p, Heard)
<1> DEFINE d == [q EXCEPT !.bf = @ \o bytes]
           at == d.bf \o stray
           e == [d EXCEPT !.nline = Max({@} \cup LineEnds(at, @))]
<1>1. Idle(d) /\ d.stage = "reading" /\ d.instrm = "none"
  BY DEF Idle, IsRqst, Fields, NoOp
<1>2. Goes(Ends(d, "LONGRQST"), Heard)
  BY <1>1, EndsGoes DEF Goes, Over, X!Last, Heard
<1>3. \A h : p \in Httpd_Analyze(d, h) => Goes(p, Heard)
  BY <1>1, AnalyzeGoes
<1>4. Idle(e) /\ e.stage = "reading" /\ e.instrm = "none"
  BY DEF Idle, IsRqst, Fields, NoOp
<1>5. \/ p = Ends(d, "LONGRQST")
      \/ \E h : p \in Httpd_Analyze(d, h)
      \/ p = Tcp_Aio_Recv(e, "head", d.cap - Len(d.bf), 1)
  BY DEF Cbk_Httpd_Getting_Request
<1> HIDE DEF d, e
<1>6. \A n : Goes(Tcp_Aio_Recv(e, "head", n, 1), Heard)
  BY <1>4 DEF Tcp_Aio_Recv, Asks, Goes, Settled, StageOf, Idle, IsRqst, Fields, NoOp, Heard
<1> QED
  BY <1>2, <1>3, <1>5, <1>6

------------------------------------------------------------------------------
Stagewise == DOMAIN rq = Rqsts /\ \A r \in Rqsts : IsRqst(rq[r]) /\ Settled(rq[r])

LEMMA InitStagewise == Init => Stagewise /\ X!Init
<1> SUFFICES ASSUME NEW w \in Wires, rq = [r \in Rqsts |-> Fresh(w[r])]
             PROVE  Stagewise /\ X!Init
  BY DEF Init
<1>1. ASSUME NEW r \in Rqsts
      PROVE  IsRqst(rq[r]) /\ Settled(rq[r]) /\ rq[r].stage = "new"
  <2>1. /\ IsRqst(rq[r]) /\ rq[r].stage = "new" /\ rq[r].instrm = "none" /\ rq[r].op = NoOp
        /\ rq[r].flying = 0
    BY DEF Fresh, IsRqst, Fields
  <2>2. rq[r].alive = Unborn
    BY Zenon DEF Fresh, Unborn
  <2> QED
    BY <2>1, <2>2 DEF Settled, StageOf, NoOp
<1> QED
  BY <1>1 DEF Stagewise, X!Init

(* The answer is taken off before the callback goes on.                    *)
LEMMA AnsweredIdle ==
  ASSUME NEW q, IsRqst(q), Settled(q), q.op.kind # "none"
  PROVE  Idle(Answered(q)) /\ Answered(q).stage = q.stage /\ Answered(q).instrm = q.instrm
<1>1. q.stage \in {"reading", "storing", "responding"}
  BY DEF Settled, StageOf
<1>2. q.flying = 1 /\ q.alive = Living
  BY <1>1 DEF Settled, Over, X!Last
<1> QED
  BY <1>2 DEF Answered, Idle, IsRqst, Fields, NoOp

LEMMA ArrivedIdle ==
  ASSUME NEW q, IsRqst(q), Settled(q), q.op.kind # "none", NEW n
  PROVE  Idle(Arrived(q, n)) /\ Arrived(q, n).stage = q.stage /\ Arrived(q, n).instrm = q.instrm
<1> DEFINE d == Answered(q)
<1>1. Idle(d) /\ d.stage = q.stage /\ d.instrm = q.instrm
  BY AnsweredIdle
<1> HIDE DEF d
<1>2. Idle([d EXCEPT !.got = @ + n]) /\ [d EXCEPT !.got = @ + n].stage = d.stage
        /\ [d EXCEPT !.got = @ + n].instrm = d.instrm
  BY <1>1 DEF Idle, IsRqst, Fields, NoOp
<1> QED
  BY <1>1, <1>2 DEF Arrived, d

(* What a handler of a request does to its stage.                          *)
Replaced(r, p) == rq' = [rq EXCEPT ![r] = p]

Stage == [r \in Rqsts |-> rq[r].stage]

Moving(r, p) ==
  \/ p.stage = rq[r].stage
  \/ rq[r].stage = "new" /\ p.stage \in {"reading", "REJECTED"}
  \/ rq[r].stage = "reading"
       /\ p.stage \in {"storing", "performing", "responding", "LONGRQST", "BADMETHOD", "IOFAIL"}
  \/ rq[r].stage = "storing" /\ p.stage \in {"performing", "responding", "IOFAIL"}
  \/ rq[r].stage = "performing" /\ p.stage = "responding"
  \/ rq[r].stage = "responding" /\ p.stage \in {"FINISHED", "IOFAIL"}

Kept == \A x \in Rqsts : rq'[x].alive = rq[x].alive

LEMMA MoveStep ==
  ASSUME Stagewise, NEW r \in Rqsts, NEW p, Replaced(r, p), IsRqst(p), Settled(p), Moving(r, p)
  PROVE  Stagewise' /\ [X!Next]_Stage /\ (p.alive = rq[r].alive => Kept)
<1>1. rq' = [rq EXCEPT ![r] = p]
  BY DEF Replaced
<1>2. Stagewise'
  BY <1>1 DEF Stagewise
<1>14. p.alive = rq[r].alive => Kept
  BY <1>1 DEF Stagewise, Kept
<1>3. Stage' = [Stage EXCEPT ![r] = p.stage]
  BY <1>1 DEF Stagewise, Stage
<1>4. Stage[r] = rq[r].stage
  BY DEF Stage
<1>5. CASE p.stage = rq[r].stage
  BY <1>2, <1>14, <1>3, <1>4, <1>5 DEF Stage
<1>6. \A from, to : rq[r].stage \in from /\ p.stage \in to => X!Moves(r, from, to)
  BY <1>3 DEF X!Moves, Stage
<1>7. CASE rq[r].stage = "new" /\ p.stage \in {"reading", "REJECTED"}
  BY <1>2, <1>14, <1>6, <1>7 DEF X!Next, X!Connect
<1>8. CASE rq[r].stage = "reading" /\ p.stage \in {"storing", "LONGRQST"}
  BY <1>2, <1>14, <1>6, <1>8 DEF X!Next, X!Postdta
<1>9. CASE rq[r].stage \in {"reading", "storing"} /\ p.stage \in {"performing", "responding"}
  BY <1>2, <1>14, <1>6, <1>9 DEF X!Next, X!Perform
<1>10. CASE rq[r].stage = "reading" /\ p.stage = "BADMETHOD"
  BY <1>2, <1>14, <1>6, <1>10 DEF X!Next, X!Refuse
<1>11. CASE rq[r].stage \in {"reading", "storing", "responding"} /\ p.stage = "IOFAIL"
  BY <1>2, <1>14, <1>6, <1>11 DEF X!Next, X!Fail
<1>12. CASE rq[r].stage = "performing" /\ p.stage = "responding"
  BY <1>2, <1>14, <1>6, <1>12 DEF X!Next, X!Continue
<1>13. CASE rq[r].stage = "responding" /\ p.stage = "FINISHED"
  BY <1>2, <1>14, <1>6, <1>13 DEF X!Next, X!Finish
<1> QED
  BY <1>5, <1>7, <1>8, <1>9, <1>10, <1>11, <1>12, <1>13 DEF Moving

LEMMA StagewiseStep ==
  ASSUME Stagewise, [Next]_vars
  PROVE  /\ Stagewise' /\ [X!Next]_Stage
         /\ Kept \/ \E r \in Rqsts : Cbk_Httpd_Accept(r) \/ Destruct(r)
<1>1. \A r \in Rqsts : IsRqst(rq[r]) /\ Settled(rq[r])
  BY DEF Stagewise
<1>2. ASSUME NEW r \in Rqsts, Cbk_Httpd_Accept(r)
      PROVE  Stagewise' /\ [X!Next]_Stage
  <2> DEFINE q == [rq[r] EXCEPT !.alive = TRUE]
             a == Tcp_Aio_Recv([q EXCEPT !.stage = "reading"], "head", q.cap, 1)
             b == [q EXCEPT !.stage = "REJECTED"]
  <2>1. rq[r].stage = "new" /\ (Replaced(r, a) \/ Replaced(r, b))
    BY <1>2 DEF Cbk_Httpd_Accept, Becomes, Replaced
  <2>2. Idle(q) /\ q.stage = "new" /\ q.instrm = "none"
    <3>1. IsRqst(q) /\ q.op = NoOp /\ q.flying = 0 /\ q.stage = "new" /\ q.instrm = "none"
      BY <1>1, <2>1 DEF Settled, StageOf, IsRqst, Fields, NoOp
    <3>2. "alive" \in DOMAIN rq[r]
      BY <1>1 DEF IsRqst, Fields
    <3>3. q.alive = TRUE
      BY <3>2, Zenon
    <3> QED
      BY <3>1, <3>3, Zenon DEF Idle, Living
  <2> HIDE DEF q
  <2>3. Goes(a, {"reading"}) /\ Goes(b, {"REJECTED"})
    BY <2>2 DEF Tcp_Aio_Recv, Asks, Goes, Settled, StageOf, Idle, IsRqst, Fields, NoOp, Over, X!Last
  <2> QED
    BY <2>1, <2>3, MoveStep DEF Goes, Moving
<1>3. ASSUME NEW r \in Rqsts, NEW n, GotRequest(r, n)
      PROVE  Stagewise' /\ [X!Next]_Stage /\ Kept
  <2>1. PICK s \in STRAYS :
          \E p \in Cbk_Httpd_Getting_Request(Arrived(rq[r], n), Incoming(rq[r], n), s) : Replaced(r, p)
    BY <1>3 DEF GotRequest, Becomes, Replaced
  <2>2. rq[r].op.kind = "head" /\ rq[r].stage = "reading" /\ rq[r].instrm = "none"
    BY <1>1, <1>3 DEF GotRequest, Waits, Settled, StageOf
  <2>3. PICK p \in Cbk_Httpd_Getting_Request(Arrived(rq[r], n), Incoming(rq[r], n), s) : Replaced(r, p)
    BY <2>1
  <2>4. Goes(p, Heard)
    BY <1>1, <2>2, ArrivedIdle, GettingRequestGoes
  <2>9. rq[r].alive = Living
    BY <1>1, <2>2 DEF Settled, Over, X!Last
  <2> QED
    BY <2>2, <2>3, <2>4, <2>9, MoveStep DEF Goes, Heard, Moving
<1>4. ASSUME NEW r \in Rqsts, NEW n, GotPostdta(r, n)
      PROVE  Stagewise' /\ [X!Next]_Stage /\ Kept
  <2>1. PICK p \in Cbk_Httpd_Getting_Postdta(Arrived(rq[r], n), Incoming(rq[r], n)) :
          Replaced(r, p)
    BY <1>4 DEF GotPostdta, Becomes, Replaced
  <2>2. rq[r].op.kind = "post" /\ rq[r].stage = IF rq[r].instrm = "none" THEN "reading" ELSE "storing"
    BY <1>1, <1>4 DEF GotPostdta, Waits, Settled, StageOf
  <2>3. Goes(p, {rq[r].stage, "storing", "performing", "responding"}
                  \cup IF rq[r].stage = "reading" THEN {"LONGRQST"} ELSE {})
    BY <1>1, <2>2, ArrivedIdle, GettingPostdtaGoes
  <2>9. rq[r].alive = Living
    BY <1>1, <2>2 DEF Settled, Over, X!Last
  <2> QED
    BY <2>1, <2>2, <2>3, <2>9, MoveStep DEF Goes, Moving
<1>5. ASSUME NEW r \in Rqsts, Sent(r)
      PROVE  Stagewise' /\ [X!Next]_Stage /\ Kept
  <2> DEFINE a == Answered(rq[r])
             d == [a EXCEPT !.wire = @ \o SubSeq(a.bf, 1, rq[r].op.len)]
  <2>1. PICK p \in Cbk_Httpd_Sending_Result(d) : Replaced(r, p)
    BY <1>5 DEF Sent, Becomes, Replaced
  <2>2. rq[r].op.kind = "send" /\ rq[r].stage = "responding"
    BY <1>1, <1>5 DEF Sent, Waits, Settled, StageOf
  <2>3. Idle(a) /\ a.stage = "responding"
    BY <1>1, <2>2, AnsweredIdle
  <2>4. Idle(d) /\ d.stage = "responding"
    <3> HIDE DEF a
    <3> QED BY <2>3 DEF Idle, IsRqst, Fields, NoOp
  <2>5. Goes(p, {"responding", "FINISHED"})
    BY <2>4, SendingGoes
  <2>9. rq[r].alive = Living
    BY <1>1, <2>2 DEF Settled, Over, X!Last
  <2> QED
    BY <2>1, <2>2, <2>5, <2>9, MoveStep DEF Goes, Moving
<1>6. ASSUME NEW r \in Rqsts, IOFail(r)
      PROVE  Stagewise' /\ [X!Next]_Stage /\ Kept
  <2>1. Replaced(r, Ends(Answered(rq[r]), "IOFAIL")) /\ rq[r].op.kind # "none"
    BY <1>6 DEF IOFail, Becomes, Replaced, Waits
  <2>2. rq[r].stage \in {"reading", "storing", "responding"}
    BY <1>1, <2>1 DEF Settled, StageOf
  <2>3. Goes(Ends(Answered(rq[r]), "IOFAIL"), {"IOFAIL"})
    BY <1>1, <2>1, AnsweredIdle, EndsGoes DEF Over, X!Last
  <2>9. rq[r].alive = Living
    BY <1>1, <2>2 DEF Settled, Over, X!Last
  <2> QED
    BY <2>1, <2>2, <2>3, <2>9, MoveStep DEF Goes, Moving
<1>7. ASSUME NEW r \in Rqsts, Continue(r)
      PROVE  Stagewise' /\ [X!Next]_Stage /\ Kept
  <2>1. PICK b \in Bodies : \E p \in Httpd_Continue_Request(rq[r], b) : Replaced(r, p)
    BY <1>7 DEF Continue, Becomes, Replaced
  <2>2. rq[r].stage = "performing" /\ Idle(rq[r])
    BY <1>1, <1>7 DEF Continue, Idle, Settled, StageOf, Over, X!Last
  <2>3. PICK p \in Httpd_Continue_Request(rq[r], b) : Replaced(r, p)
    BY <2>1
  <2>4. Goes(p, {"responding"})
    BY <2>2, ContinueGoes
  <2>9. rq[r].alive = Living
    BY <1>1, <2>2 DEF Settled, Over, X!Last
  <2> QED
    BY <2>2, <2>3, <2>4, <2>9, MoveStep DEF Goes, Moving
<1>8. ASSUME NEW r \in Rqsts, Destruct(r)
      PROVE  Stagewise' /\ [X!Next]_Stage
  <2> DEFINE d == [rq[r] EXCEPT !.alive = FALSE, !.closed = TRUE]
  <2>1. Replaced(r, d)
    BY <1>8 DEF Destruct, Becomes, Replaced
  <2>2. IsRqst(d) /\ Settled(d) /\ d.stage = rq[r].stage
    <3>1. rq[r].stage \in Over /\ "alive" \in DOMAIN rq[r]
      BY <1>1, <1>8 DEF Destruct, IsRqst, Fields
    <3>2. IsRqst(d) /\ d.stage = rq[r].stage /\ d.op = rq[r].op /\ d.flying = rq[r].flying
      BY <1>1 DEF IsRqst, Fields
    <3>3. d.alive = Unborn
      BY <3>1, Zenon DEF Unborn
    <3> HIDE DEF d
    <3> QED
      BY <1>1, <3>1, <3>2, <3>3 DEF Settled, StageOf, Over, X!Last
  <2> QED
    BY <2>1, <2>2, MoveStep DEF Moving
<1>9. ASSUME rq' = rq PROVE Stagewise' /\ [X!Next]_Stage /\ Kept
  BY <1>9 DEF Stagewise, Stage, Kept
<1> QED
  BY <1>2, <1>3, <1>4, <1>5, <1>6, <1>7, <1>8, <1>9 DEF Next, Handles, AcceptFails, Httpd_Shutdown, vars, svars

(* NotForgotten.                                                            *)
LEMMA StagewiseNotForgotten == Stagewise => NotForgotten
  BY DEF Stagewise, NotForgotten, Settled, StageOf, Alive, Over, X!Last

------------------------------------------------------------------------------
(* Sizes and data                                                          *)

Tokens == {"h", "old", "length", "\r\n"}
            \cup (UNION {ToSet(w[r].text) : w \in Wires, r \in Rqsts})
            \cup (UNION {ToSet(b.file) : b \in Bodies})

Sizes(q) ==
  /\ q.bf \in Seq(Tokens) /\ q.post \in Seq(Tokens) /\ q.wire \in Seq(Tokens)
  /\ q.got \in Nat /\ q.nline \in Nat /\ q.left \in Nat /\ q.read \in Nat /\ q.cap \in Nat
  /\ q.cap >= MAXBUF /\ Len(q.bf) <= q.cap
  /\ q.sent.text \in Seq(Tokens) /\ q.sent.length \in Nat
  /\ q.instrm \in {"none", "bf", "file"}

Room(q) ==
  /\ q.op.len \in Nat /\ q.op.min \in Nat
  /\ q.op.kind \in {"head", "post"} => Len(q.bf) + q.op.len <= q.cap
  /\ q.op.kind = "post" => q.op.len <= q.left
  /\ q.op.kind = "send" => q.op.len <= Len(q.bf)

Unsent(q) == q.read = 0 /\ q.wire = <<>>

Header == [i \in 1 .. HDR |-> "h"]

(* An answer of which sequence is what went out, or goes out with the call *)
(* in flight.                                                              *)
Answering(q, sequence) ==
  /\ DOMAIN q.out = {"kind", "length", "file"}
  /\ q.out.file \in Seq(Tokens) /\ q.read <= Len(q.out.file) /\ q.out.length \in Nat
  /\ q.out.kind = "known" => /\ q.out.length > 0 /\ q.left + q.read = q.out.length
                             /\ sequence = Header \o SubSeq(q.out.file, 1, q.read)

Bodied(q) ==
  /\ q.stage \in {"new", "reading", "storing", "performing"} => Unsent(q)
  /\ q.stage = "new" => q.bf = <<>>
  /\ q.stage = "responding" =>
       Answering(q, q.wire \o q.bf) /\ (q.out.kind = "known" => q.op.len = Len(q.bf))
  /\ q.stage = "FINISHED" /\ q.out.kind = "known" =>
       q.wire = Header \o SubSeq(q.out.file, 1, Min({q.out.length, Len(q.out.file)}))

Good(q) == IsRqst(q) /\ Sizes(q) /\ Room(q) /\ Bodied(q)

LEMMA MinTwo ==
  ASSUME NEW a \in Nat, NEW b \in Nat
  PROVE  Min({a, b}) \in {a, b} /\ Min({a, b}) <= a /\ Min({a, b}) <= b
<1>1. \E x \in {a, b} : \A y \in {a, b} : x <= y
  <2>1. CASE a <= b
    BY <2>1
  <2>2. CASE b <= a
    BY <2>2
  <2> QED
    BY <2>1, <2>2
<1> QED
  BY <1>1 DEF Min

LEMMA MinIs ==
  ASSUME NEW a \in Nat, NEW b \in Nat, a <= b
  PROVE  Min({a, b}) = a /\ Min({b, a}) = a
<1>1. Min({a, b}) \in {a, b} /\ Min({a, b}) <= a
  BY MinTwo
<1>2. {a, b} = {b, a}
  OBVIOUS
<1>3. Min({a, b}) = a
  BY <1>1
<1> QED
  BY <1>2, <1>3

LEMMA HeaderSeq == Header \in Seq(Tokens) /\ Len(Header) = HDR
  BY HttpdAssumption DEF Header, Tokens

LEMMA FileSeq == \A b \in Bodies : b.file \in Seq(Tokens)
<1> SUFFICES ASSUME NEW b \in Bodies PROVE b.file \in Seq(Tokens)
  OBVIOUS
<1>1. b.file \in Seq(ToSet(b.file))
  BY HttpdAssumption
<1>2. ToSet(b.file) \subseteq Tokens
  BY DEF Tokens
<1> QED
  BY <1>1, <1>2, SeqMonotonic

LEMMA TextSeq == \A w \in Wires, r \in Rqsts : w[r].text \in Seq(Tokens)
<1> SUFFICES ASSUME NEW w \in Wires, NEW r \in Rqsts PROVE w[r].text \in Seq(Tokens)
  OBVIOUS
<1>1. w[r].text \in Seq(ToSet(w[r].text))
  BY HttpdAssumption
<1>2. ToSet(w[r].text) \subseteq UNION {ToSet(v[x].text) : v \in Wires, x \in Rqsts}
  OBVIOUS
<1>3. ToSet(w[r].text) \subseteq Tokens
  BY <1>2 DEF Tokens
<1> QED
  BY <1>1, <1>3, SeqMonotonic

LEMMA SubSeqOf ==
  ASSUME NEW s \in Seq(Tokens), NEW m \in Nat \ {0}, NEW n \in Nat, n <= Len(s)
  PROVE  /\ SubSeq(s, m, n) \in Seq(Tokens)
         /\ Len(SubSeq(s, m, n)) = IF m <= n THEN n - m + 1 ELSE 0
<1>1. \A i \in m .. n : s[i] \in Tokens
  BY ElementOfSeq
<1> QED
  BY <1>1, SubSeqProperties

LEMMA ConcatLen ==
  \A s, t \in Seq(Tokens) : s \o t \in Seq(Tokens) /\ Len(s \o t) = Len(s) + Len(t)
  BY ConcatProperties

LEMMA ConcatAssoc == \A s, t, u \in Seq(Tokens) : (s \o t) \o u = s \o (t \o u)
  BY ConcatAssociative

LEMMA SubSeqFrom ==
  ASSUME NEW s \in Seq(Tokens), NEW k \in Nat, NEW n \in Nat, k + n <= Len(s)
  PROVE  SubSeq(s, k + 1, k + n) \in Seq(Tokens) /\ Len(SubSeq(s, k + 1, k + n)) = n
<1>1. k + 1 \in Nat \ {0} /\ k + n \in Nat
  OBVIOUS
<1> DEFINE a == k + 1
           b == k + n
<1> HIDE DEF a, b
<1>2. SubSeq(s, a, b) \in Seq(Tokens) /\ Len(SubSeq(s, a, b)) = IF a <= b THEN b - a + 1 ELSE 0
  BY <1>1, SubSeqOf DEF a, b
<1> QED
  BY <1>2 DEF a, b

(* What Oj_Read may return, and the data it returns.                       *)
LEMMA ReadData ==
  ASSUME NEW q, q.out.file \in Seq(Tokens), q.read \in Nat, q.read <= Len(q.out.file),
         NEW L \in Nat, NEW n \in Oj_Read(q, L)
  PROVE  /\ n \in Nat /\ n <= L /\ q.read + n <= Len(q.out.file)
         /\ n = 0 => L = 0 \/ q.read = Len(q.out.file)
         /\ Data(q, n) \in Seq(Tokens) /\ Len(Data(q, n)) = n
         /\ SubSeq(q.out.file, 1, q.read) \o Data(q, n) = SubSeq(q.out.file, 1, q.read + n)
<1> DEFINE F == q.out.file
           most == Min({L, Len(F) - q.read})
<1>1. Len(F) \in Nat
  BY LenProperties
<1>2. most \in {L, Len(F) - q.read} /\ most <= L /\ most <= Len(F) - q.read
  BY <1>1, MinTwo
<1>3. n \in IF most = 0 THEN {0} ELSE 1 .. most
  BY DEF Oj_Read
<1>4. n \in Nat /\ n <= most /\ (n = 0 => most = 0)
  BY <1>1, <1>2, <1>3
<1> HIDE DEF most
<1>5. n <= L /\ q.read + n <= Len(F) /\ (n = 0 => L = 0 \/ q.read = Len(F))
  BY <1>1, <1>2, <1>4
<1>6. Data(q, n) \in Seq(Tokens) /\ Len(Data(q, n)) = n
  BY <1>4, <1>5, SubSeqFrom DEF Data
<1>7. SubSeq(F, 1, q.read) \o SubSeq(F, q.read + 1, q.read + n) = SubSeq(F, 1, q.read + n)
  <2>1. 1 \in 1 .. Len(F) + 1 /\ q.read \in 1 - 1 .. Len(F) /\ q.read + n \in q.read .. Len(F)
    BY <1>1, <1>4, <1>5
  <2> QED
    BY <2>1, ConcatAdjacentSubSeq
<1> QED
  BY <1>4, <1>5, <1>6, <1>7 DEF Data

LEMMA EndsGood ==
  ASSUME NEW q, Idle(q), Sizes(q), NEW s \in Over \ {"FINISHED"}
  PROVE  Good(Ends(q, s))
<1> DEFINE d == Ends(q, s)
<1>1. IsRqst(d) /\ d.stage = s /\ d.op = NoOp
  BY DEF Idle, IsRqst, Fields, Ends
<1>2. Sizes(d)
  BY DEF Idle, IsRqst, Fields, Ends, Sizes
<1> HIDE DEF d
<1>3. Room(d) /\ Bodied(d)
  BY <1>1 DEF Room, Bodied, NoOp, Over, X!Last
<1> QED
  BY <1>1, <1>2, <1>3 DEF Good, d

LEMMA FinishGood ==
  ASSUME NEW q, Idle(q), Sizes(q),
         q.out.kind = "known" =>
           q.wire = Header \o SubSeq(q.out.file, 1, Min({q.out.length, Len(q.out.file)}))
  PROVE  Good(Ends(q, "FINISHED"))
<1> DEFINE d == Ends(q, "FINISHED")
<1>1. IsRqst(d) /\ d.stage = "FINISHED" /\ d.op = NoOp /\ d.out = q.out /\ d.wire = q.wire
  BY DEF Idle, IsRqst, Fields, Ends
<1>2. Sizes(d)
  BY DEF Idle, IsRqst, Fields, Ends, Sizes
<1> HIDE DEF d
<1>3. Room(d)
  BY <1>1 DEF Room, NoOp
<1>4. d.out.kind = "known" =>
        d.wire = Header \o SubSeq(d.out.file, 1, Min({d.out.length, Len(d.out.file)}))
  BY <1>1
<1>5. Bodied(d)
  BY <1>1, <1>4, Zenon DEF Bodied
<1> QED
  BY <1>1, <1>2, <1>3, <1>5 DEF Good, d

LEMMA SendGood ==
  ASSUME NEW q, Idle(q), Sizes(q), q.stage = "responding", Answering(q, q.wire \o q.bf),
         NEW n \in Nat, n <= Len(q.bf), q.out.kind = "known" => n = Len(q.bf)
  PROVE  Good(Tcp_Aio_Send(q, n))
<1> DEFINE d == Tcp_Aio_Send(q, n)
<1>1. /\ IsRqst(d) /\ d.stage = "responding" /\ d.op = [kind |-> "send", len |-> n, min |-> n]
      /\ d.out = q.out /\ d.wire = q.wire /\ d.bf = q.bf /\ d.read = q.read /\ d.left = q.left
  BY DEF Idle, IsRqst, Fields, Tcp_Aio_Send, Asks
<1>2. Sizes(d)
  BY DEF Idle, IsRqst, Fields, Tcp_Aio_Send, Asks, Sizes
<1> HIDE DEF d
<1>3. Room(d)
  BY <1>1 DEF Room
<1>4. Answering(d, d.wire \o d.bf)
  <2>1. d.wire \o d.bf = q.wire \o q.bf
    BY <1>1
  <2> QED
    BY <1>1, <2>1 DEF Answering
<1>5. d.out.kind = "known" => d.op.len = Len(d.bf)
  BY <1>1
<1>6. Bodied(d)
  BY <1>1, <1>4, <1>5 DEF Bodied
<1> QED
  BY <1>1, <1>2, <1>3, <1>6 DEF Good, d

LEMMA GenGood ==
  ASSUME NEW q, Idle(q), Sizes(q), Unsent(q), NEW body \in Bodies,
         NEW p \in Httpd_Gen_Response(q, body)
  PROVE  Idle(p) /\ Sizes(p) /\ p.stage = "responding" /\ Answering(p, p.wire \o p.bf)
<1> DEFINE h == [q EXCEPT !.stage = "responding", !.out = body, !.left = body.length, !.bf = Header]
<1>1. /\ DOMAIN body = {"kind", "length", "file"} /\ body.length \in Nat
      /\ (body.kind = "known" => body.length > 0)
  BY HttpdAssumption
<1>2. body.file \in Seq(Tokens) /\ Len(body.file) \in Nat
  BY FileSeq, LenProperties
<1>3. HDR \in Nat /\ HDR < MAXBUF /\ MAXBUF \in Nat
  BY HttpdAssumption
<1>4. Header \in Seq(Tokens) /\ Len(Header) = HDR
  BY HeaderSeq
<1>5. /\ Idle(h) /\ h.stage = "responding" /\ h.out = body /\ h.left = body.length
      /\ h.bf = Header /\ h.read = 0 /\ h.wire = <<>> /\ h.cap = q.cap
  BY DEF Idle, IsRqst, Fields, Unsent
<1>6. Sizes(h)
  <2>1. q.cap \in Nat /\ q.cap >= MAXBUF
    BY DEF Sizes
  <2>2. HDR <= q.cap
    BY <1>3, <2>1
  <2> HIDE DEF Header
  <2> QED
    BY <1>1, <1>4, <2>1, <2>2 DEF Sizes, Idle, IsRqst, Fields
<1> HIDE DEF h, Header
<1>7. \A s \in Seq(Tokens) : <<>> \o s = s /\ s \o <<>> = s
  BY ConcatEmptySeq
<1>8. Answering(h, h.wire \o h.bf)
  <2>1. h.read <= Len(h.out.file)
    BY <1>2, <1>5
  <2>2. SubSeq(h.out.file, 1, h.read) = <<>>
    BY <1>5, SubSeqEmpty
  <2>3. h.wire \o h.bf = Header \o SubSeq(h.out.file, 1, h.read)
    BY <1>4, <1>5, <1>7, <2>2
  <2>4. h.left + h.read = h.out.length
    BY <1>1, <1>5
  <2> QED
    BY <1>1, <1>2, <1>5, <2>1, <2>3, <2>4 DEF Answering
<1>9. ASSUME NEW n \in Oj_Read(h, body.length), body.length <= q.cap - HDR,
             p = [h EXCEPT !.bf = @ \o Data(h, n), !.read = n, !.left = @ - n]
      PROVE  Idle(p) /\ Sizes(p) /\ p.stage = "responding" /\ Answering(p, p.wire \o p.bf)
  <2>1. h.out.file \in Seq(Tokens) /\ h.read \in Nat /\ h.read <= Len(h.out.file)
    BY <1>2, <1>5
  <2>2. /\ n \in Nat /\ n <= body.length /\ h.read + n <= Len(h.out.file)
        /\ Data(h, n) \in Seq(Tokens) /\ Len(Data(h, n)) = n
        /\ SubSeq(h.out.file, 1, h.read) \o Data(h, n) = SubSeq(h.out.file, 1, h.read + n)
    BY <1>1, <2>1, ReadData
  <2>3. SubSeq(h.out.file, 1, h.read) = <<>> /\ h.read + n = n
    BY <1>5, <2>2, SubSeqEmpty
  <2>4. Data(h, n) = SubSeq(h.out.file, 1, n)
    BY <1>7, <2>2, <2>3
  <2>5. Header \o Data(h, n) \in Seq(Tokens) /\ Len(Header \o Data(h, n)) = HDR + n
    BY <1>4, <2>2, ConcatLen
  <2>6. HDR + n <= q.cap /\ body.length - n \in Nat /\ q.cap \in Nat
    <3>1. q.cap \in Nat
      BY DEF Sizes
    <3> QED
      BY <1>1, <1>3, <1>9, <2>2, <3>1
  <2>7. /\ Idle(p) /\ p.stage = "responding" /\ p.bf = Header \o Data(h, n) /\ p.read = n
        /\ p.left = body.length - n /\ p.out = body /\ p.wire = <<>>
    BY <1>5, <1>9 DEF Idle, IsRqst, Fields
  <2>8. Sizes(p)
    <3>1. /\ p.post = h.post /\ p.wire = h.wire /\ p.got = h.got /\ p.nline = h.nline
          /\ p.cap = h.cap /\ p.sent = h.sent /\ p.instrm = h.instrm
      BY <1>5, <1>9 DEF Idle, IsRqst, Fields
    <3> QED
      BY <1>5, <1>6, <2>2, <2>5, <2>6, <2>7, <3>1 DEF Sizes
  <2>9. p.wire \o p.bf = Header \o SubSeq(p.out.file, 1, p.read)
    BY <1>5, <1>7, <2>4, <2>5, <2>7
  <2>10. p.left + p.read = p.out.length /\ p.read <= Len(p.out.file)
    BY <1>1, <1>5, <2>2, <2>3, <2>6, <2>7
  <2> QED
    BY <1>1, <1>2, <2>7, <2>8, <2>9, <2>10 DEF Answering
<1>10. \/ p = h
       \/ body.length <= q.cap - HDR /\ \E n \in Oj_Read(h, body.length) :
            p = [h EXCEPT !.bf = @ \o Data(h, n), !.read = n, !.left = @ - n]
  <2>1. ~ (body.length > q.cap - HDR) => body.length <= q.cap - HDR
    BY <1>1, <1>3 DEF Sizes
  <2> QED
    BY <2>1 DEF Httpd_Gen_Response, h, Header
<1> QED
  BY <1>5, <1>6, <1>8, <1>9, <1>10

LEMMA ContinueGood ==
  ASSUME NEW q, Idle(q), Sizes(q), Unsent(q), NEW body \in Bodies,
         NEW p \in Httpd_Continue_Request(q, body)
  PROVE  Good(p)
<1>1. PICK a \in Httpd_Gen_Response(q, body) : p = Tcp_Aio_Send(a, Len(a.bf))
  BY DEF Httpd_Continue_Request
<1>2. Idle(a) /\ Sizes(a) /\ a.stage = "responding" /\ Answering(a, a.wire \o a.bf)
  BY GenGood
<1>3. Len(a.bf) \in Nat
  BY <1>2, LenProperties DEF Sizes
<1> QED
  BY <1>1, <1>2, <1>3, SendGood

LEMMA ChunkSeq ==
  ASSUME NEW q, NEW n \in Nat, Data(q, n) \in Seq(Tokens), Len(Data(q, n)) = n
  PROVE  Chunk(q, n) \in Seq(Tokens) /\ Len(Chunk(q, n)) = PREFIX + n + 1
<1> DEFINE old == [i \in 1 .. PREFIX - 1 |-> "old"]
<1>1. PREFIX \in Nat /\ PREFIX > 0
  BY HttpdAssumption
<1>2. old \in Seq(Tokens) /\ Len(old) = PREFIX - 1
  BY <1>1 DEF Tokens
<1>3. <<"length">> \in Seq(Tokens) /\ Len(<<"length">>) = 1
  BY DEF Tokens
<1>4. <<"\r\n">> \in Seq(Tokens) /\ Len(<<"\r\n">>) = 1
  BY DEF Tokens
<1> HIDE DEF old
<1>5. old \o <<"length">> \in Seq(Tokens) /\ Len(old \o <<"length">>) = PREFIX
  BY <1>1, <1>2, <1>3, ConcatLen
<1>6. /\ old \o <<"length">> \o Data(q, n) \in Seq(Tokens)
      /\ Len(old \o <<"length">> \o Data(q, n)) = PREFIX + n
  BY <1>5, ConcatLen
<1>7. /\ old \o <<"length">> \o Data(q, n) \o <<"\r\n">> \in Seq(Tokens)
      /\ Len(old \o <<"length">> \o Data(q, n) \o <<"\r\n">>) = PREFIX + n + 1
  BY <1>1, <1>4, <1>6, ConcatLen
<1> QED
  BY <1>7 DEF Chunk, old

(* What is on the wire before the next piece of an answer is read.         *)
Flushed(q) == Idle(q) /\ Sizes(q) /\ q.stage = "responding" /\ Answering(q, q.wire)

LEMMA SendChunkGood ==
  ASSUME NEW q, Flushed(q), q.out.kind # "known",
         NEW n \in Oj_Read(q, q.cap - PREFIX - 1)
  PROVE  Good(SendChunk(q, n))
<1> DEFINE d == [q EXCEPT !.bf = Chunk(q, n), !.read = @ + n,
                          !.out.length = IF n = 0 THEN 1 ELSE @,
                          !.left = IF n = 0 THEN 0 ELSE @]
<1>1. q.cap \in Nat /\ PREFIX \in Nat /\ q.cap - PREFIX - 1 \in Nat
  BY HttpdAssumption DEF Flushed, Sizes
<1>2. q.out.file \in Seq(Tokens) /\ q.read \in Nat /\ q.read <= Len(q.out.file)
        /\ q.out.length \in Nat /\ DOMAIN q.out = {"kind", "length", "file"}
  BY DEF Flushed, Sizes, Answering
<1>3. /\ n \in Nat /\ n <= q.cap - PREFIX - 1 /\ q.read + n <= Len(q.out.file)
      /\ Data(q, n) \in Seq(Tokens) /\ Len(Data(q, n)) = n
  BY <1>1, <1>2, ReadData
<1>4. Chunk(q, n) \in Seq(Tokens) /\ Len(Chunk(q, n)) = PREFIX + n + 1
  BY <1>3, ChunkSeq
<1>5. /\ Idle(d) /\ d.stage = "responding" /\ d.bf = Chunk(q, n) /\ d.read = q.read + n
      /\ d.left = IF n = 0 THEN 0 ELSE q.left
      /\ d.post = q.post /\ d.wire = q.wire /\ d.got = q.got /\ d.nline = q.nline
      /\ d.cap = q.cap /\ d.sent = q.sent /\ d.instrm = q.instrm
      /\ d.out = [q.out EXCEPT !.length = IF n = 0 THEN 1 ELSE @]
  BY DEF Flushed, Idle, IsRqst, Fields
<1> HIDE DEF d
<1>6. /\ DOMAIN d.out = {"kind", "length", "file"} /\ d.out.kind = q.out.kind
      /\ d.out.file = q.out.file /\ d.out.length \in Nat
  BY <1>2, <1>5
<1>7. Answering(d, d.wire \o d.bf)
  BY <1>2, <1>3, <1>5, <1>6 DEF Answering
<1>8. PREFIX + n + 1 <= q.cap /\ q.read + n \in Nat /\ n <= PREFIX + n + 1
  BY <1>1, <1>2, <1>3
<1>9. Sizes(d)
  BY <1>4, <1>5, <1>8 DEF Sizes, Flushed
<1>10. Good(Tcp_Aio_Send(d, n))
  BY <1>3, <1>4, <1>5, <1>6, <1>7, <1>8, <1>9, SendGood
<1> QED
  BY <1>10 DEF SendChunk, d

LEMMA SendMoreGood ==
  ASSUME NEW q, Flushed(q), q.left # 0, NEW n \in Oj_Read(q, Min({q.left, q.cap}))
  PROVE  Good(SendMore(q, n))
<1> DEFINE d == [q EXCEPT !.bf = Data(q, n), !.read = @ + n, !.left = @ - n]
           L == Min({q.left, q.cap})
<1>1. q.left \in Nat /\ q.cap \in Nat /\ q.cap > 0 /\ Sizes(q)
  BY HttpdAssumption DEF Flushed, Sizes
<1>2. L \in Nat /\ L # 0 /\ L <= q.left /\ L <= q.cap
  BY <1>1, MinTwo
<1>3. q.out.file \in Seq(Tokens) /\ q.read \in Nat /\ q.read <= Len(q.out.file)
        /\ q.out.length \in Nat /\ DOMAIN q.out = {"kind", "length", "file"}
  BY DEF Flushed, Sizes, Answering
<1>4. /\ n \in Nat /\ n <= L /\ q.read + n <= Len(q.out.file)
      /\ n = 0 => q.read = Len(q.out.file)
      /\ Data(q, n) \in Seq(Tokens) /\ Len(Data(q, n)) = n
      /\ SubSeq(q.out.file, 1, q.read) \o Data(q, n) = SubSeq(q.out.file, 1, q.read + n)
  BY <1>2, <1>3, ReadData
<1> HIDE DEF L
<1>5. CASE n = 0
  <2>1. Min({q.out.length, Len(q.out.file)}) = q.read \/ q.out.kind # "known"
    <3>1. SUFFICES ASSUME q.out.kind = "known" PROVE Min({q.out.length, q.read}) = q.read
      BY <1>4, <1>5
    <3>2. q.left + q.read = q.out.length
      BY <3>1 DEF Flushed, Answering
    <3>3. q.read <= q.out.length
      BY <1>1, <1>3, <3>2
    <3> QED
      BY <1>3, <3>3, MinIs
  <2>2. q.out.kind = "known" => q.wire = Header \o SubSeq(q.out.file, 1, q.read)
    BY DEF Flushed, Answering
  <2>3. Good(Ends(q, "FINISHED"))
    BY <2>1, <2>2, FinishGood DEF Flushed
  <2> QED
    BY <1>5, <2>3 DEF SendMore
<1>6. CASE n # 0
  <2>1. /\ Idle(d) /\ d.stage = "responding" /\ d.bf = Data(q, n) /\ d.read = q.read + n
        /\ d.left = q.left - n /\ d.out = q.out
        /\ d.post = q.post /\ d.wire = q.wire /\ d.got = q.got /\ d.nline = q.nline
        /\ d.cap = q.cap /\ d.sent = q.sent /\ d.instrm = q.instrm
    BY DEF Flushed, Idle, IsRqst, Fields
  <2> HIDE DEF d
  <2>2. q.read + n \in Nat /\ q.left - n \in Nat /\ n <= q.cap
    BY <1>1, <1>2, <1>3, <1>4
  <2>3. Sizes(d)
    BY <1>1, <1>4, <2>1, <2>2 DEF Sizes
  <2>4. ASSUME q.out.kind = "known"
        PROVE  q.wire \o Data(q, n) = Header \o SubSeq(q.out.file, 1, q.read + n)
    <3>1. q.wire = Header \o SubSeq(q.out.file, 1, q.read)
      BY <2>4 DEF Flushed, Answering
    <3>2. SubSeq(q.out.file, 1, q.read) \in Seq(Tokens)
      <4>1. 1 \in Nat \ {0}
        OBVIOUS
      <4> QED
        BY <1>3, <4>1, SubSeqOf
    <3>3. (Header \o SubSeq(q.out.file, 1, q.read)) \o Data(q, n)
            = Header \o (SubSeq(q.out.file, 1, q.read) \o Data(q, n))
      <4>1. Header \in Seq(Tokens) /\ Data(q, n) \in Seq(Tokens)
        BY <1>4, HeaderSeq
      <4> QED
        BY <3>2, <4>1, ConcatAssoc
    <3> QED
      BY <1>4, <3>1, <3>3
  <2>5. q.out.kind = "known" => q.out.length > 0 /\ q.left - n + (q.read + n) = q.out.length
    BY <1>1, <1>3, <1>4 DEF Flushed, Answering
  <2>6. Answering(d, d.wire \o d.bf)
    BY <1>3, <1>4, <2>1, <2>4, <2>5 DEF Answering
  <2>7. Good(Tcp_Aio_Send(d, n))
    <3>1. n <= Len(d.bf) /\ n = Len(d.bf)
      BY <1>4, <2>1
    <3> QED
      BY <1>4, <2>1, <2>3, <2>6, <3>1, SendGood
  <2> QED
    BY <1>6, <2>7 DEF SendMore, d
<1> QED
  BY <1>5, <1>6

LEMMA SendingGood ==
  ASSUME NEW q, Flushed(q), NEW p \in Cbk_Httpd_Sending_Result(q)
  PROVE  Good(p)
<1>1. Idle(q) /\ Sizes(q)
  BY DEF Flushed
<1>2. CASE q.out.kind = "none"
  BY <1>1, <1>2, FinishGood DEF Cbk_Httpd_Sending_Result
<1>3. CASE q.out.kind # "none" /\ q.out.length # 0 /\ q.left = 0
  <2>1. ASSUME q.out.kind = "known"
        PROVE  q.wire = Header \o SubSeq(q.out.file, 1, Min({q.out.length, Len(q.out.file)}))
    <3>1. /\ q.out.file \in Seq(Tokens) /\ q.read \in Nat /\ q.read <= Len(q.out.file)
          /\ q.left + q.read = q.out.length
          /\ q.wire = Header \o SubSeq(q.out.file, 1, q.read)
      BY <2>1 DEF Flushed, Sizes, Answering
    <3>2. q.read = q.out.length /\ Len(q.out.file) \in Nat
      BY <1>3, <3>1, LenProperties
    <3>3. Min({q.out.length, Len(q.out.file)}) = q.read
      BY <3>1, <3>2, MinIs
    <3> QED
      BY <3>1, <3>3
  <2> QED
    BY <1>1, <1>3, <2>1, FinishGood DEF Cbk_Httpd_Sending_Result
<1>4. CASE q.out.kind # "none" /\ q.out.length # 0 /\ q.left # 0
  BY <1>4, SendMoreGood DEF Cbk_Httpd_Sending_Result
<1>5. CASE q.out.kind # "none" /\ q.out.length = 0
  <2>1. q.out.kind # "known"
    BY <1>5 DEF Flushed, Answering
  <2> QED
    BY <1>5, <2>1, SendChunkGood DEF Cbk_Httpd_Sending_Result
<1> QED
  BY <1>2, <1>3, <1>4, <1>5

------------------------------------------------------------------------------
(* The request                                                             *)

Coming == {"reading", "storing"}
Takes(q) == Idle(q) /\ Sizes(q) /\ Unsent(q) /\ q.stage \in Coming

LEMMA PerformGood ==
  ASSUME NEW q, Takes(q), NEW p \in Httpd_Perform_Request(q)
  PROVE  Good(p)
<1> DEFINE d == IF q.sent.method = "POST" /\ q.instrm = "none"
                THEN [q EXCEPT !.instrm = "bf", !.post = q.bf] ELSE q
<1>1. Idle(d) /\ Sizes(d) /\ Unsent(d)
  BY DEF Takes, Idle, IsRqst, Fields, Sizes, Unsent
<1> HIDE DEF d
<1>2. CASE p = [d EXCEPT !.stage = "performing"]
  <2>1. /\ IsRqst(p) /\ p.stage = "performing" /\ p.op = NoOp /\ p.read = d.read /\ p.wire = d.wire
    BY <1>1, <1>2 DEF Idle, IsRqst, Fields
  <2>2. Sizes(p)
    BY <1>1, <1>2 DEF Idle, IsRqst, Fields, Sizes
  <2>3. Room(p) /\ Bodied(p)
    BY <1>1, <2>1 DEF Room, Bodied, NoOp, Unsent
  <2> QED
    BY <2>1, <2>2, <2>3 DEF Good
<1>3. CASE \E b \in Bodies : p \in Httpd_Continue_Request(d, b)
  BY <1>1, <1>3, ContinueGood
<1> QED
  BY <1>2, <1>3 DEF Httpd_Perform_Request, d

LEMMA RecvPostdtaGood ==
  ASSUME NEW q, Takes(q), NEW n \in 0 .. MAXPOST + GROW
  PROVE  Good(RecvPostdta(Buffer_Grow_Reserve(q, n)))
<1> DEFINE d == Buffer_Grow_Reserve(q, n)
           L == Min({d.cap - Len(d.bf), d.left})
           p == RecvPostdta(d)
<1>1. n \in Nat /\ Pow2(n) \in Nat /\ Pow2(n) >= n
  BY PowersAssumption, HttpdAssumption
<1>2. /\ Idle(d) /\ d.cap = IF q.cap < n THEN Pow2(n) ELSE q.cap
      /\ d.stage = q.stage /\ d.bf = q.bf /\ d.left = q.left /\ d.read = q.read /\ d.wire = q.wire
      /\ d.post = q.post /\ d.got = q.got /\ d.nline = q.nline /\ d.sent = q.sent
      /\ d.instrm = q.instrm
  BY DEF Takes, Idle, IsRqst, Fields, Buffer_Grow_Reserve
<1> HIDE DEF d
<1>3. d.cap \in Nat /\ d.cap >= q.cap
  BY <1>1, <1>2 DEF Takes, Sizes
<1>4. Len(d.bf) \in Nat /\ Len(d.bf) <= q.cap /\ q.cap \in Nat /\ q.cap >= MAXBUF
        /\ MAXBUF \in Nat /\ d.left \in Nat
  BY <1>2, HttpdAssumption, LenProperties DEF Takes, Sizes
<1>5. Sizes(d)
  <2>1. d.cap >= MAXBUF /\ Len(d.bf) <= d.cap
    BY <1>3, <1>4
  <2> QED
    BY <1>2, <1>3, <2>1 DEF Takes, Sizes
<1>6. d.cap - Len(d.bf) \in Nat
  BY <1>3, <1>4
<1>7. L \in Nat /\ L <= d.left /\ L <= d.cap - Len(d.bf)
  BY <1>4, <1>6, MinTwo
<1>8. /\ IsRqst(p) /\ p.op = [kind |-> "post", len |-> L, min |-> L] /\ p.stage = d.stage
      /\ p.bf = d.bf /\ p.cap = d.cap /\ p.left = d.left /\ p.read = d.read /\ p.wire = d.wire
  BY <1>2 DEF RecvPostdta, Tcp_Aio_Recv, Asks, Idle, IsRqst, Fields
<1>9. Sizes(p)
  BY <1>2, <1>5 DEF RecvPostdta, Tcp_Aio_Recv, Asks, Idle, IsRqst, Fields, Sizes
<1> HIDE DEF p, L
<1>10. Len(p.bf) + L <= p.cap
  BY <1>3, <1>4, <1>7, <1>8
<1>11. Room(p)
  BY <1>7, <1>8, <1>10 DEF Room
<1>12. Bodied(p)
  BY <1>2, <1>8 DEF Bodied, Takes, Unsent, Coming
<1> QED
  BY <1>8, <1>9, <1>11, <1>12 DEF Good, p, d

LEMMA PostOrPerformGood ==
  ASSUME NEW q, Takes(q), Len(q.bf) <= MAXPOST, NEW p \in PostOrPerform(q)
  PROVE  Good(p)
<1>1. q.stage \notin Over
  BY DEF Takes, Coming, Over, X!Last
<1>2. Len(q.bf) + GROW \in 0 .. MAXPOST + GROW
  <2>1. Len(q.bf) \in Nat
    BY LenProperties DEF Takes, Sizes
  <2>2. MAXPOST \in Nat /\ GROW \in Nat
    BY HttpdAssumption
  <2> QED
    BY <2>1, <2>2
<1>3. Good(RecvPostdta(Buffer_Grow_Reserve(q, Len(q.bf) + GROW)))
  BY <1>2, RecvPostdtaGood
<1> QED
  BY <1>1, <1>3, PerformGood DEF PostOrPerform

(* A request as its callback finds it, with the data that arrived.         *)
LEMMA TakesMore ==
  ASSUME NEW q, Takes(q), NEW bytes \in Seq(Tokens), Len(q.bf) + Len(bytes) <= q.cap
  PROVE  /\ q.bf \o bytes \in Seq(Tokens) /\ Len(q.bf \o bytes) = Len(q.bf) + Len(bytes)
         /\ Takes([q EXCEPT !.bf = @ \o bytes])
<1>1. q.bf \in Seq(Tokens)
  BY DEF Takes, Sizes
<1>2. q.bf \o bytes \in Seq(Tokens) /\ Len(q.bf \o bytes) = Len(q.bf) + Len(bytes)
  BY <1>1, ConcatLen
<1> QED
  BY <1>2 DEF Takes, Idle, IsRqst, Fields, Sizes, Unsent

LEMMA StoredTakes ==
  ASSUME NEW q, Takes(q), NEW s \in {q, [q EXCEPT !.stage = "storing"]}
  PROVE  Takes(Stored(s)) /\ Stored(s).bf = <<>>
<1>1. q.post \o q.bf \in Seq(Tokens)
  BY ConcatLen DEF Takes, Sizes
<1>2. Takes(s) /\ s.post \o s.bf \in Seq(Tokens)
  BY <1>1 DEF Takes, Idle, IsRqst, Fields, Sizes, Unsent, Coming
<1>3. <<>> \in Seq(Tokens) /\ Len(<<>>) = 0
  BY EmptySeq
<1> DEFINE d == Stored(s)
<1>4. /\ Idle(d) /\ d.stage = s.stage /\ d.bf = <<>> /\ d.post = s.post \o s.bf
      /\ d.wire = s.wire /\ d.got = s.got /\ d.nline = s.nline /\ d.left = s.left
      /\ d.read = s.read /\ d.cap = s.cap /\ d.sent = s.sent /\ d.instrm = "file"
  BY <1>2 DEF Takes, Idle, IsRqst, Fields, Stored
<1> HIDE DEF d
<1>5. Len(d.bf) <= d.cap
  BY <1>2, <1>3, <1>4 DEF Takes, Sizes
<1>6. Sizes(d)
  BY <1>2, <1>3, <1>4, <1>5 DEF Takes, Sizes
<1> QED
  BY <1>2, <1>4, <1>6 DEF Takes, Unsent, d

LEMMA GettingPostdtaGood ==
  ASSUME NEW q, Takes(q), NEW bytes \in Seq(Tokens), Len(q.bf) + Len(bytes) <= q.cap,
         Len(bytes) <= q.left, NEW p \in Cbk_Httpd_Getting_Postdta(q, bytes)
  PROVE  Good(p)
<1> DEFINE c == [q EXCEPT !.bf = @ \o bytes]
           d == [q EXCEPT !.bf = @ \o bytes, !.left = @ - Len(bytes)]
<1>1. Takes(c)
  BY TakesMore
<1>2. q.left - Len(bytes) \in Nat
  BY LenProperties DEF Takes, Sizes
<1>3. Takes(d)
  BY <1>1, <1>2 DEF Takes, Idle, IsRqst, Fields, Sizes, Unsent
<1> HIDE DEF d
<1>4. CASE p \in PostOrPerform(d) /\ Len(d.bf) <= MAXPOST
  BY <1>3, <1>4, PostOrPerformGood
<1>5. ASSUME NEW s \in Store(d), p \in PostOrPerform(s)
      PROVE  Good(p)
  <2>1. CASE s = Ends(d, "LONGRQST")
    <3>1. s.stage = "LONGRQST" /\ Good(s)
      BY <1>3, <2>1, EndsGood DEF Ends, Takes, Idle, IsRqst, Fields, Over, X!Last
    <3>2. p = s
      BY <1>5, <3>1 DEF PostOrPerform, Over, X!Last
    <3> QED
      BY <3>1, <3>2
  <2>2. CASE s = Stored(d) \/ s = Stored([d EXCEPT !.stage = "storing"])
    <3>1. Takes(s) /\ s.bf = <<>>
      BY <1>3, <2>2, StoredTakes
    <3>2. Len(s.bf) <= MAXPOST
      BY <3>1, HttpdAssumption
    <3> QED
      BY <1>5, <3>1, <3>2, PostOrPerformGood
  <2> QED
    BY <2>1, <2>2 DEF Store
<1>6. Len(d.bf) \in Nat /\ MAXPOST \in Nat
  BY <1>3, LenProperties, HttpdAssumption DEF Takes, Sizes
<1>7. \/ p \in PostOrPerform(d) /\ Len(d.bf) <= MAXPOST
      \/ \E s \in Store(d) : p \in PostOrPerform(s)
  BY <1>6 DEF Cbk_Httpd_Getting_Postdta, d
<1> QED
  BY <1>4, <1>5, <1>7

LEMMA AnalyzeGood ==
  ASSUME NEW q, Takes(q), NEW h \in Nat, NEW p \in Httpd_Analyze(q, h)
  PROVE  Good(p)
<1> DEFINE a == [q EXCEPT !.nline = h]
<1>1. Takes(a)
  BY DEF Takes, Idle, IsRqst, Fields, Sizes, Unsent
<1> HIDE DEF a
<1>2. CASE q.sent.method = "BAD"
  BY <1>1, <1>2, EndsGood DEF Httpd_Analyze, Takes, Over, X!Last, a
<1>3. CASE q.sent.method = "GET"
  BY <1>1, <1>3, PerformGood DEF Httpd_Analyze, a
<1>4. CASE q.sent.method \notin {"BAD", "GET"}
  <2> DEFINE rest == SubSeq(q.bf, h + 1, Len(q.bf))
             d == [q EXCEPT !.nline = h, !.bf = rest, !.left = q.sent.length]
             e == [d EXCEPT !.bf = SubSeq(rest, 1, d.left)]
             f == [d EXCEPT !.left = @ - Len(rest)]
  <2>1. q.bf \in Seq(Tokens) /\ Len(q.bf) \in Nat /\ Len(q.bf) <= q.cap /\ q.cap \in Nat
    BY LenProperties DEF Takes, Sizes
  <2>2. h + 1 \in Nat \ {0}
    OBVIOUS
  <2>3. rest \in Seq(Tokens) /\ Len(rest) \in Nat /\ Len(rest) <= Len(q.bf)
    <3>1. rest \in Seq(Tokens)
            /\ Len(rest) = IF h + 1 <= Len(q.bf) THEN Len(q.bf) - (h + 1) + 1 ELSE 0
      BY <2>1, <2>2, SubSeqOf
    <3> QED
      BY <2>1, <3>1
  <2> HIDE DEF rest
  <2>4. Len(rest) <= q.cap /\ q.sent.length \in Nat
    BY <2>1, <2>3 DEF Takes, Sizes
  <2>5. Takes(d) /\ d.left = q.sent.length /\ d.bf = rest /\ d.cap = q.cap
    BY <2>3, <2>4 DEF Takes, Idle, IsRqst, Fields, Sizes, Unsent
  <2>6. \/ Len(rest) >= d.left /\ p \in Httpd_Perform_Request(e)
        \/ ~ (Len(rest) >= d.left) /\ p = RecvPostdta(Buffer_Grow_Reserve(f, MAXPOST))
    BY <1>4 DEF Httpd_Analyze, rest
  <2> HIDE DEF d
  <2>7. ASSUME Len(rest) >= d.left PROVE Takes(e)
    <3>1. 1 \in Nat \ {0} /\ d.left \in Nat /\ d.left <= Len(rest)
      BY <2>3, <2>4, <2>5, <2>7
    <3>2. SubSeq(rest, 1, d.left) \in Seq(Tokens)
            /\ Len(SubSeq(rest, 1, d.left)) = IF 1 <= d.left THEN d.left - 1 + 1 ELSE 0
      BY <2>3, <3>1, SubSeqOf
    <3>3. Len(SubSeq(rest, 1, d.left)) <= q.cap
      BY <2>1, <2>3, <2>4, <3>1, <3>2
    <3> QED
      BY <2>5, <3>2, <3>3 DEF Takes, Idle, IsRqst, Fields, Sizes, Unsent
  <2>8. ASSUME ~ (Len(rest) >= d.left) PROVE Takes(f)
    <3>1. d.left - Len(rest) \in Nat
      BY <2>3, <2>4, <2>5, <2>8
    <3> QED
      BY <2>5, <3>1 DEF Takes, Idle, IsRqst, Fields, Sizes, Unsent
  <2>9. MAXPOST \in 0 .. MAXPOST + GROW
    BY HttpdAssumption
  <2> HIDE DEF e, f
  <2> QED
    BY <2>6, <2>7, <2>8, <2>9, PerformGood, RecvPostdtaGood
<1> QED
  BY <1>2, <1>3, <1>4

(* Places in the buffer                                                    *)

LEMMA Lowest ==
  ASSUME NEW S, S \subseteq Nat, S # {}
  PROVE  Min(S) \in S /\ \A x \in S : Min(S) <= x
<1>1. PICK x \in S : \A y \in S : ~ (<<y, x>> \in OpToRel(<, Nat))
  BY WFMin, NatLessThanWellFounded
<1>2. \A y \in S : ~ (y < x)
  BY <1>1 DEF OpToRel
<1>3. \A y \in S : x <= y
  BY <1>2
<1> QED
  BY <1>3 DEF Min

LEMMA Highest ==
  ASSUME NEW k \in Nat, NEW S, S \subseteq 0 .. k, S # {}
  PROVE  Max(S) \in S /\ \A x \in S : x <= Max(S)
<1> DEFINE T == {k - x : x \in S}
<1>1. T \subseteq Nat /\ T # {}
  <2>1. \A x \in S : x \in Nat /\ k - x \in Nat
    OBVIOUS
  <2> QED
    BY <2>1
<1>2. Min(T) \in T /\ \A y \in T : Min(T) <= y
  <2> HIDE DEF T
  <2> QED
    BY <1>1, Lowest
<1>3. PICK x \in S : Min(T) = k - x
  BY <1>2
<1>4. \A y \in S : k - x <= k - y
  BY <1>2, <1>3
<1>5. \A y \in S : y <= x
  BY <1>4
<1> QED
  BY <1>5 DEF Max

LEMMA ScanPlaces ==
  ASSUME NEW bf \in Seq(Tokens), NEW stray \in STRAYS, NEW nline \in Nat
  PROVE  LET at == bf \o stray
         IN  /\ Max({nline} \cup LineEnds(at, nline)) \in Nat
             /\ HeadEnds(at, nline) # {} => Min(HeadEnds(at, nline)) \in Nat
<1> DEFINE at == bf \o stray
           Both == Tokens \cup ToSet(stray)
           S == {nline} \cup LineEnds(at, nline)
<1>1. bf \in Seq(Both)
  BY SeqMonotonic
<1>2. stray \in Seq(Both)
  <2>1. stray \in Seq(ToSet(stray))
    BY HttpdAssumption
  <2> QED
    BY <2>1, SeqMonotonic
<1> HIDE DEF Both
<1>3. at \in Seq(Both)
  BY <1>1, <1>2, ConcatProperties
<1> HIDE DEF at
<1>4. Len(at) \in Nat
  BY <1>3, LenProperties
<1>5. LineEnds(at, nline) \subseteq 0 .. Len(at)
  BY <1>4 DEF LineEnds
<1>6. S \subseteq 0 .. nline + Len(at) /\ S # {} /\ nline + Len(at) \in Nat
  BY <1>4, <1>5
<1>7. Max(S) \in S
  <2> HIDE DEF S
  <2> QED
    BY <1>6, Highest
<1>8. Max(S) \in Nat
  BY <1>6, <1>7
<1>9. HeadEnds(at, nline) \subseteq Nat
  <2>1. HeadEnds(at, nline) \subseteq LineEnds(at, nline)
    BY DEF HeadEnds
  <2> QED
    BY <1>4, <1>5, <2>1
<1>10. HeadEnds(at, nline) # {} => Min(HeadEnds(at, nline)) \in Nat
  BY <1>9, Lowest
<1> QED
  BY <1>8, <1>10 DEF at

LEMMA GettingRequestGood ==
  ASSUME NEW q, Takes(q), q.stage = "reading", NEW bytes \in Seq(Tokens),
         Len(q.bf) + Len(bytes) <= q.cap, NEW stray \in STRAYS,
         NEW p \in Cbk_Httpd_Getting_Request(q, bytes, stray)
  PROVE  Good(p)
<1> DEFINE d == [q EXCEPT !.bf = @ \o bytes]
           at == d.bf \o stray
           e == [d EXCEPT !.nline = Max({@} \cup LineEnds(at, @))]
<1>1. Takes(d) /\ d.stage = "reading"
  BY TakesMore DEF Takes, Idle, IsRqst, Fields
<1>2. \/ p = Ends(d, "LONGRQST")
      \/ HeadEnds(at, d.nline) # {} /\ p \in Httpd_Analyze(d, Min(HeadEnds(at, d.nline)))
      \/ p = Tcp_Aio_Recv(e, "head", d.cap - Len(d.bf), 1)
  BY DEF Cbk_Httpd_Getting_Request
<1> HIDE DEF d
<1>3. /\ d.bf \in Seq(Tokens) /\ d.nline \in Nat /\ d.cap \in Nat /\ Len(d.bf) <= d.cap
      /\ Len(d.bf) \in Nat
  BY <1>1, LenProperties DEF Takes, Sizes
<1>4. /\ Max({d.nline} \cup LineEnds(at, d.nline)) \in Nat
      /\ HeadEnds(at, d.nline) # {} => Min(HeadEnds(at, d.nline)) \in Nat
  BY <1>3, ScanPlaces
<1> HIDE DEF at
<1>5. Good(Ends(d, "LONGRQST"))
  BY <1>1, EndsGood DEF Takes, Over, X!Last
<1>6. CASE HeadEnds(at, d.nline) # {} /\ p \in Httpd_Analyze(d, Min(HeadEnds(at, d.nline)))
  BY <1>1, <1>4, <1>6, AnalyzeGood
<1>7. CASE p = Tcp_Aio_Recv(e, "head", d.cap - Len(d.bf), 1)
  <2>1. /\ Takes(e) /\ e.stage = "reading" /\ e.bf = d.bf /\ e.cap = d.cap
    BY <1>1, <1>4 DEF Takes, Idle, IsRqst, Fields, Sizes, Unsent
  <2> HIDE DEF e
  <2>2. /\ IsRqst(p) /\ p.op = [kind |-> "head", len |-> d.cap - Len(d.bf), min |-> 1]
        /\ p.stage = "reading" /\ p.bf = e.bf /\ p.cap = e.cap
        /\ p.read = e.read /\ p.wire = e.wire
    BY <1>7, <2>1 DEF Tcp_Aio_Recv, Asks, Takes, Idle, IsRqst, Fields
  <2>3. Sizes(p)
    BY <1>7, <2>1 DEF Tcp_Aio_Recv, Asks, Takes, Idle, IsRqst, Fields, Sizes
  <2>4. d.cap - Len(d.bf) \in Nat /\ Len(d.bf) + (d.cap - Len(d.bf)) <= d.cap
    BY <1>3
  <2>5. Room(p)
    BY <2>1, <2>2, <2>4 DEF Room
  <2>6. Bodied(p)
    BY <2>1, <2>2 DEF Bodied, Takes, Unsent
  <2> QED
    BY <2>2, <2>3, <2>5, <2>6 DEF Good
<1> QED
  BY <1>2, <1>5, <1>6, <1>7

------------------------------------------------------------------------------
(* The data of every request                                               *)

Served == \A r \in Rqsts : Good(rq[r])

LEMMA InitServed == Init => Served
<1> SUFFICES ASSUME NEW w \in Wires, rq = [r \in Rqsts |-> Fresh(w[r])], NEW r \in Rqsts
             PROVE  Good(Fresh(w[r]))
  BY DEF Init, Served
<1> DEFINE d == Fresh(w[r])
<1>1. /\ IsRqst(d) /\ d.stage = "new" /\ d.op = NoOp /\ d.read = 0 /\ d.wire = <<>> /\ d.bf = <<>>
      /\ d.post = <<>> /\ d.got = 0 /\ d.nline = 0 /\ d.left = 0 /\ d.cap = MAXBUF
      /\ d.sent = w[r] /\ d.instrm = "none"
  BY DEF Fresh, IsRqst, Fields
<1> HIDE DEF d
<1>2. <<>> \in Seq(Tokens) /\ Len(<<>>) = 0
  BY EmptySeq
<1>3. w[r].text \in Seq(Tokens) /\ w[r].length \in Nat /\ MAXBUF \in Nat
  BY TextSeq, HttpdAssumption
<1>4. Sizes(d)
  BY <1>1, <1>2, <1>3 DEF Sizes
<1>5. Room(d) /\ Bodied(d)
  BY <1>1, <1>2 DEF Room, Bodied, NoOp, Unsent
<1> QED
  BY <1>1, <1>4, <1>5 DEF Good, d

(* What the peer sent and the call may report.                             *)
LEMMA IncomingFits ==
  ASSUME NEW r \in Rqsts, Good(rq[r]), NEW n \in Nat, Received(r, n)
  PROVE  /\ rq[r].op.min <= n /\ n <= rq[r].op.len
         /\ Incoming(rq[r], n) \in Seq(Tokens) /\ Len(Incoming(rq[r], n)) = n
<1>1. PICK m \in rq[r].op.min .. rq[r].op.len : Completed(n) = Completed(m)
  <2>1. \A s \in Failures : Completed(n) # Failed(s)
    BY DEF Completed, Failed, Failures, IOFailures, ResolveFailures
  <2> QED
    BY <2>1 DEF Received, Answers
<1>2. rq[r].op.min <= n /\ n <= rq[r].op.len
  <2>1. n = m
    BY <1>1 DEF Completed
  <2> QED
    BY <2>1 DEF Good, Room
<1>3. rq[r].sent.text \in Seq(Tokens) /\ rq[r].got \in Nat /\ rq[r].got + n <= Len(rq[r].sent.text)
  BY DEF Good, Sizes, Received
<1> QED
  BY <1>2, <1>3, SubSeqFrom DEF Incoming

LEMMA ArrivedTakes ==
  ASSUME NEW q, Good(q), Settled(q), NEW n \in Nat, q.op.kind \in {"head", "post"}
  PROVE  /\ Takes(Arrived(q, n)) /\ Arrived(q, n).stage = q.stage
         /\ Arrived(q, n).bf = q.bf /\ Arrived(q, n).cap = q.cap /\ Arrived(q, n).left = q.left
<1> DEFINE d == Arrived(q, n)
<1>1. Idle(d) /\ d.stage = q.stage
  BY ArrivedIdle DEF Good
<1>2. /\ d.bf = q.bf /\ d.cap = q.cap /\ d.left = q.left /\ d.post = q.post /\ d.wire = q.wire
      /\ d.nline = q.nline /\ d.read = q.read /\ d.sent = q.sent /\ d.instrm = q.instrm
      /\ d.got = q.got + n
  BY DEF Arrived, Answered, Good, IsRqst, Fields
<1>3. q.stage \in Coming
  BY DEF Settled, StageOf, Coming
<1> HIDE DEF d
<1>4. Sizes(d)
  BY <1>2 DEF Good, Sizes
<1> QED
  BY <1>1, <1>2, <1>3, <1>4 DEF Takes, Good, Bodied, Unsent, Coming, d

LEMMA SentFlushed ==
  ASSUME NEW q, Good(q), Settled(q), q.op.kind = "send"
  PROVE  Flushed([Answered(q) EXCEPT !.wire = @ \o SubSeq(Answered(q).bf, 1, q.op.len)])
<1> DEFINE a == Answered(q)
           d == [a EXCEPT !.wire = @ \o SubSeq(a.bf, 1, q.op.len)]
<1>1. Idle(a) /\ a.stage = "responding"
  BY AnsweredIdle DEF Good, Settled, StageOf
<1>2. /\ a.bf = q.bf /\ a.cap = q.cap /\ a.left = q.left /\ a.post = q.post /\ a.wire = q.wire
      /\ a.nline = q.nline /\ a.read = q.read /\ a.sent = q.sent /\ a.instrm = q.instrm
      /\ a.got = q.got /\ a.out = q.out
  BY DEF Answered, Good, IsRqst, Fields
<1> HIDE DEF a
<1>3. /\ Idle(d) /\ d.stage = "responding" /\ d.wire = q.wire \o SubSeq(q.bf, 1, q.op.len)
      /\ d.bf = q.bf /\ d.cap = q.cap /\ d.left = q.left /\ d.post = q.post
      /\ d.nline = q.nline /\ d.read = q.read /\ d.sent = q.sent /\ d.instrm = q.instrm
      /\ d.got = q.got /\ d.out = q.out
  BY <1>1, <1>2 DEF Idle, IsRqst, Fields
<1> HIDE DEF d
<1>4. q.bf \in Seq(Tokens) /\ q.wire \in Seq(Tokens) /\ q.op.len \in Nat /\ q.op.len <= Len(q.bf)
  BY DEF Good, Sizes, Room
<1>5. SubSeq(q.bf, 1, q.op.len) \in Seq(Tokens)
  <2>1. 1 \in Nat \ {0}
    OBVIOUS
  <2> QED
    BY <1>4, <2>1, SubSeqOf
<1>6. d.wire \in Seq(Tokens)
  BY <1>3, <1>4, <1>5, ConcatLen
<1>7. Sizes(d)
  BY <1>3, <1>6 DEF Good, Sizes
<1>8. Answering(q, q.wire \o q.bf) /\ (q.out.kind = "known" => q.op.len = Len(q.bf))
  BY <1>1, <1>2, AnsweredIdle DEF Good, Bodied, Settled, StageOf
<1>9. q.out.kind = "known" => d.wire = q.wire \o q.bf
  <2>1. SubSeq(q.bf, 1, Len(q.bf)) = q.bf
    BY <1>4, SubSeqFull
  <2> QED
    BY <1>3, <1>8, <2>1
<1>10. Answering(d, d.wire)
  BY <1>3, <1>8, <1>9 DEF Answering
<1>11. Flushed(d)
  BY <1>3, <1>7, <1>10 DEF Flushed
<1> QED
  BY <1>11 DEF d, a

LEMMA ServedReplaced ==
  ASSUME Stagewise, Served, NEW r \in Rqsts, NEW p, Replaced(r, p), Good(p)
  PROVE  Served'
<1>1. \A x \in Rqsts : rq'[x] = IF x = r THEN p ELSE rq[x]
  BY DEF Replaced, Stagewise
<1>2. ASSUME NEW x \in Rqsts PROVE Good(rq'[x])
  <2>1. CASE x = r
    BY <1>1, <2>1
  <2>2. CASE x # r
    <3>1. rq'[x] = rq[x] /\ Good(rq[x])
      BY <1>1, <2>2 DEF Served
    <3> QED
      BY <3>1
  <2> QED
    BY <2>1, <2>2
<1>3. (\A x \in Rqsts : Good(rq[x]))' <=> \A x \in Rqsts : Good(rq'[x])
  BY DEF Good, IsRqst, Sizes, Room, Bodied, Unsent, Answering
<1> QED
  BY <1>2, <1>3 DEF Served

LEMMA ServedStep ==
  ASSUME Stagewise, Served, [Next]_vars
  PROVE  Served'
<1>1. \A r \in Rqsts : IsRqst(rq[r]) /\ Settled(rq[r]) /\ Good(rq[r])
  BY DEF Stagewise, Served
<1>2. ASSUME NEW r \in Rqsts, Cbk_Httpd_Accept(r)
      PROVE  Served'
  <2> DEFINE q == [rq[r] EXCEPT !.alive = TRUE]
             a == Tcp_Aio_Recv([q EXCEPT !.stage = "reading"], "head", q.cap, 1)
             b == [q EXCEPT !.stage = "REJECTED"]
  <2>1. rq[r].stage = "new" /\ (Replaced(r, a) \/ Replaced(r, b))
    BY <1>2 DEF Cbk_Httpd_Accept, Becomes, Replaced
  <2>2. /\ rq[r].op = NoOp /\ rq[r].flying = 0 /\ Sizes(rq[r]) /\ Unsent(rq[r])
        /\ rq[r].bf = <<>> /\ IsRqst(rq[r])
    BY <1>1, <2>1 DEF Settled, StageOf, Good, Bodied
  <2>3. /\ IsRqst(q) /\ q.stage = "new" /\ q.op = NoOp /\ Sizes(q) /\ Unsent(q) /\ q.bf = <<>>
    BY <2>1, <2>2 DEF IsRqst, Fields, Sizes, Unsent
  <2> HIDE DEF q
  <2>4. /\ IsRqst(a) /\ a.stage = "reading" /\ a.op = [kind |-> "head", len |-> q.cap, min |-> 1]
        /\ a.bf = <<>> /\ a.cap = q.cap /\ Unsent(a)
    BY <2>3 DEF Tcp_Aio_Recv, Asks, IsRqst, Fields, Unsent
  <2>5. Sizes(a)
    BY <2>3 DEF Tcp_Aio_Recv, Asks, IsRqst, Fields, Sizes
  <2>6. IsRqst(b) /\ b.stage = "REJECTED" /\ b.op = NoOp /\ Sizes(b)
    BY <2>3 DEF IsRqst, Fields, Sizes
  <2> HIDE DEF a, b
  <2>7. Room(a)
    <3>1. q.cap \in Nat /\ Len(<<>>) = 0
      BY <2>3, EmptySeq DEF Sizes
    <3> QED
      BY <2>4, <3>1 DEF Room
  <2>8. Bodied(a)
    BY <2>4 DEF Bodied
  <2>9. Good(b)
    BY <2>6 DEF Good, Room, Bodied, NoOp
  <2>10. Good(a)
    BY <2>4, <2>5, <2>7, <2>8 DEF Good
  <2> QED
    BY <2>1, <2>9, <2>10, ServedReplaced
<1>3. ASSUME NEW r \in Rqsts, NEW n \in Nat, GotRequest(r, n)
      PROVE  Served'
  <2>1. PICK s \in STRAYS :
          \E p \in Cbk_Httpd_Getting_Request(Arrived(rq[r], n), Incoming(rq[r], n), s) : Replaced(r, p)
    BY <1>3 DEF GotRequest, Becomes, Replaced
  <2>2. rq[r].op.kind = "head" /\ rq[r].stage = "reading" /\ Received(r, n)
    BY <1>1, <1>3 DEF GotRequest, Waits, Settled, StageOf
  <2>3. PICK p \in Cbk_Httpd_Getting_Request(Arrived(rq[r], n), Incoming(rq[r], n), s) : Replaced(r, p)
    BY <2>1
  <2>4. n <= rq[r].op.len /\ Incoming(rq[r], n) \in Seq(Tokens) /\ Len(Incoming(rq[r], n)) = n
    BY <1>1, <2>2, IncomingFits
  <2>5. /\ Takes(Arrived(rq[r], n)) /\ Arrived(rq[r], n).stage = "reading"
        /\ Arrived(rq[r], n).bf = rq[r].bf /\ Arrived(rq[r], n).cap = rq[r].cap
    BY <1>1, <2>2, ArrivedTakes
  <2>6. Len(rq[r].bf) + n <= rq[r].cap
    <3>1. /\ Len(rq[r].bf) + rq[r].op.len <= rq[r].cap /\ rq[r].op.len \in Nat
          /\ Len(rq[r].bf) \in Nat /\ rq[r].cap \in Nat
      BY <1>1, <2>2, LenProperties DEF Good, Sizes, Room
    <3> QED
      BY <2>4, <3>1
  <2>7. Good(p)
    BY <2>3, <2>4, <2>5, <2>6, GettingRequestGood
  <2> QED
    BY <2>3, <2>7, ServedReplaced
<1>4. ASSUME NEW r \in Rqsts, NEW n \in Nat, GotPostdta(r, n)
      PROVE  Served'
  <2>1. PICK p \in Cbk_Httpd_Getting_Postdta(Arrived(rq[r], n), Incoming(rq[r], n)) : Replaced(r, p)
    BY <1>4 DEF GotPostdta, Becomes, Replaced
  <2>2. rq[r].op.kind = "post" /\ Received(r, n)
    BY <1>4 DEF GotPostdta, Waits
  <2>3. n <= rq[r].op.len /\ Incoming(rq[r], n) \in Seq(Tokens) /\ Len(Incoming(rq[r], n)) = n
    BY <1>1, <2>2, IncomingFits
  <2>4. /\ Takes(Arrived(rq[r], n)) /\ Arrived(rq[r], n).left = rq[r].left
        /\ Arrived(rq[r], n).bf = rq[r].bf /\ Arrived(rq[r], n).cap = rq[r].cap
    BY <1>1, <2>2, ArrivedTakes
  <2>5. Len(rq[r].bf) + n <= rq[r].cap /\ n <= rq[r].left
    <3>1. /\ Len(rq[r].bf) + rq[r].op.len <= rq[r].cap /\ rq[r].op.len \in Nat
          /\ Len(rq[r].bf) \in Nat /\ rq[r].cap \in Nat
          /\ rq[r].op.len <= rq[r].left /\ rq[r].left \in Nat
      BY <1>1, <2>2, LenProperties DEF Good, Sizes, Room
    <3> QED
      BY <2>3, <3>1
  <2>6. Good(p)
    BY <2>3, <2>4, <2>5, GettingPostdtaGood
  <2> QED
    BY <2>1, <2>6, ServedReplaced
<1>5. ASSUME NEW r \in Rqsts, Sent(r)
      PROVE  Served'
  <2> DEFINE d == [Answered(rq[r]) EXCEPT !.wire = @ \o SubSeq(Answered(rq[r]).bf, 1, rq[r].op.len)]
  <2>1. rq[r].op.kind = "send" /\ \E p \in Cbk_Httpd_Sending_Result(d) : Replaced(r, p)
    BY <1>5 DEF Sent, Waits, Becomes, Replaced
  <2>2. Flushed(d)
    BY <1>1, <2>1, SentFlushed
  <2> HIDE DEF d
  <2>3. PICK p \in Cbk_Httpd_Sending_Result(d) : Replaced(r, p)
    BY <2>1
  <2>4. Good(p)
    BY <2>2, SendingGood
  <2> QED
    BY <2>3, <2>4, ServedReplaced
<1>6. ASSUME NEW r \in Rqsts, IOFail(r)
      PROVE  Served'
  <2>1. Replaced(r, Ends(Answered(rq[r]), "IOFAIL")) /\ rq[r].op.kind # "none"
    BY <1>6 DEF IOFail, Becomes, Replaced, Waits
  <2>2. Idle(Answered(rq[r]))
    BY <1>1, <2>1, AnsweredIdle
  <2>3. Sizes(Answered(rq[r]))
    BY <1>1 DEF Answered, Good, IsRqst, Fields, Sizes
  <2>4. Good(Ends(Answered(rq[r]), "IOFAIL"))
    BY <2>2, <2>3, EndsGood DEF Over, X!Last
  <2> QED
    BY <2>1, <2>4, ServedReplaced
<1>7. ASSUME NEW r \in Rqsts, Continue(r)
      PROVE  Served'
  <2>1. PICK b \in Bodies : \E p \in Httpd_Continue_Request(rq[r], b) : Replaced(r, p)
    BY <1>7 DEF Continue, Becomes, Replaced
  <2>2. Idle(rq[r]) /\ Sizes(rq[r]) /\ Unsent(rq[r])
    BY <1>1, <1>7 DEF Continue, Idle, Settled, StageOf, Over, X!Last, Good, Bodied
  <2>3. PICK p \in Httpd_Continue_Request(rq[r], b) : Replaced(r, p)
    BY <2>1
  <2>4. Good(p)
    BY <2>2, ContinueGood
  <2> QED
    BY <2>3, <2>4, ServedReplaced
<1>8. ASSUME NEW r \in Rqsts, Destruct(r)
      PROVE  Served'
  <2> DEFINE d == [rq[r] EXCEPT !.alive = FALSE, !.closed = TRUE]
  <2>1. Replaced(r, d)
    BY <1>8 DEF Destruct, Becomes, Replaced
  <2>2. /\ IsRqst(d) /\ d.stage = rq[r].stage /\ d.op = rq[r].op /\ d.out = rq[r].out
        /\ d.bf = rq[r].bf /\ d.cap = rq[r].cap /\ d.left = rq[r].left /\ d.read = rq[r].read
        /\ d.wire = rq[r].wire
    BY <1>1 DEF IsRqst, Fields
  <2>3. Sizes(d)
    BY <1>1 DEF Good, IsRqst, Fields, Sizes
  <2> HIDE DEF d
  <2>4. Room(d) /\ Bodied(d)
    <3>1. Room(d)
      BY <1>1, <2>2 DEF Good, Room
    <3>2. Answering(rq[r], rq[r].wire \o rq[r].bf) <=> Answering(d, d.wire \o d.bf)
      BY <2>2 DEF Answering
    <3>3. Bodied(d)
      BY <1>1, <2>2, <3>2 DEF Good, Bodied, Unsent
    <3> QED
      BY <3>1, <3>3
  <2> QED
    BY <2>1, <2>2, <2>3, <2>4, ServedReplaced DEF Good
<1>9. ASSUME rq' = rq PROVE Served'
  BY <1>9 DEF Served, Good, IsRqst, Sizes, Room, Bodied, Unsent, Answering
<1>10. \A r \in Rqsts : 0 .. Len(rq[r].sent.text) \subseteq Nat
  BY <1>1, LenProperties DEF Good, Sizes
<1>11. CASE Next
  BY <1>2, <1>3, <1>4, <1>5, <1>6, <1>7, <1>8, <1>9, <1>10, <1>11
     DEF Next, Handles, AcceptFails, Httpd_Shutdown
<1> QED
  BY <1>9, <1>11 DEF vars, svars

------------------------------------------------------------------------------
(* The list of requests and the references to the server                   *)

Counted ==
  /\ accepting \in Nat /\ barred \in Nat /\ lsock \in {"open", "closed"}
  /\ refs = Len(list) + accepting + barred + (IF lsock = "open" THEN 1 ELSE 0)

Once(s) == \A i, j \in 1 .. Len(s) : s[i] = s[j] => i = j

Listed ==
  /\ list \in Seq(Rqsts) /\ Once(list)
  /\ \A r \in Rqsts : r \in ToSet(list) <=> rq[r].alive = Living

LEMMA RemoveOne ==
  ASSUME NEW s \in Seq(Rqsts), Once(s), NEW r \in ToSet(s)
  PROVE  /\ RemoveFirst(s, r) \in Seq(Rqsts) /\ Len(RemoveFirst(s, r)) = Len(s) - 1
         /\ Once(RemoveFirst(s, r)) /\ ToSet(RemoveFirst(s, r)) = ToSet(s) \ {r}
<1> DEFINE I == {i \in 1 .. Len(s) : s[i] = r}
           k == Min(I)
           t == RemoveAt(s, k)
<1>1. Len(s) \in Nat /\ DOMAIN s = 1 .. Len(s) /\ \A i \in 1 .. Len(s) : s[i] \in Rqsts
  BY LenProperties, ElementOfSeq
<1>2. PICK x \in 1 .. Len(s) : s[x] = r
  BY <1>1 DEF ToSet
<1>3. I \subseteq Nat /\ I # {}
  BY <1>1, <1>2
<1>4. k \in I
  <2> HIDE DEF I
  <2> QED
    BY <1>3, Lowest
<1>5. k \in 1 .. Len(s) /\ s[k] = r
  BY <1>4
<1>6. RemoveFirst(s, r) = t
  BY <1>2, <1>3 DEF RemoveFirst, SelectInSeq
<1> HIDE DEF k
<1> DEFINE a == SubSeq(s, 1, k - 1)
           b == SubSeq(s, k + 1, Len(s))
<1>7. a \in Seq(Rqsts) /\ Len(a) = k - 1 /\ \A i \in 1 .. k - 1 : a[i] = s[i]
  <2>1. 1 \in Int /\ k - 1 \in Int /\ \A i \in 1 .. k - 1 : s[i] \in Rqsts
    BY <1>1, <1>5
  <2>2. /\ a \in Seq(Rqsts) /\ Len(a) = (IF 1 <= k - 1 THEN (k - 1) - 1 + 1 ELSE 0)
        /\ \A i \in 1 .. (k - 1) - 1 + 1 : a[i] = s[1 + i - 1]
    BY <2>1, SubSeqProperties
  <2> HIDE DEF a
  <2> QED
    BY <1>5, <2>2
<1>8. b \in Seq(Rqsts) /\ Len(b) = Len(s) - k /\ \A i \in 1 .. Len(s) - k : b[i] = s[k + i]
  <2>1. k + 1 \in Int /\ Len(s) \in Int /\ \A i \in k + 1 .. Len(s) : s[i] \in Rqsts
    BY <1>1, <1>5
  <2>2. /\ b \in Seq(Rqsts) /\ Len(b) = (IF k + 1 <= Len(s) THEN Len(s) - (k + 1) + 1 ELSE 0)
        /\ \A i \in 1 .. Len(s) - (k + 1) + 1 : b[i] = s[k + 1 + i - 1]
    BY <2>1, SubSeqProperties
  <2> HIDE DEF b
  <2>3. Len(b) = Len(s) - k
    <3>1. CASE k + 1 <= Len(s)
      <4>1. Len(b) = Len(s) - (k + 1) + 1
        BY <2>2, <3>1
      <4> QED
        BY <1>1, <1>5, <4>1
    <3>2. CASE k = Len(s)
      <4>1. ~ (k + 1 <= Len(s)) /\ Len(s) - k = 0
        BY <1>1, <3>2
      <4> QED
        BY <2>2, <4>1
    <3>3. k \in Int /\ Len(s) \in Int /\ k <= Len(s)
      BY <1>1, <1>5
    <3>4. k + 1 <= Len(s) \/ k = Len(s)
      BY <3>3
    <3> QED
      BY <3>1, <3>2, <3>4
  <2>4. ASSUME NEW i \in 1 .. Len(s) - k PROVE b[i] = s[k + i]
    <3>1. i \in 1 .. Len(s) - (k + 1) + 1 /\ k + 1 + i - 1 = k + i
      BY <1>1, <1>5
    <3> QED
      BY <2>2, <3>1
  <2> QED
    BY <2>2, <2>3, <2>4
<1>9. t = a \o b
  BY DEF RemoveAt
<1> HIDE DEF a, b, t
<1>10. /\ t \in Seq(Rqsts) /\ Len(t) = Len(s) - 1
       /\ \A i \in 1 .. Len(s) - 1 : t[i] = IF i < k THEN s[i] ELSE s[i + 1]
  <2>1. /\ a \o b \in Seq(Rqsts) /\ Len(a \o b) = Len(a) + Len(b)
        /\ \A i \in 1 .. Len(a) + Len(b) : (a \o b)[i] = IF i <= Len(a) THEN a[i] ELSE b[i - Len(a)]
    BY <1>7, <1>8, ConcatProperties
  <2>2. Len(a) + Len(b) = Len(s) - 1
    BY <1>1, <1>5, <1>7, <1>8
  <2>3. ASSUME NEW i \in 1 .. Len(s) - 1 PROVE t[i] = IF i < k THEN s[i] ELSE s[i + 1]
    <3>1. t[i] = IF i <= Len(a) THEN a[i] ELSE b[i - Len(a)]
      BY <1>9, <2>1, <2>2
    <3>2. CASE i < k
      BY <1>1, <1>5, <1>7, <3>1, <3>2
    <3>3. CASE ~ (i < k)
      <4>1. i - Len(a) = i - k + 1 /\ i - k + 1 \in 1 .. Len(s) - k /\ ~ (i <= Len(a))
        BY <1>1, <1>5, <1>7, <3>3
      <4>2. b[i - k + 1] = s[k + (i - k + 1)]
        BY <1>8, <4>1
      <4>3. k + (i - k + 1) = i + 1
        BY <1>1, <1>5
      <4> QED
        BY <3>1, <3>3, <4>1, <4>2, <4>3
    <3> QED
      BY <3>2, <3>3
  <2> QED
    BY <1>9, <2>1, <2>2, <2>3
<1>11. Once(t)
  <2> SUFFICES ASSUME NEW i \in 1 .. Len(s) - 1, NEW j \in 1 .. Len(s) - 1, t[i] = t[j]
               PROVE  i = j
    BY <1>10 DEF Once
  <2>1. \A m, n \in 1 .. Len(s) : s[m] = s[n] => m = n
    BY DEF Once
  <2>2. i \in 1 .. Len(s) /\ i + 1 \in 1 .. Len(s) /\ j \in 1 .. Len(s) /\ j + 1 \in 1 .. Len(s)
    BY <1>1
  <2> QED
    BY <1>5, <1>10, <2>1, <2>2
<1>12. DOMAIN t = 1 .. Len(s) - 1
  BY <1>10, LenProperties
<1>13. ASSUME NEW y \in ToSet(s) \ {r} PROVE y \in ToSet(t)
  <2>1. PICK i \in 1 .. Len(s) : s[i] = y
    BY <1>1 DEF ToSet
  <2>2. i # k
    BY <1>5, <2>1
  <2>3. CASE i < k
    <3>1. i \in 1 .. Len(s) - 1 /\ t[i] = y
      BY <1>1, <1>5, <1>10, <2>1, <2>3
    <3> QED
      BY <1>12, <3>1 DEF ToSet
  <2>4. CASE i > k
    <3>1. i - 1 \in 1 .. Len(s) - 1 /\ ~ (i - 1 < k) /\ (i - 1) + 1 = i
      BY <1>1, <1>5, <2>4
    <3>2. t[i - 1] = y
      BY <1>10, <2>1, <3>1
    <3> QED
      BY <1>12, <3>1, <3>2 DEF ToSet
  <2> QED
    BY <1>5, <2>2, <2>3, <2>4
<1>14. ASSUME NEW y \in ToSet(t) PROVE y \in ToSet(s) \ {r}
  <2>1. PICK i \in 1 .. Len(s) - 1 : t[i] = y
    BY <1>12 DEF ToSet
  <2>2. PICK m \in 1 .. Len(s) : y = s[m] /\ m # k
    <3>1. CASE i < k
      BY <1>1, <1>5, <1>10, <2>1, <3>1
    <3>2. CASE ~ (i < k)
      <4>1. i + 1 \in 1 .. Len(s) /\ y = s[i + 1] /\ i + 1 # k
        BY <1>1, <1>5, <1>10, <2>1, <3>2
      <4> QED
        BY <4>1
    <3> QED
      BY <3>1, <3>2
  <2>3. y # r
    BY <1>5, <2>2 DEF Once
  <2> QED
    BY <1>1, <2>2, <2>3 DEF ToSet
<1> QED
  BY <1>6, <1>10, <1>11, <1>13, <1>14

LEMMA AddFirst ==
  ASSUME NEW s \in Seq(Rqsts), Once(s), NEW r \in Rqsts, r \notin ToSet(s)
  PROVE  /\ <<r>> \o s \in Seq(Rqsts) /\ Len(<<r>> \o s) = Len(s) + 1
         /\ Once(<<r>> \o s) /\ ToSet(<<r>> \o s) = ToSet(s) \cup {r}
<1> DEFINE t == <<r>> \o s
<1>1. Len(s) \in Nat /\ DOMAIN s = 1 .. Len(s)
  BY LenProperties
<1>2. /\ t \in Seq(Rqsts) /\ Len(t) = Len(s) + 1
      /\ \A i \in 1 .. Len(s) + 1 : t[i] = IF i = 1 THEN r ELSE s[i - 1]
  <2>1. <<r>> \in Seq(Rqsts) /\ Len(<<r>>) = 1 /\ <<r>>[1] = r
    OBVIOUS
  <2>2. /\ t \in Seq(Rqsts) /\ Len(t) = Len(<<r>>) + Len(s)
        /\ \A i \in 1 .. Len(<<r>>) + Len(s) : t[i] = IF i <= Len(<<r>>) THEN <<r>>[i] ELSE s[i - Len(<<r>>)]
    BY <2>1, ConcatProperties
  <2> HIDE DEF t
  <2>3. ASSUME NEW i \in 1 .. Len(s) + 1 PROVE t[i] = IF i = 1 THEN r ELSE s[i - 1]
    <3>1. t[i] = IF i <= 1 THEN <<r>>[i] ELSE s[i - 1]
      BY <1>1, <2>1, <2>2
    <3>2. i <= 1 <=> i = 1
      BY <1>1
    <3> QED
      BY <2>1, <3>1, <3>2
  <2> QED
    BY <1>1, <2>1, <2>2, <2>3
<1> HIDE DEF t
<1>3. \A i \in 1 .. Len(s) : s[i] # r
  BY <1>1 DEF ToSet
<1>4. Once(t)
  <2> SUFFICES ASSUME NEW i \in 1 .. Len(s) + 1, NEW j \in 1 .. Len(s) + 1, t[i] = t[j]
               PROVE  i = j
    BY <1>2 DEF Once
  <2>1. \A m \in 1 .. Len(s) + 1 : m # 1 => m - 1 \in 1 .. Len(s)
    BY <1>1
  <2>2. CASE i = 1 \/ j = 1
    BY <1>2, <1>3, <2>1, <2>2
  <2>3. CASE i # 1 /\ j # 1
    <3>1. i - 1 = j - 1
      BY <1>2, <2>1, <2>3 DEF Once
    <3> QED
      BY <1>1, <3>1
  <2> QED
    BY <2>2, <2>3
<1>5. DOMAIN t = 1 .. Len(s) + 1
  BY <1>2, LenProperties
<1>6. ASSUME NEW y \in ToSet(s) \cup {r} PROVE y \in ToSet(t)
  <2>1. CASE y = r
    <3>1. 1 \in 1 .. Len(s) + 1 /\ t[1] = r
      BY <1>1, <1>2
    <3> QED
      BY <1>5, <2>1, <3>1 DEF ToSet
  <2>2. CASE y \in ToSet(s)
    <3>1. PICK i \in 1 .. Len(s) : s[i] = y
      BY <1>1, <2>2 DEF ToSet
    <3>2. i + 1 \in 1 .. Len(s) + 1 /\ t[i + 1] = y
      BY <1>1, <1>2, <3>1
    <3> QED
      BY <1>5, <3>2 DEF ToSet
  <2> QED
    BY <2>1, <2>2
<1>7. ASSUME NEW y \in ToSet(t) PROVE y \in ToSet(s) \cup {r}
  <2>1. PICK i \in 1 .. Len(s) + 1 : t[i] = y
    BY <1>5 DEF ToSet
  <2>2. i = 1 \/ i - 1 \in 1 .. Len(s)
    BY <1>1
  <2> QED
    BY <1>1, <1>2, <2>1, <2>2 DEF ToSet
<1> QED
  BY <1>2, <1>4, <1>6, <1>7 DEF t

LEMMA InitListed == Init => Counted /\ Listed
<1> SUFFICES ASSUME Init PROVE Counted /\ Listed
  OBVIOUS
<1>1. list = <<>> /\ refs = 2 /\ lsock = "open" /\ accepting = 1 /\ barred = 0
  BY DEF Init
<1>2. list \in Seq(Rqsts) /\ Len(list) = 0 /\ DOMAIN list = {}
  BY <1>1, EmptySeq
<1>3. Counted
  BY <1>1, <1>2 DEF Counted
<1>4. Once(list) /\ ToSet(list) = {}
  BY <1>2 DEF Once, ToSet
<1>5. \A r \in Rqsts : rq[r].alive # Living
  <2>1. PICK w \in Wires : rq = [r \in Rqsts |-> Fresh(w[r])]
    BY DEF Init
  <2>2. \A r \in Rqsts : Fresh(w[r]).alive = FALSE
    BY Zenon DEF Fresh
  <2> QED
    BY <2>1, <2>2, Zenon DEF Living
<1> QED
  BY <1>2, <1>3, <1>4, <1>5 DEF Listed

LEMMA ListedStep ==
  ASSUME Stagewise, Counted, Listed, [Next]_vars
  PROVE  Counted' /\ Listed'
<1>1. Len(list) \in Nat
  BY LenProperties DEF Listed
<1>2. ASSUME UNCHANGED list, Kept PROVE Listed'
  BY <1>2 DEF Listed, Kept, Once
<1>3. ASSUME NEW r \in Rqsts, Cbk_Httpd_Accept(r) PROVE Counted' /\ Listed'
  <2>1. /\ list' = <<r>> \o list /\ refs' = refs + 1 /\ lsock' = lsock
        /\ accepting' \in Nat /\ barred' \in Nat
        /\ accepting' + barred' = accepting + barred
    <3>1. /\ accepting > 0 /\ Rearmed /\ lsock' = lsock
          /\ list' = <<r>> \o list /\ refs' = refs + 1
      BY <1>3 DEF Cbk_Httpd_Accept, Httpd_Request
    <3>2. accepting \in Nat /\ barred \in Nat
      BY DEF Counted
    <3> QED
      BY <3>1, <3>2 DEF Rearmed
  <2>2. rq[r].alive = Unborn /\ IsRqst(rq[r])
    BY <1>3 DEF Cbk_Httpd_Accept, Stagewise, Settled
  <2>3. r \notin ToSet(list)
    <3>1. Unborn # Living
      BY Zenon DEF Unborn, Living
    <3> QED
      BY <2>2, <3>1 DEF Listed
  <2>4. /\ list' \in Seq(Rqsts) /\ Len(list') = Len(list) + 1
        /\ Once(list') /\ ToSet(list') = ToSet(list) \cup {r}
    BY <2>1, <2>3, AddFirst DEF Listed
  <2>5. \A x \in Rqsts : rq'[x].alive = IF x = r THEN Living ELSE rq[x].alive
    <3> DEFINE q == [rq[r] EXCEPT !.alive = TRUE]
    <3>1. q.alive = Living /\ IsRqst(q)
      <4>1. "alive" \in DOMAIN rq[r] /\ DOMAIN q = DOMAIN rq[r]
        BY <2>2 DEF IsRqst, Fields
      <4>2. q.alive = TRUE
        BY <4>1, Zenon
      <4> QED
        BY <2>2, <4>1, <4>2, Zenon DEF Living, IsRqst
    <3> HIDE DEF q
    <3>2. PICK p \in {Tcp_Aio_Recv([q EXCEPT !.stage = "reading"], "head", q.cap, 1),
                      [q EXCEPT !.stage = "REJECTED"]} : rq' = [rq EXCEPT ![r] = p]
      BY <1>3 DEF Cbk_Httpd_Accept, Becomes, q
    <3>3. p.alive = Living
      BY <3>1, <3>2 DEF Tcp_Aio_Recv, Asks, IsRqst, Fields
    <3> QED
      BY <3>2, <3>3 DEF Stagewise
  <2>6. Listed'
    BY <2>4, <2>5 DEF Listed
  <2>7. Counted'
    <3>1. refs = Len(list) + accepting + barred + (IF lsock = "open" THEN 1 ELSE 0)
      BY DEF Counted
    <3>2. refs' = Len(list') + accepting' + barred' + (IF lsock' = "open" THEN 1 ELSE 0)
      <4>1. Len(list) \in Nat /\ Len(list') = Len(list) + 1
        BY <1>1, <2>4
      <4>2. /\ accepting \in Nat /\ barred \in Nat /\ accepting' \in Nat /\ barred' \in Nat
            /\ accepting' + barred' = accepting + barred /\ refs' = refs + 1 /\ lsock' = lsock
        BY <2>1 DEF Counted
      <4> DEFINE o == IF lsock = "open" THEN 1 ELSE 0
      <4>3. o \in Nat /\ refs \in Nat /\ refs' \in Nat /\ Len(list') \in Nat
        BY <3>1, <4>1, <4>2
      <4>4. refs = Len(list) + accepting + barred + o
        BY <3>1
      <4>5. refs' = Len(list') + accepting' + barred' + o
        <5> HIDE DEF o
        <5>1. PICK n, m, i, j, k, l, c, x, y \in Nat :
                /\ n = Len(list) /\ m = Len(list') /\ i = accepting /\ j = barred
                /\ k = accepting' /\ l = barred' /\ c = o /\ x = refs /\ y = refs'
          BY <4>1, <4>2, <4>3
        <5>2. m = n + 1 /\ k + l = i + j /\ x = n + i + j + c /\ y = x + 1
          BY <4>1, <4>2, <4>4, <5>1, Zenon
        <5>3. y = m + k + l + c
          BY <5>2
        <5> QED
          BY <5>1, <5>3, Zenon
      <4> QED
        BY <4>2, <4>5
    <3> QED
      BY <2>1, <3>2 DEF Counted
  <2> QED
    BY <2>6, <2>7
<1>4. ASSUME NEW r \in Rqsts, Destruct(r) PROVE Counted' /\ Listed'
  <2>1. list' = RemoveFirst(list, r) /\ refs' = refs - 1 /\ UNCHANGED <<lsock, accepting, barred>>
    BY <1>4 DEF Destruct, Httpd_Detach_Request
  <2>2. rq[r].alive = Living /\ IsRqst(rq[r])
    <3>1. rq[r].alive
      BY <1>4 DEF Destruct
    <3>2. rq[r].alive \in {Living, Unborn} /\ IsRqst(rq[r])
      BY DEF Stagewise, Settled
    <3> QED
      BY <3>1, <3>2, Zenon DEF Living, Unborn
  <2>3. r \in ToSet(list)
    BY <2>2 DEF Listed
  <2>4. /\ list' \in Seq(Rqsts) /\ Len(list') = Len(list) - 1
        /\ Once(list') /\ ToSet(list') = ToSet(list) \ {r}
    BY <2>1, <2>3, RemoveOne DEF Listed
  <2>5. \A x \in Rqsts : rq'[x].alive = IF x = r THEN Unborn ELSE rq[x].alive
    <3> DEFINE d == [rq[r] EXCEPT !.alive = FALSE, !.closed = TRUE]
    <3>1. rq' = [rq EXCEPT ![r] = d]
      BY <1>4 DEF Destruct, Becomes
    <3>2. d.alive = Unborn
      <4>1. "alive" \in DOMAIN rq[r]
        BY <2>2 DEF IsRqst, Fields
      <4> QED
        BY <4>1, Zenon DEF Unborn
    <3> HIDE DEF d
    <3> QED
      BY <3>1, <3>2 DEF Stagewise
  <2>6. Unborn # Living
    BY Zenon DEF Unborn, Living
  <2>7. Listed'
    BY <2>4, <2>5, <2>6 DEF Listed
  <2>8. Counted'
    BY <1>1, <2>1, <2>4 DEF Counted
  <2> QED
    BY <2>7, <2>8
<1>5. ASSUME Kept, UNCHANGED svars PROVE Counted' /\ Listed'
  BY <1>2, <1>5 DEF Counted, svars
<1>6. CASE AcceptFails
  <2>1. Kept /\ UNCHANGED list
    BY <1>6 DEF AcceptFails, Kept
  <2>2. Counted'
    BY <1>1, <1>6 DEF AcceptFails, Counted
  <2> QED
    BY <1>2, <2>1, <2>2
<1>7. CASE Httpd_Shutdown
  <2>1. Kept /\ UNCHANGED list
    BY <1>7 DEF Httpd_Shutdown, Kept
  <2>2. Counted'
    BY <1>1, <1>7 DEF Httpd_Shutdown, Counted
  <2> QED
    BY <1>2, <2>1, <2>2
<1>8. Kept \/ \E r \in Rqsts : Cbk_Httpd_Accept(r) \/ Destruct(r)
  BY StagewiseStep
<1>9. \/ AcceptFails \/ Httpd_Shutdown \/ UNCHANGED svars
      \/ \E r \in Rqsts : Cbk_Httpd_Accept(r) \/ Destruct(r)
  BY DEF Next, Handles, GotRequest, GotPostdta, Sent, IOFail, Continue, vars
<1> QED
  BY <1>3, <1>4, <1>5, <1>6, <1>7, <1>8, <1>9

------------------------------------------------------------------------------
(* Posted data                                                             *)

(* The client's head ends where the scan of the whole text finds its end.  *)
Marked(t) == HeadEnds(t.text, 0) # {} => t.head = Min(HeadEnds(t.text, 0))
CleanBuffers == STRAYS = {<<>>}

LEMMA HeadsMarked == \A w \in Wires, r \in Rqsts : Marked(w[r])
  BY HeadsAssumption DEF Marked

(* Line ends and ends of the head in the first g tokens of a text.         *)
LinesTo(T, g) == {k \in LineEnds(T, 0) : k <= g}
HeadsTo(T, g) == {k \in HeadEnds(T, 0) : k <= g}
LastLine(T, g) == Max({0} \cup LinesTo(T, g))

LEMMA MaxIs ==
  ASSUME NEW S, S \subseteq Nat, NEW m \in S, \A x \in S : x <= m
  PROVE  Max(S) = m
<1>1. Max(S) \in S /\ \A x \in S : x <= Max(S)
  BY DEF Max
<1>2. Max(S) \in Nat /\ m \in Nat /\ m <= Max(S) /\ Max(S) <= m
  BY <1>1
<1> QED
  BY <1>2

LEMMA LastLineFacts ==
  ASSUME NEW T \in Seq(Tokens), NEW g \in Nat
  PROVE  /\ LinesTo(T, g) \subseteq Nat
         /\ LastLine(T, g) \in {0} \cup LinesTo(T, g)
         /\ \A k \in LinesTo(T, g) : k <= LastLine(T, g)
         /\ LastLine(T, g) \in Nat /\ LastLine(T, g) <= g
<1> DEFINE S == {0} \cup LinesTo(T, g)
<1>1. Len(T) \in Nat
  BY LenProperties
<1>2. S \subseteq 0 .. g /\ S # {}
  BY <1>1 DEF LinesTo, LineEnds
<1>3. Max(S) \in S /\ \A x \in S : x <= Max(S)
  <2> HIDE DEF S
  <2> QED
    BY <1>2, Highest
<1>4. Max(S) \in Nat /\ Max(S) <= g
  BY <1>2, <1>3
<1>5. LinesTo(T, g) \subseteq Nat
  BY <1>2
<1> QED
  BY <1>3, <1>4, <1>5 DEF LastLine

(* The scan goes on where it stopped and finds what a scan of all would.   *)
LEMMA ScanGoesOn ==
  ASSUME NEW T \in Seq(Tokens), NEW f \in Nat, NEW g \in Nat, f <= g, g <= Len(T),
         HeadsTo(T, f) = {}
  PROVE  LET B == SubSeq(T, 1, g)
         IN  /\ HeadEnds(B, LastLine(T, f)) = HeadsTo(T, g)
             /\ Max({LastLine(T, f)} \cup LineEnds(B, LastLine(T, f))) = LastLine(T, g)
<1> DEFINE B == SubSeq(T, 1, g)
           l == LastLine(T, f)
<1>1. Len(B) = g /\ \A i \in 1 .. g : B[i] = T[i]
  <2>1. \A i \in 1 .. g : T[i] \in Tokens
    BY ElementOfSeq
  <2>2. 1 \in Int /\ g \in Int
    OBVIOUS
  <2>3. /\ Len(B) = IF 1 <= g THEN g - 1 + 1 ELSE 0
        /\ \A i \in 1 .. g - 1 + 1 : B[i] = T[1 + i - 1]
    BY <2>1, <2>2, SubSeqProperties
  <2> HIDE DEF B
  <2> QED
    BY <2>3
<1> HIDE DEF B
<1>2. /\ l \in Nat /\ l <= f /\ l \in {0} \cup LinesTo(T, f) /\ \A k \in LinesTo(T, f) : k <= l
  BY LastLineFacts
<1> HIDE DEF l
<1>3. LineEnds(B, l) = {k \in LinesTo(T, g) : k > l}
  BY <1>1, <1>2, LenProperties DEF LineEnds, LinesTo
<1>4. LinesTo(T, g) \subseteq Nat /\ LinesTo(T, f) \subseteq LinesTo(T, g)
  BY LastLineFacts DEF LinesTo, LineEnds
<1>5. ASSUME NEW k \in LinesTo(T, g), k > l
      PROVE  /\ LineStart(B, l, k) = LineStart(T, 0, k)
             /\ LineStart(B, l, k) \in Nat
  <2> DEFINE S == {l} \cup {j \in LineEnds(B, l) : j < k}
             R == {0} \cup {j \in LineEnds(T, 0) : j < k}
             m == Max(S)
  <2>1. k \in Nat /\ k <= g
    BY <1>4, <1>5 DEF LinesTo
  <2>2. S \subseteq 0 .. k /\ S # {}
    BY <1>2, <1>3, <1>4, <1>5, <2>1
  <2>3. m \in S /\ \A x \in S : x <= m
    <3> HIDE DEF S
    <3> QED
      BY <2>1, <2>2, Highest
  <2>4. m \in Nat /\ l <= m
    BY <2>2, <2>3
  <2>5. m \in R
    BY <1>2, <1>3, <1>4, <1>5, <2>3 DEF LinesTo
  <2>6. ASSUME NEW x \in R PROVE x <= m
    <3>1. CASE x = 0
      BY <2>4, <3>1
    <3>2. CASE x \in LineEnds(T, 0) /\ x < k
      <4>1. x \in LinesTo(T, g) /\ x \in Nat
        BY <1>4, <2>1, <3>2, LenProperties DEF LinesTo, LineEnds
      <4>2. CASE x <= l
        BY <1>2, <2>4, <4>1, <4>2
      <4>3. CASE x > l
        BY <1>3, <2>3, <3>2, <4>1, <4>3
      <4> QED
        BY <1>2, <4>1, <4>2, <4>3
    <3> QED
      BY <3>1, <3>2
  <2>7. R \subseteq Nat
    BY LenProperties DEF LineEnds
  <2>8. Max(R) = m
    <3> HIDE DEF R, m
    <3> QED
      BY <2>5, <2>6, <2>7, MaxIs
  <2> QED
    BY <2>4, <2>8 DEF LineStart
<1>6. ASSUME NEW k \in LinesTo(T, g), k > l
      PROVE  k \in HeadEnds(B, l) <=> k \in HeadEnds(T, 0)
  <2>1. k \in LineEnds(B, l) /\ k \in LineEnds(T, 0) /\ k <= g /\ k \in Nat
    BY <1>3, <1>4, <1>6 DEF LinesTo
  <2>2. \A i \in LineStart(T, 0, k) + 1 .. k : B[i] = T[i]
    BY <1>1, <1>5, <1>6, <2>1
  <2>3. LineStart(B, l, k) = LineStart(T, 0, k)
    BY <1>5, <1>6
  <2> QED
    BY <2>1, <2>2, <2>3 DEF HeadEnds
<1>7. HeadEnds(B, l) \subseteq LineEnds(B, l) /\ HeadEnds(T, 0) \subseteq LineEnds(T, 0)
  BY DEF HeadEnds
<1>8. ASSUME NEW k \in HeadsTo(T, g) PROVE k \in LinesTo(T, g) /\ k > l
  <2>1. k \in LinesTo(T, g) /\ k \in Nat
    BY <1>4, <1>7 DEF HeadsTo, LinesTo
  <2>2. ~ (k <= f)
    BY <1>8 DEF HeadsTo
  <2> QED
    BY <1>2, <2>1, <2>2
<1>9. HeadEnds(B, l) = HeadsTo(T, g)
  <2>1. \A k \in HeadEnds(B, l) : k \in LinesTo(T, g) /\ k > l
    BY <1>3, <1>7
  <2>2. \A k \in HeadEnds(B, l) : k \in HeadsTo(T, g)
    BY <1>6, <2>1 DEF HeadsTo, LinesTo
  <2>3. \A k \in HeadsTo(T, g) : k \in HeadEnds(B, l)
    BY <1>6, <1>8 DEF HeadsTo
  <2> QED
    BY <2>2, <2>3
<1>10. Max({l} \cup LineEnds(B, l)) = LastLine(T, g)
  <2> DEFINE S == {l} \cup LineEnds(B, l)
             m == LastLine(T, g)
  <2>1. /\ m \in {0} \cup LinesTo(T, g) /\ m \in Nat
        /\ \A k \in LinesTo(T, g) : k <= m
    BY LastLineFacts
  <2> HIDE DEF m
  <2>2. l <= m
    BY <1>2, <1>4, <2>1
  <2>3. m \in S
    BY <1>2, <1>3, <2>1, <2>2
  <2>4. S \subseteq Nat /\ \A x \in S : x <= m
    BY <1>2, <1>3, <1>4, <2>1, <2>2
  <2>5. Max(S) = m
    <3> HIDE DEF S
    <3> QED
      BY <2>3, <2>4, MaxIs
  <2> QED
    BY <2>5 DEF m
<1> QED
  BY <1>9, <1>10 DEF B, l

Text(q) ==
  /\ q.sent.text \in Seq(Tokens) /\ q.sent.length \in Nat /\ q.sent.method \in {"GET", "POST", "BAD"}
  /\ Marked(q.sent) /\ q.got \in Nat /\ q.got <= Len(q.sent.text)

(* The buffer holds what came of the head, which is not whole.             *)
Heading(q) ==
  /\ q.bf = SubSeq(q.sent.text, 1, q.got) /\ q.post = <<>>
  /\ HeadsTo(q.sent.text, q.got) = {} /\ q.nline = LastLine(q.sent.text, q.got)

(* The stream and the buffer hold what came of the data.                   *)
Posting(q) ==
  /\ q.sent.method = "POST" /\ q.sent.head \in Nat /\ q.sent.head <= q.got
  /\ q.got + q.left = q.sent.head + q.sent.length
  /\ q.post \o q.bf = SubSeq(q.sent.text, q.sent.head + 1, q.got)
  /\ q.instrm = "none" => q.post = <<>>

TheData(q) == SubSeq(q.sent.text, q.sent.head + 1, q.sent.head + q.sent.length)

(* The data are all there, in the buffer or in the stream.                 *)
Ready(q) ==
  q.sent.method = "POST" => IF q.instrm = "none" THEN q.bf = TheData(q) ELSE q.post = TheData(q)

Posted(q) ==
  /\ Text(q)
  /\ q.stage = "new" \/ q.op.kind = "head" => Heading(q)
  /\ q.op.kind = "post" => Posting(q) /\ (q.instrm # "none" => q.bf = <<>>)
  /\ q.stage \in {"performing", "responding", "FINISHED"} /\ q.sent.method = "POST" => q.post = TheData(q)

LEMMA EndsPosted ==
  ASSUME NEW q, Idle(q), Text(q), NEW s \in Over,
         s = "FINISHED" /\ q.sent.method = "POST" => q.post = TheData(q)
  PROVE  Posted(Ends(q, s))
<1> DEFINE d == Ends(q, s)
<1>1. /\ d.stage = s /\ d.op = NoOp /\ d.sent = q.sent /\ d.got = q.got /\ d.post = q.post
  BY DEF Idle, IsRqst, Fields, Ends
<1> HIDE DEF d
<1>2. Text(d) /\ (s = "FINISHED" /\ d.sent.method = "POST" => d.post = TheData(d))
  BY <1>1 DEF Text, TheData
<1> QED
  BY <1>1, <1>2 DEF Posted, NoOp, Over, X!Last, d

(* A send leaves the posted data alone.                                    *)
LEMMA SendPosted ==
  ASSUME NEW q, Idle(q), q.stage = "responding", Text(q), NEW n,
         q.sent.method = "POST" => q.post = TheData(q)
  PROVE  Posted(Tcp_Aio_Send(q, n))
<1> DEFINE d == Tcp_Aio_Send(q, n)
<1>1. /\ d.stage = "responding" /\ d.op.kind = "send" /\ d.sent = q.sent /\ d.got = q.got
      /\ d.post = q.post
  BY DEF Idle, IsRqst, Fields, Tcp_Aio_Send, Asks
<1> HIDE DEF d
<1>2. Text(d) /\ (d.sent.method = "POST" => d.post = TheData(d))
  BY <1>1 DEF Text, TheData
<1> QED
  BY <1>1, <1>2 DEF Posted, d

LEMMA ContinuePosted ==
  ASSUME NEW q, Idle(q), Text(q), q.sent.method = "POST" => q.post = TheData(q),
         NEW b, NEW p \in Httpd_Continue_Request(q, b)
  PROVE  Posted(p)
<1>1. PICK a \in Httpd_Gen_Response(q, b) : p = Tcp_Aio_Send(a, Len(a.bf))
  BY DEF Httpd_Continue_Request
<1>2. Idle(a) /\ a.stage = "responding"
  BY GenGoes
<1>3. a.sent = q.sent /\ a.got = q.got /\ a.post = q.post
  BY DEF Httpd_Gen_Response, Idle, IsRqst, Fields
<1>4. Text(a) /\ (a.sent.method = "POST" => a.post = TheData(a))
  BY <1>3 DEF Text, TheData
<1> QED
  BY <1>1, <1>2, <1>4, SendPosted

LEMMA SendingPosted ==
  ASSUME NEW q, Idle(q), q.stage = "responding", Text(q),
         q.sent.method = "POST" => q.post = TheData(q), NEW p \in Cbk_Httpd_Sending_Result(q)
  PROVE  Posted(p)
<1>1. Posted(Ends(q, "FINISHED"))
  BY EndsPosted DEF Over, X!Last
<1>2. ASSUME NEW n PROVE Posted(SendMore(q, n))
  <2> DEFINE d == [q EXCEPT !.bf = Data(q, n), !.read = @ + n, !.left = @ - n]
  <2>1. Idle(d) /\ d.stage = "responding" /\ d.sent = q.sent /\ d.got = q.got /\ d.post = q.post
    BY DEF Idle, IsRqst, Fields, NoOp
  <2> HIDE DEF d
  <2>2. Text(d) /\ (d.sent.method = "POST" => d.post = TheData(d))
    BY <2>1 DEF Text, TheData
  <2>3. Posted(Tcp_Aio_Send(d, n))
    BY <2>1, <2>2, SendPosted
  <2> QED
    BY <1>1, <2>3 DEF SendMore, d
<1>3. ASSUME NEW n PROVE Posted(SendChunk(q, n))
  <2> DEFINE d == [q EXCEPT !.bf = Chunk(q, n), !.read = @ + n,
                            !.out.length = IF n = 0 THEN 1 ELSE @,
                            !.left = IF n = 0 THEN 0 ELSE @]
  <2>1. Idle(d) /\ d.stage = "responding" /\ d.sent = q.sent /\ d.got = q.got /\ d.post = q.post
    BY DEF Idle, IsRqst, Fields, NoOp
  <2> HIDE DEF d
  <2>2. Text(d) /\ (d.sent.method = "POST" => d.post = TheData(d))
    BY <2>1 DEF Text, TheData
  <2>3. Posted(Tcp_Aio_Send(d, n))
    BY <2>1, <2>2, SendPosted
  <2> QED
    BY <2>3 DEF SendChunk, d
<1> QED
  BY <1>1, <1>2, <1>3 DEF Cbk_Httpd_Sending_Result

LEMMA PerformPosted ==
  ASSUME NEW q, Idle(q), Text(q), Ready(q), NEW p \in Httpd_Perform_Request(q)
  PROVE  Posted(p)
<1> DEFINE d == IF q.sent.method = "POST" /\ q.instrm = "none"
                THEN [q EXCEPT !.instrm = "bf", !.post = q.bf] ELSE q
<1>1. Idle(d) /\ d.sent = q.sent /\ d.got = q.got
  BY DEF Idle, IsRqst, Fields
<1>2. d.sent.method = "POST" => d.post = TheData(q)
  BY DEF Idle, IsRqst, Fields, Ready
<1> HIDE DEF d
<1>3. Text(d) /\ (d.sent.method = "POST" => d.post = TheData(d))
  BY <1>1, <1>2 DEF Text, TheData
<1>4. CASE p = [d EXCEPT !.stage = "performing"]
  <2>1. /\ p.stage = "performing" /\ p.op = NoOp /\ p.sent = d.sent /\ p.got = d.got
        /\ p.post = d.post
    BY <1>1, <1>4 DEF Idle, IsRqst, Fields
  <2>2. Text(p) /\ (p.sent.method = "POST" => p.post = TheData(p))
    BY <1>3, <2>1 DEF Text, TheData
  <2> QED
    BY <2>1, <2>2 DEF Posted, NoOp
<1>5. CASE \E b \in Bodies : p \in Httpd_Continue_Request(d, b)
  BY <1>1, <1>3, <1>5, ContinuePosted
<1> QED
  BY <1>4, <1>5 DEF Httpd_Perform_Request, d

LEMMA RecvPosted ==
  ASSUME NEW q, Takes(q), Text(q), Posting(q), q.instrm # "none" => q.bf = <<>>, NEW n
  PROVE  Posted(RecvPostdta(Buffer_Grow_Reserve(q, n)))
<1> DEFINE d == Buffer_Grow_Reserve(q, n)
           p == RecvPostdta(d)
<1>1. /\ IsRqst(d) /\ d.stage = q.stage /\ d.sent = q.sent /\ d.got = q.got /\ d.post = q.post
      /\ d.bf = q.bf /\ d.left = q.left /\ d.instrm = q.instrm
  BY DEF Takes, Idle, IsRqst, Fields, Buffer_Grow_Reserve
<1> HIDE DEF d
<1>2. /\ p.stage = d.stage /\ p.op.kind = "post" /\ p.sent = d.sent /\ p.got = d.got
      /\ p.post = d.post /\ p.bf = d.bf /\ p.left = d.left /\ p.instrm = d.instrm
  BY <1>1 DEF RecvPostdta, Tcp_Aio_Recv, Asks, IsRqst, Fields
<1> HIDE DEF p
<1>3. Text(p)
  BY <1>1, <1>2 DEF Text
<1>4. Posting(p)
  BY <1>1, <1>2 DEF Posting
<1>5. p.stage \in Coming
  BY <1>1, <1>2 DEF Takes
<1>6. p.instrm # "none" => p.bf = <<>>
  BY <1>1, <1>2
<1> QED
  BY <1>2, <1>3, <1>4, <1>5, <1>6 DEF Posted, Coming, p, d

LEMMA PostOrPerformPosted ==
  ASSUME NEW q, Takes(q), Text(q), Posting(q), q.instrm # "none" => q.bf = <<>>,
         NEW p \in PostOrPerform(q)
  PROVE  Posted(p)
<1>1. q.stage \notin Over
  BY DEF Takes, Coming, Over, X!Last
<1>2. CASE q.left > 0 /\ p = RecvPostdta(Buffer_Grow_Reserve(q, Len(q.bf) + GROW))
  BY <1>2, RecvPosted
<1>3. CASE ~ (q.left > 0) /\ p \in Httpd_Perform_Request(q)
  <2>1. q.left = 0
    BY <1>3 DEF Takes, Sizes
  <2>2. q.got = q.sent.head + q.sent.length
    BY <2>1 DEF Posting, Text
  <2>3. q.post \o q.bf = TheData(q)
    BY <2>2 DEF Posting, TheData
  <2>4. q.post \in Seq(Tokens) /\ q.bf \in Seq(Tokens)
    BY DEF Takes, Sizes
  <2>5. \A s \in Seq(Tokens) : s \o <<>> = s /\ <<>> \o s = s
    BY ConcatEmptySeq
  <2>6. Ready(q)
    BY <2>3, <2>4, <2>5 DEF Ready, Posting
  <2> QED
    BY <1>3, <2>6, PerformPosted DEF Takes
<1> QED
  BY <1>1, <1>2, <1>3 DEF PostOrPerform

LEMMA StoredPosted ==
  ASSUME NEW q, Takes(q), Text(q), Posting(q), NEW s \in {q, [q EXCEPT !.stage = "storing"]}
  PROVE  /\ Takes(Stored(s)) /\ Text(Stored(s)) /\ Posting(Stored(s))
         /\ Stored(s).instrm # "none" => Stored(s).bf = <<>>
<1> DEFINE d == Stored(s)
<1>1. Takes(d) /\ d.bf = <<>>
  BY StoredTakes
<1>2. /\ d.sent = q.sent /\ d.got = q.got /\ d.left = q.left /\ d.instrm = "file"
      /\ d.post = q.post \o q.bf
  BY DEF Takes, Idle, IsRqst, Fields, Stored
<1> HIDE DEF d
<1>3. q.post \o q.bf \in Seq(Tokens)
  BY ConcatLen DEF Takes, Sizes
<1>4. d.post \o d.bf = q.post \o q.bf
  <2>1. (q.post \o q.bf) \o <<>> = q.post \o q.bf
    BY <1>3, ConcatEmptySeq
  <2> QED
    BY <1>1, <1>2, <2>1
<1>5. Text(d)
  BY <1>2 DEF Text
<1>6. Posting(d)
  BY <1>2, <1>4 DEF Posting
<1> QED
  BY <1>1, <1>5, <1>6 DEF d

LEMMA GettingPostdtaPosted ==
  ASSUME NEW q, Takes(q), Text(q), q.sent.method = "POST", q.instrm # "none" => q.bf = <<>>,
         NEW f \in Nat, NEW n \in Nat, q.got = f + n, n <= q.left,
         Len(q.bf) + n <= q.cap, Posting([q EXCEPT !.got = f]),
         NEW p \in Cbk_Httpd_Getting_Postdta(q, SubSeq(q.sent.text, f + 1, f + n))
  PROVE  Posted(p)
<1> DEFINE bytes == SubSeq(q.sent.text, f + 1, f + n)
           c == [q EXCEPT !.bf = @ \o bytes]
           d == [q EXCEPT !.bf = @ \o bytes, !.left = @ - Len(bytes)]
           e == [q EXCEPT !.got = f]
<1>1. bytes \in Seq(Tokens) /\ Len(bytes) = n
  BY SubSeqFrom DEF Text
<1> HIDE DEF bytes
<1>2. Takes(c) /\ q.left \in Nat /\ q.left - n \in Nat
  <2>1. Takes(c)
    BY <1>1, TakesMore
  <2>2. q.left \in Nat
    BY DEF Takes, Sizes
  <2> QED
    BY <2>1, <2>2
<1>3. Takes(d)
  BY <1>1, <1>2 DEF Takes, Idle, IsRqst, Fields, Sizes, Unsent
<1>4. /\ d.sent = q.sent /\ d.got = f + n /\ d.post = q.post /\ d.bf = q.bf \o bytes
      /\ d.left = q.left - n /\ d.instrm = q.instrm
  BY <1>1 DEF Takes, Idle, IsRqst, Fields
<1>5. /\ e.sent = q.sent /\ e.got = f /\ e.post = q.post /\ e.bf = q.bf /\ e.left = q.left
      /\ e.instrm = q.instrm
  BY DEF Takes, Idle, IsRqst, Fields
<1>6. /\ q.sent.head \in Nat /\ q.sent.head <= f /\ f + q.left = q.sent.head + q.sent.length
      /\ q.post \o q.bf = SubSeq(q.sent.text, q.sent.head + 1, f)
      /\ (q.instrm = "none" => q.post = <<>>)
  <2>1. Posting(e)
    OBVIOUS
  <2> HIDE DEF e
  <2> QED
    BY <1>5, <2>1 DEF Posting
<1> HIDE DEF d, e
<1>7. q.post \o (q.bf \o bytes) = SubSeq(q.sent.text, q.sent.head + 1, f + n)
  <2>1. q.post \in Seq(Tokens) /\ q.bf \in Seq(Tokens)
    BY DEF Takes, Sizes
  <2>2. q.post \o (q.bf \o bytes) = (q.post \o q.bf) \o bytes
    BY <1>1, <2>1, ConcatAssoc
  <2>3. q.sent.text \in Seq(Tokens) /\ Len(q.sent.text) \in Nat /\ f + n <= Len(q.sent.text)
          /\ q.sent.head + 1 \in 1 .. Len(q.sent.text) + 1
          /\ f \in (q.sent.head + 1) - 1 .. Len(q.sent.text)
          /\ f + n \in f .. Len(q.sent.text)
    BY <1>6, LenProperties DEF Text
  <2>4. SubSeq(q.sent.text, q.sent.head + 1, f) \o SubSeq(q.sent.text, f + 1, f + n)
          = SubSeq(q.sent.text, q.sent.head + 1, f + n)
    BY <2>3, ConcatAdjacentSubSeq
  <2> QED
    BY <1>6, <2>2, <2>4 DEF bytes
<1>8. f + n + (q.left - n) = q.sent.head + q.sent.length /\ q.sent.head <= f + n
  <2> DEFINE l == q.left
             h == q.sent.head
             m == q.sent.length
  <2>1. l \in Nat /\ h \in Nat /\ m \in Nat /\ h <= f /\ f + l = h + m
    BY <1>2, <1>6 DEF Text
  <2> HIDE DEF l, h, m
  <2>2. f + n + (l - n) = h + m /\ h <= f + n
    BY ONLY f \in Nat, n \in Nat, <2>1
  <2> QED
    BY <2>2 DEF l, h, m
<1>9. Text(d)
  BY <1>4 DEF Text
<1>10. Posting(d)
  BY <1>4, <1>6, <1>7, <1>8 DEF Posting
<1>11. CASE d.instrm = "none" /\ p \in PostOrPerform(d)
  BY <1>3, <1>9, <1>10, <1>11, PostOrPerformPosted
<1>12. ASSUME NEW s \in Store(d), p \in PostOrPerform(s)
       PROVE  Posted(p)
  <2>1. CASE s = Ends(d, "LONGRQST")
    <3>1. s.stage = "LONGRQST" /\ Posted(s)
      BY <1>3, <1>9, <2>1, EndsPosted DEF Ends, Takes, Idle, IsRqst, Fields, Over, X!Last
    <3>2. p = s
      BY <1>12, <3>1 DEF PostOrPerform, Over, X!Last
    <3> QED
      BY <3>1, <3>2
  <2>2. CASE s = Stored(d) \/ s = Stored([d EXCEPT !.stage = "storing"])
    <3>1. Takes(s) /\ Text(s) /\ Posting(s) /\ (s.instrm # "none" => s.bf = <<>>)
      BY <1>3, <1>9, <1>10, <2>2, StoredPosted
    <3> QED
      BY <1>12, <3>1, PostOrPerformPosted
  <2> QED
    BY <2>1, <2>2 DEF Store
<1>13. \/ d.instrm = "none" /\ p \in PostOrPerform(d)
       \/ \E s \in Store(d) : p \in PostOrPerform(s)
  BY DEF Cbk_Httpd_Getting_Postdta, bytes, d
<1> QED
  BY <1>11, <1>12, <1>13

LEMMA SubSub ==
  ASSUME NEW s \in Seq(Tokens), NEW i \in 1 .. Len(s), NEW j \in 1 .. Len(s),
         NEW m \in 1 .. j - i + 1, NEW n \in 1 .. j - i + 1
  PROVE  SubSeq(SubSeq(s, i, j), m, n) = SubSeq(s, i + m - 1, i + n - 1)
  BY SubSeqOfSubSeq

LEMMA AnalyzePosted ==
  ASSUME NEW q, Takes(q), q.instrm = "none", q.post = <<>>, Text(q),
         q.bf = SubSeq(q.sent.text, 1, q.got), q.sent.head \in Nat, q.sent.head <= q.got,
         NEW p \in Httpd_Analyze(q, q.sent.head)
  PROVE  Posted(p)
<1> DEFINE T == q.sent.text
           h == q.sent.head
           a == [q EXCEPT !.nline = h]
<1>1. Takes(a) /\ Text(a) /\ a.sent = q.sent
  BY DEF Takes, Idle, IsRqst, Fields, Sizes, Unsent, Text
<1> HIDE DEF a
<1>2. CASE q.sent.method = "BAD"
  BY <1>1, <1>2, EndsPosted DEF Httpd_Analyze, Takes, Over, X!Last, a
<1>3. CASE q.sent.method = "GET"
  BY <1>1, <1>3, PerformPosted DEF Httpd_Analyze, Takes, Ready, a
<1>4. CASE q.sent.method = "POST"
  <2> DEFINE rest == SubSeq(q.bf, h + 1, Len(q.bf))
             d == [q EXCEPT !.nline = h, !.bf = rest, !.left = q.sent.length]
             e == [d EXCEPT !.bf = SubSeq(rest, 1, d.left)]
             f == [d EXCEPT !.left = @ - Len(rest)]
  <2>1. T \in Seq(Tokens) /\ Len(T) \in Nat /\ q.got \in Nat /\ q.got <= Len(T) /\ q.sent.length \in Nat
    BY LenProperties DEF Text
  <2>2. q.bf \in Seq(Tokens) /\ Len(q.bf) = q.got /\ \A i \in 1 .. q.got : q.bf[i] = T[i]
    <3>1. \A i \in 1 .. q.got : T[i] \in Tokens
      BY <2>1, ElementOfSeq
    <3>2. 1 \in Int /\ q.got \in Int
      BY <2>1
    <3>3. /\ q.bf \in Seq(Tokens) /\ Len(q.bf) = IF 1 <= q.got THEN q.got - 1 + 1 ELSE 0
          /\ \A i \in 1 .. q.got - 1 + 1 : q.bf[i] = T[1 + i - 1]
      BY <3>1, <3>2, SubSeqProperties
    <3> QED
      BY <2>1, <3>3
  <2>3. rest = SubSeq(T, h + 1, q.got)
    <3>1. CASE h = q.got
      <4>1. h + 1 \in Int /\ q.got \in Int /\ q.got < h + 1
        BY <2>1, <3>1
      <4> QED
        BY <2>2, <4>1, SubSeqEmpty
    <3>2. CASE h < q.got
      <4>1. /\ 1 \in 1 .. Len(T) /\ q.got \in 1 .. Len(T)
            /\ h + 1 \in 1 .. q.got - 1 + 1 /\ q.got \in 1 .. q.got - 1 + 1
        BY <2>1, <3>2
      <4>2. SubSeq(SubSeq(T, 1, q.got), h + 1, q.got) = SubSeq(T, 1 + (h + 1) - 1, 1 + q.got - 1)
        BY <2>1, <4>1, SubSub
      <4>3. 1 + (h + 1) - 1 = h + 1 /\ 1 + q.got - 1 = q.got
        BY <2>1
      <4> QED
        BY <2>2, <4>2, <4>3
    <3>3. h = q.got \/ h < q.got
      BY <2>1
    <3> QED
      BY <3>1, <3>2, <3>3
  <2>4. rest \in Seq(Tokens) /\ Len(rest) = q.got - h
    <3>1. q.got - h \in Nat /\ h + (q.got - h) = q.got
      BY <2>1
    <3>2. SubSeq(T, h + 1, h + (q.got - h)) \in Seq(Tokens) /\ Len(SubSeq(T, h + 1, h + (q.got - h))) = q.got - h
      BY <2>1, <3>1, SubSeqFrom
    <3> QED
      BY <2>3, <3>1, <3>2
  <2> HIDE DEF rest
  <2>5. /\ Idle(d) /\ d.stage = q.stage /\ d.left = q.sent.length /\ d.bf = rest /\ d.sent = q.sent
        /\ d.got = q.got /\ d.instrm = "none" /\ d.post = <<>>
    BY DEF Takes, Idle, IsRqst, Fields
  <2>6. \/ Len(rest) >= d.left /\ p \in Httpd_Perform_Request(e)
        \/ ~ (Len(rest) >= d.left) /\ p = RecvPostdta(Buffer_Grow_Reserve(f, MAXPOST))
    BY <1>4 DEF Httpd_Analyze, rest
  <2>7. Len(rest) <= q.cap
    BY <2>1, <2>2, <2>4 DEF Takes, Sizes
  <2>8. Takes(d)
    BY <2>1, <2>4, <2>7 DEF Takes, Idle, IsRqst, Fields, Sizes, Unsent
  <2> HIDE DEF d
  <2>9. ASSUME Len(rest) >= d.left PROVE Idle(e) /\ Text(e) /\ Ready(e)
    <3>1. /\ Idle(e) /\ e.sent = q.sent /\ e.got = q.got /\ e.instrm = "none"
          /\ e.bf = SubSeq(rest, 1, q.sent.length)
      BY <2>5 DEF Idle, IsRqst, Fields
    <3>2. SubSeq(rest, 1, q.sent.length) = SubSeq(T, h + 1, h + q.sent.length)
      <4>1. CASE q.sent.length = 0
        <5>1. 1 \in Int /\ h + 1 \in Int /\ h + 0 \in Int /\ 0 \in Int /\ 0 < 1 /\ h + 0 < h + 1
          OBVIOUS
        <5> QED
          BY <4>1, <5>1, SubSeqEmpty
      <4>2. CASE q.sent.length > 0
        <5> DEFINE N == q.sent.length
                   g == q.got
        <5>4. N \in Nat /\ N > 0 /\ g \in Nat /\ h \in Nat /\ N <= g - h /\ g <= Len(T)
          BY <2>1, <2>4, <2>5, <2>9, <4>2
        <5> HIDE DEF N, g, h
        <5>1. h + 1 \in 1 .. Len(T) /\ g \in 1 .. Len(T) /\ 1 \in 1 .. g - (h + 1) + 1 /\ N \in 1 .. g - (h + 1) + 1
          BY <2>1, <5>4
        <5>2. SubSeq(SubSeq(T, h + 1, g), 1, N) = SubSeq(T, (h + 1) + 1 - 1, (h + 1) + N - 1)
          BY <2>1, <5>1, SubSub
        <5>3. (h + 1) + 1 - 1 = h + 1 /\ (h + 1) + N - 1 = h + N
          BY <5>4
        <5> QED
          BY <2>3, <5>2, <5>3 DEF N, g, h
      <4>3. q.sent.length = 0 \/ q.sent.length > 0
        BY <2>1
      <4> QED
        BY <4>1, <4>2, <4>3
    <3> HIDE DEF e
    <3> QED
      BY <3>1, <3>2 DEF Text, Ready, TheData
  <2>10. ASSUME ~ (Len(rest) >= d.left) PROVE Takes(f) /\ Text(f) /\ Posting(f) /\ f.instrm = "none"
    <3>1. q.sent.length - (q.got - h) \in Nat
      BY <2>1, <2>4, <2>5, <2>10
    <3>2. Takes(f)
      BY <2>4, <2>5, <2>8, <3>1 DEF Takes, Idle, IsRqst, Fields, Sizes, Unsent
    <3>3. /\ f.sent = q.sent /\ f.got = q.got /\ f.post = <<>> /\ f.bf = rest
          /\ f.left = q.sent.length - (q.got - h) /\ f.instrm = "none"
      BY <2>4, <2>5 DEF Idle, IsRqst, Fields
    <3> HIDE DEF f
    <3>4. <<>> \o rest = rest
      BY <2>4, ConcatEmptySeq
    <3>5. q.got + (q.sent.length - (q.got - h)) = h + q.sent.length
      BY <2>1
    <3>6. Text(f)
      BY <3>3 DEF Text
    <3>7. Posting(f)
      BY <1>4, <2>3, <3>3, <3>4, <3>5 DEF Posting
    <3> QED
      BY <3>2, <3>3, <3>6, <3>7
  <2> HIDE DEF e, f
  <2> QED
    BY <2>6, <2>9, <2>10, PerformPosted, RecvPosted
<1> QED
  BY <1>2, <1>3, <1>4 DEF Text

LEMMA HeadEndsPlaces ==
  ASSUME NEW T \in Seq(Tokens)
  PROVE  LineEnds(T, 0) \subseteq Nat \ {0} /\ HeadEnds(T, 0) \subseteq Nat \ {0}
<1>1. Len(T) \in Nat
  BY LenProperties
<1>2. LineEnds(T, 0) \subseteq Nat \ {0}
  BY <1>1 DEF LineEnds
<1>3. HeadEnds(T, 0) \subseteq LineEnds(T, 0)
  BY DEF HeadEnds
<1> QED
  BY <1>2, <1>3

LEMMA GettingRequestPosted ==
  ASSUME NEW q, Takes(q), q.stage = "reading", q.instrm = "none", q.post = <<>>, Text(q),
         NEW f \in Nat, NEW n \in Nat, q.got = f + n, Len(q.bf) + n <= q.cap,
         q.bf = SubSeq(q.sent.text, 1, f), HeadsTo(q.sent.text, f) = {},
         q.nline = LastLine(q.sent.text, f),
         NEW p \in Cbk_Httpd_Getting_Request(q, SubSeq(q.sent.text, f + 1, f + n), <<>>)
  PROVE  /\ Posted(p)
         /\ p.stage = "LONGRQST" \/ p.op.kind = "head" \/ q.sent.head <= q.got
<1> DEFINE T == q.sent.text
           bytes == SubSeq(T, f + 1, f + n)
           d == [q EXCEPT !.bf = @ \o bytes]
           at == d.bf \o <<>>
           e == [d EXCEPT !.nline = Max({@} \cup LineEnds(at, @))]
<1>1. T \in Seq(Tokens) /\ Len(T) \in Nat /\ f + n <= Len(T) /\ q.got = f + n
  BY LenProperties DEF Text
<1>2. bytes \in Seq(Tokens) /\ Len(bytes) = n
  BY <1>1, SubSeqFrom
<1>3. q.bf \o bytes = SubSeq(T, 1, f + n)
  <2>1. /\ 1 \in 1 .. Len(T) + 1 /\ f \in 1 - 1 .. Len(T) /\ f + n \in f .. Len(T)
    BY <1>1
  <2>2. SubSeq(T, 1, f) \o SubSeq(T, f + 1, f + n) = SubSeq(T, 1, f + n)
    BY <1>1, <2>1, ConcatAdjacentSubSeq
  <2> QED
    BY <2>2
<1> HIDE DEF bytes
<1>4. Takes(d)
  BY <1>2, TakesMore
<1>5. /\ d.stage = "reading" /\ d.sent = q.sent /\ d.got = q.got /\ d.post = <<>>
      /\ d.bf = SubSeq(T, 1, q.got) /\ d.nline = q.nline /\ d.instrm = "none"
  BY <1>1, <1>3 DEF Takes, Idle, IsRqst, Fields
<1>6. Text(d)
  BY <1>5 DEF Text
<1>7. \/ p = Ends(d, "LONGRQST")
      \/ HeadEnds(at, d.nline) # {} /\ p \in Httpd_Analyze(d, Min(HeadEnds(at, d.nline)))
      \/ HeadEnds(at, d.nline) = {} /\ p = Tcp_Aio_Recv(e, "head", d.cap - Len(d.bf), 1)
  BY DEF Cbk_Httpd_Getting_Request, bytes
<1> HIDE DEF d
<1>8. at = d.bf
  <2>1. d.bf \in Seq(Tokens)
    BY <1>4 DEF Takes, Sizes
  <2> QED
    BY <2>1, ConcatEmptySeq
<1> HIDE DEF at
<1>9. /\ HeadEnds(at, d.nline) = HeadsTo(T, q.got)
      /\ Max({d.nline} \cup LineEnds(at, d.nline)) = LastLine(T, q.got)
  <2> DEFINE g == q.got
  <2>1. g \in Nat /\ f <= g /\ g <= Len(T)
    BY <1>1
  <2>2. at = SubSeq(T, 1, g) /\ d.nline = LastLine(T, f)
    BY <1>5, <1>8
  <2> HIDE DEF g
  <2>3. LET B == SubSeq(T, 1, g)
        IN  /\ HeadEnds(B, LastLine(T, f)) = HeadsTo(T, g)
            /\ Max({LastLine(T, f)} \cup LineEnds(B, LastLine(T, f))) = LastLine(T, g)
    BY <1>1, <2>1, ScanGoesOn
  <2> QED
    BY <2>2, <2>3 DEF g
<1>10. CASE p = Ends(d, "LONGRQST")
  <2>1. Posted(p)
    BY <1>4, <1>6, <1>10, EndsPosted DEF Takes, Over, X!Last
  <2>2. p.stage = "LONGRQST"
    BY <1>4, <1>10 DEF Ends, Takes, Idle, IsRqst, Fields
  <2> QED
    BY <2>1, <2>2
<1>11. CASE HeadEnds(at, d.nline) # {} /\ p \in Httpd_Analyze(d, Min(HeadEnds(at, d.nline)))
  <2> DEFINE A == HeadEnds(T, 0)
             S == HeadsTo(T, q.got)
  <2>1. A \subseteq Nat /\ S # {} /\ S \subseteq A /\ S \subseteq Nat
    <3>1. A \subseteq Nat
      BY <1>1, HeadEndsPlaces
    <3>2. S \subseteq A
      BY DEF HeadsTo
    <3> QED
      BY <1>9, <1>11, <3>1, <3>2
  <2>2. \A k \in A : k \in S <=> k <= q.got
    BY DEF HeadsTo
  <2> HIDE DEF A, S
  <2>3. Min(A) \in A /\ (\A x \in A : Min(A) <= x) /\ Min(S) \in S /\ (\A x \in S : Min(S) <= x)
    BY <2>1, Lowest
  <2>4. Min(A) <= Min(S) /\ Min(S) <= q.got /\ Min(A) \in Nat /\ Min(S) \in Nat /\ q.got \in Nat
    <3>1. Min(S) \in A /\ Min(A) \in Nat /\ Min(S) \in Nat
      BY <2>1, <2>3
    <3>2. q.got \in Nat
      BY <1>1
    <3> QED
      BY <2>2, <2>3, <3>1, <3>2
  <2>5. Min(A) \in S
    <3>1. Min(A) <= q.got
      BY <2>4
    <3> QED
      BY <2>2, <2>3, <3>1
  <2>6. Min(S) = Min(A)
    <3>1. Min(S) <= Min(A)
      BY <2>3, <2>5
    <3> QED
      BY <2>4, <3>1
  <2>7. q.sent.head = Min(A)
    <3>1. A # {}
      BY <2>1
    <3> QED
      BY <3>1 DEF Text, Marked, A
  <2>8. /\ d.sent.head = Min(S) /\ d.sent.head \in Nat /\ d.sent.head <= d.got
        /\ q.sent.head <= q.got
    BY <1>5, <2>4, <2>6, <2>7
  <2>9. p \in Httpd_Analyze(d, d.sent.head)
    BY <1>9, <1>11, <2>8 DEF S
  <2> QED
    BY <1>4, <1>5, <1>6, <2>8, <2>9, AnalyzePosted
<1>12. CASE HeadEnds(at, d.nline) = {} /\ p = Tcp_Aio_Recv(e, "head", d.cap - Len(d.bf), 1)
  <2>1. /\ IsRqst(e) /\ e.stage = "reading" /\ e.sent = d.sent /\ e.got = d.got /\ e.bf = d.bf
        /\ e.post = d.post /\ e.nline = LastLine(T, q.got)
    BY <1>4, <1>5, <1>9 DEF Takes, Idle, IsRqst, Fields
  <2> HIDE DEF e
  <2>2. /\ p.op.kind = "head" /\ p.stage = "reading" /\ p.sent = d.sent /\ p.got = d.got
        /\ p.bf = d.bf /\ p.post = d.post /\ p.nline = LastLine(T, q.got)
    BY <1>12, <2>1 DEF Tcp_Aio_Recv, Asks, IsRqst, Fields
  <2>3. Text(p)
    BY <1>6, <2>2 DEF Text
  <2>4. Heading(p)
    BY <1>5, <1>9, <1>12, <2>2 DEF Heading
  <2> QED
    BY <2>2, <2>3, <2>4 DEF Posted
<1> QED
  BY <1>7, <1>10, <1>11, <1>12

Delivered == \A r \in Rqsts : Posted(rq[r])

LEMMA InitDelivered ==
  ASSUME Init
  PROVE  Delivered
<1> SUFFICES ASSUME NEW w \in Wires, rq = [r \in Rqsts |-> Fresh(w[r])], NEW r \in Rqsts
             PROVE  Posted(Fresh(w[r]))
  BY DEF Init, Delivered
<1> DEFINE d == Fresh(w[r])
           T == w[r].text
<1>1. /\ d.stage = "new" /\ d.op = NoOp /\ d.bf = <<>> /\ d.post = <<>> /\ d.got = 0
      /\ d.nline = 0 /\ d.sent = w[r]
  BY DEF Fresh
<1> HIDE DEF d
<1>2. T \in Seq(Tokens) /\ Len(T) \in Nat
  BY TextSeq, LenProperties
<1>3. w[r].length \in Nat /\ w[r].method \in {"GET", "POST", "BAD"} /\ Marked(w[r])
  BY HttpdAssumption, HeadsMarked
<1>4. Text(d)
  BY <1>1, <1>2, <1>3 DEF Text
<1>5. LineEnds(T, 0) \subseteq Nat \ {0} /\ HeadEnds(T, 0) \subseteq Nat \ {0}
  BY <1>2, HeadEndsPlaces
<1>6. LinesTo(T, 0) = {} /\ HeadsTo(T, 0) = {}
  BY <1>5 DEF LinesTo, HeadsTo
<1>7. LastLine(T, 0) = 0
  <2>1. LastLine(T, 0) \in {0} \cup LinesTo(T, 0)
    BY <1>2, LastLineFacts
  <2> QED
    BY <1>6, <2>1
<1>8. SubSeq(T, 1, 0) = <<>>
  <2>1. 1 \in Int /\ 0 \in Int /\ 0 < 1
    OBVIOUS
  <2> QED
    BY <2>1, SubSeqEmpty
<1>9. Heading(d)
  BY <1>1, <1>6, <1>7, <1>8 DEF Heading
<1> QED
  BY <1>1, <1>4, <1>9 DEF Posted, NoOp, d

LEMMA DeliveredReplaced ==
  ASSUME Stagewise, Delivered, NEW r \in Rqsts, NEW p, Replaced(r, p), Posted(p)
  PROVE  Delivered'
<1>1. \A x \in Rqsts : rq'[x] = IF x = r THEN p ELSE rq[x]
  BY DEF Replaced, Stagewise
<1>2. ASSUME NEW x \in Rqsts PROVE Posted(rq'[x])
  <2>1. CASE x = r
    BY <1>1, <2>1
  <2>2. CASE x # r
    <3>1. rq'[x] = rq[x] /\ Posted(rq[x])
      BY <1>1, <2>2 DEF Delivered
    <3> QED
      BY <3>1
  <2> QED
    BY <2>1, <2>2
<1>3. (\A x \in Rqsts : Posted(rq[x]))' <=> \A x \in Rqsts : Posted(rq'[x])
  BY DEF Posted, Text, Heading, Posting, Marked, TheData, HeadsTo, LastLine, LinesTo, HeadEnds,
         LineStart, LineEnds
<1> QED
  BY <1>2, <1>3 DEF Delivered

(* What a receive brings: the next part of what the client sends.          *)
LEMMA ArrivedText ==
  ASSUME Stagewise, Served, Delivered, NEW r \in Rqsts, NEW n \in Nat, Received(r, n),
         rq[r].op.kind \in {"head", "post"}
  PROVE  LET q == rq[r]
             d == Arrived(q, n)
         IN  /\ Takes(d) /\ Text(d) /\ d.stage = q.stage /\ d.sent = q.sent /\ d.post = q.post
             /\ d.bf = q.bf /\ d.cap = q.cap /\ d.left = q.left /\ d.nline = q.nline
             /\ d.instrm = q.instrm /\ q.got \in Nat /\ d.got = q.got + n
             /\ Len(d.bf) + n <= d.cap
             /\ q.op.kind = "post" => n <= d.left
<1>0. IsRqst(rq[r]) /\ Settled(rq[r]) /\ Good(rq[r]) /\ Posted(rq[r]) /\ Text(rq[r])
  BY DEF Stagewise, Served, Delivered, Posted
<1> DEFINE q == rq[r]
           d == Arrived(q, n)
<1>1. n <= q.op.len
  BY <1>0, IncomingFits
<1>2. Takes(d) /\ d.stage = q.stage /\ d.bf = q.bf /\ d.cap = q.cap /\ d.left = q.left
  BY <1>0, ArrivedTakes
<1>3. /\ d.sent = q.sent /\ d.post = q.post /\ d.nline = q.nline /\ d.instrm = q.instrm
      /\ d.got = q.got + n
  BY <1>0 DEF Arrived, Answered, IsRqst, Fields
<1>4. /\ Len(q.bf) + q.op.len <= q.cap /\ q.op.len \in Nat /\ Len(q.bf) \in Nat /\ q.cap \in Nat
      /\ q.left \in Nat /\ (q.op.kind = "post" => q.op.len <= q.left)
  BY <1>0, LenProperties DEF Good, Sizes, Room
<1>5. q.got \in Nat /\ q.got + n <= Len(q.sent.text) /\ Text(q)
  BY <1>0 DEF Received, Text
<1> HIDE DEF d
<1>6. Text(d)
  BY <1>3, <1>5 DEF Text
<1>7. Len(d.bf) + n <= d.cap /\ (q.op.kind = "post" => n <= d.left)
  <2> HIDE DEF q
  <2> QED
    BY <1>1, <1>2, <1>4
<1> QED
  BY <1>2, <1>3, <1>5, <1>6, <1>7 DEF d

(* The scan of the buffer asks for more, gives up, or finds the end of the *)
(* head among what has come.                                               *)
LEMMA RequestArrived ==
  ASSUME CleanBuffers, Stagewise, Served, Delivered, NEW r \in Rqsts, NEW n \in Nat,
         GotRequest(r, n)
  PROVE  LET d == Arrived(rq[r], n)
         IN  \E p \in Cbk_Httpd_Getting_Request(d, Incoming(rq[r], n), <<>>) :
               /\ Replaced(r, p) /\ Posted(p)
               /\ p.stage = "LONGRQST" \/ p.op.kind = "head" \/ d.sent.head <= d.got
<1>0. IsRqst(rq[r]) /\ Settled(rq[r]) /\ Good(rq[r]) /\ Posted(rq[r]) /\ Text(rq[r])
  BY DEF Stagewise, Served, Delivered, Posted
<1> DEFINE q == rq[r]
           d == Arrived(q, n)
<1>1. PICK s \in STRAYS : \E p \in Cbk_Httpd_Getting_Request(d, Incoming(q, n), s) : Replaced(r, p)
  BY DEF GotRequest, Becomes, Replaced
<1>2. s = <<>>
  BY DEF CleanBuffers
<1>3. PICK p \in Cbk_Httpd_Getting_Request(d, Incoming(q, n), <<>>) : Replaced(r, p)
  BY <1>1, <1>2
<1>4. q.op.kind = "head" /\ Received(r, n)
  BY DEF GotRequest, Waits
<1>5. /\ Takes(d) /\ Text(d) /\ d.stage = q.stage /\ d.sent = q.sent /\ d.post = q.post
      /\ d.bf = q.bf /\ d.nline = q.nline /\ d.instrm = q.instrm /\ q.got \in Nat
      /\ d.got = q.got + n /\ Len(d.bf) + n <= d.cap
  BY ArrivedText, <1>4
<1>6. q.stage = "reading" /\ q.instrm = "none" /\ Heading(q)
  BY <1>0, <1>4 DEF Settled, StageOf, Posted
<1> HIDE DEF d
<1>7. Incoming(q, n) = SubSeq(d.sent.text, q.got + 1, q.got + n)
  BY <1>5 DEF Incoming
<1>8. /\ d.bf = SubSeq(d.sent.text, 1, q.got) /\ d.post = <<>> /\ HeadsTo(d.sent.text, q.got) = {}
      /\ d.nline = LastLine(d.sent.text, q.got)
  BY <1>5, <1>6 DEF Heading
<1> HIDE DEF q
<1>9. Posted(p) /\ (p.stage = "LONGRQST" \/ p.op.kind = "head" \/ d.sent.head <= d.got)
  BY <1>3, <1>5, <1>6, <1>7, <1>8, GettingRequestPosted
<1> QED
  BY <1>3, <1>9 DEF d, q

LEMMA DeliveredStep ==
  ASSUME CleanBuffers, Stagewise, Served, Delivered, [Next]_vars
  PROVE  Delivered'
<1>1. \A r \in Rqsts : IsRqst(rq[r]) /\ Settled(rq[r]) /\ Good(rq[r]) /\ Posted(rq[r]) /\ Text(rq[r])
  BY DEF Stagewise, Served, Delivered, Posted
<1>2. ASSUME NEW r \in Rqsts, Cbk_Httpd_Accept(r)
      PROVE  Delivered'
  <2> DEFINE q == [rq[r] EXCEPT !.alive = TRUE]
             a == Tcp_Aio_Recv([q EXCEPT !.stage = "reading"], "head", q.cap, 1)
             b == [q EXCEPT !.stage = "REJECTED"]
  <2>1. rq[r].stage = "new" /\ (Replaced(r, a) \/ Replaced(r, b))
    BY <1>2 DEF Cbk_Httpd_Accept, Becomes, Replaced
  <2>2. rq[r].op = NoOp /\ IsRqst(rq[r]) /\ Heading(rq[r]) /\ Text(rq[r])
    BY <1>1, <2>1 DEF Settled, StageOf, Posted
  <2>3. /\ IsRqst(q) /\ q.op = NoOp /\ q.sent = rq[r].sent /\ q.got = rq[r].got /\ q.bf = rq[r].bf
        /\ q.post = rq[r].post /\ q.nline = rq[r].nline
    BY <2>2 DEF IsRqst, Fields
  <2> HIDE DEF q
  <2>4. Heading(q) /\ Text(q)
    BY <2>2, <2>3 DEF Heading, Text
  <2>5. /\ a.stage = "reading" /\ a.op.kind = "head" /\ a.sent = q.sent /\ a.got = q.got
        /\ a.bf = q.bf /\ a.post = q.post /\ a.nline = q.nline
    BY <2>3 DEF Tcp_Aio_Recv, Asks, IsRqst, Fields
  <2>6. b.stage = "REJECTED" /\ b.op = NoOp /\ b.sent = q.sent /\ b.got = q.got
    BY <2>3 DEF IsRqst, Fields
  <2> HIDE DEF a, b
  <2>7. Heading(a) /\ Text(a) /\ Text(b)
    BY <2>4, <2>5, <2>6 DEF Heading, Text
  <2>8. Posted(a) /\ Posted(b)
    BY <2>5, <2>6, <2>7 DEF Posted, NoOp
  <2> QED
    BY <2>1, <2>8, DeliveredReplaced
<1>3. ASSUME NEW r \in Rqsts, NEW n \in Nat, GotRequest(r, n)
      PROVE  Delivered'
  <2>1. \E p : Replaced(r, p) /\ Posted(p)
    BY <1>3, RequestArrived
  <2> QED
    BY <2>1, DeliveredReplaced
<1>4. ASSUME NEW r \in Rqsts, NEW n \in Nat, GotPostdta(r, n)
      PROVE  Delivered'
  <2> DEFINE q == rq[r]
             d == Arrived(q, n)
             e == [d EXCEPT !.got = q.got]
  <2>1. PICK p \in Cbk_Httpd_Getting_Postdta(d, Incoming(q, n)) : Replaced(r, p)
    BY <1>4 DEF GotPostdta, Becomes, Replaced
  <2>2. q.op.kind = "post" /\ Received(r, n)
    BY <1>4 DEF GotPostdta, Waits
  <2>3. /\ Takes(d) /\ Text(d) /\ d.sent = q.sent /\ d.post = q.post
        /\ d.bf = q.bf /\ d.left = q.left /\ d.instrm = q.instrm /\ q.got \in Nat
        /\ d.got = q.got + n /\ Len(d.bf) + n <= d.cap /\ n <= d.left
    BY <2>2, ArrivedText
  <2>4. Posting(q) /\ (q.instrm # "none" => q.bf = <<>>)
    BY <1>1, <2>2 DEF Posted
  <2> HIDE DEF d
  <2>5. Incoming(q, n) = SubSeq(d.sent.text, q.got + 1, q.got + n)
    BY <2>3 DEF Incoming
  <2>6. /\ e.sent = q.sent /\ e.got = q.got /\ e.post = q.post /\ e.bf = q.bf /\ e.left = q.left
        /\ e.instrm = q.instrm
    BY <2>3 DEF Takes, Idle, IsRqst, Fields
  <2>7. Posting(e)
    <3> HIDE DEF e
    <3> QED
      BY <2>4, <2>6 DEF Posting
  <2>8. d.sent.method = "POST" /\ (d.instrm # "none" => d.bf = <<>>)
    BY <2>3, <2>4 DEF Posting
  <2> DEFINE f == q.got
  <2>9. Posting([d EXCEPT !.got = f]) /\ f \in Nat /\ d.got = f + n
    BY <2>3, <2>7
  <2>10. p \in Cbk_Httpd_Getting_Postdta(d, SubSeq(d.sent.text, f + 1, f + n))
    BY <2>1, <2>5
  <2> HIDE DEF q, e, f
  <2>11. Posted(p)
    BY <2>3, <2>8, <2>9, <2>10, GettingPostdtaPosted
  <2> QED
    BY <2>1, <2>11, DeliveredReplaced
<1>5. ASSUME NEW r \in Rqsts, Sent(r)
      PROVE  Delivered'
  <2> DEFINE a == Answered(rq[r])
             d == [a EXCEPT !.wire = @ \o SubSeq(a.bf, 1, rq[r].op.len)]
  <2>1. rq[r].op.kind = "send" /\ \E p \in Cbk_Httpd_Sending_Result(d) : Replaced(r, p)
    BY <1>5 DEF Sent, Waits, Becomes, Replaced
  <2>2. Idle(a) /\ a.stage = "responding" /\ rq[r].stage = "responding"
    BY <1>1, <2>1, AnsweredIdle DEF Settled, StageOf
  <2>3. a.sent = rq[r].sent /\ a.got = rq[r].got /\ a.post = rq[r].post
    BY <1>1 DEF Answered, IsRqst, Fields
  <2> HIDE DEF a
  <2>4. Idle(d) /\ d.stage = "responding" /\ d.sent = a.sent /\ d.got = a.got /\ d.post = a.post
    BY <2>2 DEF Idle, IsRqst, Fields
  <2> HIDE DEF d
  <2>5. Text(d)
    BY <1>1, <2>3, <2>4 DEF Text
  <2>6. d.sent.method = "POST" => d.post = TheData(d)
    BY <1>1, <2>2, <2>3, <2>4 DEF Posted, TheData
  <2>7. PICK p \in Cbk_Httpd_Sending_Result(d) : Replaced(r, p)
    BY <2>1
  <2>8. Posted(p)
    BY <2>4, <2>5, <2>6, SendingPosted
  <2> QED
    BY <2>7, <2>8, DeliveredReplaced
<1>6. ASSUME NEW r \in Rqsts, IOFail(r)
      PROVE  Delivered'
  <2> DEFINE a == Answered(rq[r])
  <2>1. Replaced(r, Ends(a, "IOFAIL")) /\ rq[r].op.kind # "none"
    BY <1>6 DEF IOFail, Becomes, Replaced, Waits
  <2>2. Idle(a)
    BY <1>1, <2>1, AnsweredIdle
  <2>3. a.sent = rq[r].sent /\ a.got = rq[r].got
    BY <1>1 DEF Answered, IsRqst, Fields
  <2> HIDE DEF a
  <2>4. Text(a)
    BY <1>1, <2>3 DEF Text
  <2>5. Posted(Ends(a, "IOFAIL"))
    BY <2>2, <2>4, EndsPosted DEF Over, X!Last
  <2> QED
    BY <2>1, <2>5, DeliveredReplaced
<1>7. ASSUME NEW r \in Rqsts, Continue(r)
      PROVE  Delivered'
  <2>1. PICK b \in Bodies : \E p \in Httpd_Continue_Request(rq[r], b) : Replaced(r, p)
    BY <1>7 DEF Continue, Becomes, Replaced
  <2>2. Idle(rq[r]) /\ Text(rq[r])
    BY <1>1, <1>7 DEF Continue, Idle, Settled, StageOf, Over, X!Last
  <2>3. rq[r].sent.method = "POST" => rq[r].post = TheData(rq[r])
    BY <1>1, <1>7 DEF Continue, Posted
  <2>4. PICK p \in Httpd_Continue_Request(rq[r], b) : Replaced(r, p)
    BY <2>1
  <2>5. Posted(p)
    BY <2>2, <2>3, <2>4, ContinuePosted
  <2> QED
    BY <2>4, <2>5, DeliveredReplaced
<1>8. ASSUME NEW r \in Rqsts, Destruct(r)
      PROVE  Delivered'
  <2> DEFINE q == rq[r]
             d == [q EXCEPT !.alive = FALSE, !.closed = TRUE]
  <2>1. Replaced(r, d)
    BY <1>8 DEF Destruct, Becomes, Replaced
  <2>2. /\ d.stage = q.stage /\ d.op = q.op /\ d.sent = q.sent /\ d.got = q.got /\ d.bf = q.bf
        /\ d.post = q.post /\ d.nline = q.nline /\ d.left = q.left /\ d.instrm = q.instrm
    BY <1>1 DEF IsRqst, Fields
  <2> HIDE DEF d
  <2>3. Text(d) /\ (Heading(q) => Heading(d)) /\ (Posting(q) => Posting(d)) /\ TheData(d) = TheData(q)
    BY <1>1, <2>2 DEF Text, Heading, Posting, TheData
  <2>4. Posted(d)
    BY <1>1, <2>2, <2>3 DEF Posted
  <2> QED
    BY <2>1, <2>4, DeliveredReplaced
<1>9. ASSUME rq' = rq PROVE Delivered'
  <2>1. \A x \in Rqsts : Posted(rq'[x])
    BY <1>1, <1>9
  <2>2. Delivered' <=> \A x \in Rqsts : Posted(rq'[x])
    BY DEF Delivered, Posted, Text, Heading, Posting, Marked, TheData, HeadsTo, LastLine,
           LinesTo, HeadEnds, LineStart, LineEnds
  <2> QED
    BY <2>1, <2>2
<1>10. \A r \in Rqsts : 0 .. Len(rq[r].sent.text) \subseteq Nat
  BY <1>1, LenProperties DEF Text
<1>11. CASE Next
  BY <1>2, <1>3, <1>4, <1>5, <1>6, <1>7, <1>8, <1>9, <1>10, <1>11
     DEF Next, Handles, AcceptFails, Httpd_Shutdown
<1> QED
  BY <1>9, <1>11 DEF vars, svars

------------------------------------------------------------------------------
(* A request goes on                                                       *)

Onward(q) ==
  /\ q.op.kind \in {"head", "post"} => q.op.min > 0
  /\ q.stage = "responding" => q.out.kind \in {"none", "known", "chunked"}

(* What a handler leaves alone, and makes sure of.                         *)
GoesOn(q, p) == p.got = q.got /\ p.sent = q.sent /\ Onward(p)

LEMMA EndsOn ==
  ASSUME NEW q, Idle(q), NEW s \in Over
  PROVE  GoesOn(q, Ends(q, s))
  BY DEF GoesOn, Onward, Ends, Idle, IsRqst, Fields, NoOp, Over, X!Last

LEMMA ContinueOn ==
  ASSUME NEW q, Idle(q), NEW b \in Bodies, NEW p \in Httpd_Continue_Request(q, b)
  PROVE  GoesOn(q, p)
<1>1. PICK a \in Httpd_Gen_Response(q, b) : p = Tcp_Aio_Send(a, Len(a.bf))
  BY DEF Httpd_Continue_Request
<1>2. Idle(a) /\ a.out = b /\ a.got = q.got /\ a.sent = q.sent
  BY DEF Httpd_Gen_Response, Idle, IsRqst, Fields
<1>3. b.kind \in {"none", "known", "chunked"}
  BY HttpdAssumption
<1>4. p.got = a.got /\ p.sent = a.sent /\ p.out = a.out /\ p.op.kind = "send"
  BY <1>1, <1>2 DEF Tcp_Aio_Send, Asks, Idle, IsRqst, Fields
<1> QED
  BY <1>2, <1>3, <1>4 DEF GoesOn, Onward

LEMMA PerformOn ==
  ASSUME NEW q, Idle(q), NEW p \in Httpd_Perform_Request(q)
  PROVE  GoesOn(q, p)
<1> DEFINE d == IF q.sent.method = "POST" /\ q.instrm = "none"
                THEN [q EXCEPT !.instrm = "bf", !.post = q.bf] ELSE q
<1>1. Idle(d) /\ d.got = q.got /\ d.sent = q.sent
  BY DEF Idle, IsRqst, Fields
<1>2. \/ p = [d EXCEPT !.stage = "performing"]
      \/ \E b \in Bodies : p \in Httpd_Continue_Request(d, b)
  BY DEF Httpd_Perform_Request
<1> HIDE DEF d
<1>3. ASSUME p = [d EXCEPT !.stage = "performing"] PROVE GoesOn(d, p)
  BY <1>1, <1>3 DEF GoesOn, Onward, Idle, IsRqst, Fields, NoOp
<1> QED
  BY <1>1, <1>2, <1>3, ContinueOn DEF GoesOn

(* There is room for what is still to come: a receive of nothing would be  *)
(* answered at once, and asked for again.                                  *)
LEMMA RecvPostdtaOn ==
  ASSUME NEW q, Takes(q), NEW n \in 0 .. MAXPOST + GROW, q.left > 0,
         Len(q.bf) < n \/ Len(q.bf) < q.cap
  PROVE  GoesOn(q, RecvPostdta(Buffer_Grow_Reserve(q, n)))
<1> DEFINE d == Buffer_Grow_Reserve(q, n)
           L == Min({d.cap - Len(d.bf), d.left})
           p == RecvPostdta(d)
<1>1. n \in Nat /\ Pow2(n) \in Nat /\ Pow2(n) >= n
  BY PowersAssumption, HttpdAssumption
<1>2. /\ Idle(d) /\ d.cap = IF q.cap < n THEN Pow2(n) ELSE q.cap
      /\ d.stage = q.stage /\ d.bf = q.bf /\ d.left = q.left /\ d.got = q.got /\ d.sent = q.sent
  BY DEF Takes, Idle, IsRqst, Fields, Buffer_Grow_Reserve
<1> HIDE DEF d
<1>3. /\ Len(d.bf) \in Nat /\ q.cap \in Nat /\ d.left \in Nat /\ d.left > 0
      /\ Len(d.bf) <= q.cap
  BY <1>2, LenProperties DEF Takes, Sizes
<1>4. d.cap - Len(d.bf) \in Nat /\ d.cap - Len(d.bf) > 0
  BY <1>1, <1>2, <1>3
<1>5. L > 0
  BY <1>3, <1>4, MinTwo
<1>6. /\ p.op = [kind |-> "post", len |-> L, min |-> L] /\ p.stage = d.stage
      /\ p.got = d.got /\ p.sent = d.sent
  BY <1>2 DEF RecvPostdta, Tcp_Aio_Recv, Asks, Idle, IsRqst, Fields
<1> HIDE DEF p, L
<1> QED
  BY <1>2, <1>5, <1>6 DEF GoesOn, Onward, Takes, Coming, p, d

LEMMA PostOrPerformOn ==
  ASSUME NEW q, Takes(q), Len(q.bf) <= MAXPOST, NEW p \in PostOrPerform(q)
  PROVE  GoesOn(q, p)
<1>1. q.stage \notin Over /\ Idle(q) /\ q.left \in Nat /\ Len(q.bf) \in Nat
  BY LenProperties DEF Takes, Sizes, Coming, Over, X!Last
<1>2. MAXPOST \in Nat /\ GROW \in Nat /\ GROW > 0
  BY HttpdAssumption
<1>3. Len(q.bf) + GROW \in 0 .. MAXPOST + GROW /\ Len(q.bf) < Len(q.bf) + GROW
  BY <1>1, <1>2
<1>4. q.left > 0 => GoesOn(q, RecvPostdta(Buffer_Grow_Reserve(q, Len(q.bf) + GROW)))
  BY <1>3, RecvPostdtaOn
<1> QED
  BY <1>1, <1>4, PerformOn DEF PostOrPerform

LEMMA GettingPostdtaOn ==
  ASSUME NEW q, Takes(q), NEW bytes \in Seq(Tokens), Len(q.bf) + Len(bytes) <= q.cap,
         Len(bytes) <= q.left, NEW p \in Cbk_Httpd_Getting_Postdta(q, bytes)
  PROVE  GoesOn(q, p)
<1> DEFINE c == [q EXCEPT !.bf = @ \o bytes]
           d == [q EXCEPT !.bf = @ \o bytes, !.left = @ - Len(bytes)]
<1>1. Takes(c)
  BY TakesMore
<1>2. q.left - Len(bytes) \in Nat
  BY LenProperties DEF Takes, Sizes
<1>3. Takes(d) /\ d.got = q.got /\ d.sent = q.sent
  BY <1>1, <1>2 DEF Takes, Idle, IsRqst, Fields, Sizes, Unsent
<1> HIDE DEF d
<1>4. ASSUME p \in PostOrPerform(d), Len(d.bf) <= MAXPOST PROVE GoesOn(d, p)
  BY <1>3, <1>4, PostOrPerformOn
<1>5. ASSUME NEW s \in Store(d), p \in PostOrPerform(s)
      PROVE  GoesOn(d, p)
  <2>1. CASE s = Ends(d, "LONGRQST")
    <3>1. s.stage = "LONGRQST" /\ GoesOn(d, s)
      BY <1>3, <2>1, EndsOn DEF Ends, Takes, Idle, IsRqst, Fields, Over, X!Last
    <3>2. p = s
      BY <1>5, <3>1 DEF PostOrPerform, Over, X!Last
    <3> QED
      BY <3>1, <3>2
  <2>2. CASE s = Stored(d) \/ s = Stored([d EXCEPT !.stage = "storing"])
    <3>1. Takes(s) /\ s.bf = <<>>
      BY <1>3, <2>2, StoredTakes
    <3>2. Len(s.bf) <= MAXPOST
      BY <3>1, HttpdAssumption
    <3>3. s.got = d.got /\ s.sent = d.sent
      BY <1>3, <2>2 DEF Stored, Takes, Idle, IsRqst, Fields
    <3> QED
      BY <1>5, <3>1, <3>2, <3>3, PostOrPerformOn DEF GoesOn
  <2> QED
    BY <2>1, <2>2 DEF Store
<1>6. Len(d.bf) \in Nat /\ MAXPOST \in Nat
  BY <1>3, LenProperties, HttpdAssumption DEF Takes, Sizes
<1>7. \/ p \in PostOrPerform(d) /\ Len(d.bf) <= MAXPOST
      \/ \E s \in Store(d) : p \in PostOrPerform(s)
  BY <1>6 DEF Cbk_Httpd_Getting_Postdta, d
<1>8. GoesOn(d, p)
  BY <1>4, <1>5, <1>7
<1> QED
  BY <1>3, <1>8 DEF GoesOn

LEMMA AnalyzeOn ==
  ASSUME NEW q, Takes(q), Len(q.bf) < q.cap, NEW h \in Nat, NEW p \in Httpd_Analyze(q, h)
  PROVE  GoesOn(q, p)
<1> DEFINE a == [q EXCEPT !.nline = h]
<1>1. Idle(a) /\ a.got = q.got /\ a.sent = q.sent
  BY DEF Takes, Idle, IsRqst, Fields
<1> HIDE DEF a
<1>2. CASE q.sent.method = "BAD"
  <2>1. p = Ends(a, "BADMETHOD")
    BY <1>2 DEF Httpd_Analyze, a
  <2>2. GoesOn(a, p)
    BY <1>1, <2>1, EndsOn DEF Over, X!Last
  <2> QED
    BY <1>1, <2>2 DEF GoesOn
<1>3. CASE q.sent.method = "GET"
  <2>1. p \in Httpd_Perform_Request(a)
    BY <1>3 DEF Httpd_Analyze, a
  <2>2. GoesOn(a, p)
    BY <1>1, <2>1, PerformOn
  <2> QED
    BY <1>1, <2>2 DEF GoesOn
<1>4. CASE q.sent.method \notin {"BAD", "GET"}
  <2> DEFINE rest == SubSeq(q.bf, h + 1, Len(q.bf))
             d == [q EXCEPT !.nline = h, !.bf = rest, !.left = q.sent.length]
             e == [d EXCEPT !.bf = SubSeq(rest, 1, d.left)]
             f == [d EXCEPT !.left = @ - Len(rest)]
  <2>1. q.bf \in Seq(Tokens) /\ Len(q.bf) \in Nat /\ Len(q.bf) <= q.cap /\ q.cap \in Nat
    BY LenProperties DEF Takes, Sizes
  <2>2. h + 1 \in Nat \ {0}
    OBVIOUS
  <2>3. rest \in Seq(Tokens) /\ Len(rest) \in Nat /\ Len(rest) <= Len(q.bf)
    <3>1. rest \in Seq(Tokens)
            /\ Len(rest) = IF h + 1 <= Len(q.bf) THEN Len(q.bf) - (h + 1) + 1 ELSE 0
      BY <2>1, <2>2, SubSeqOf
    <3> QED
      BY <2>1, <3>1
  <2> HIDE DEF rest
  <2>4. Len(rest) < q.cap /\ Len(rest) <= q.cap /\ q.sent.length \in Nat
    BY <2>1, <2>3 DEF Takes, Sizes
  <2>5. /\ Takes(d) /\ d.left = q.sent.length /\ d.bf = rest /\ d.cap = q.cap
        /\ d.got = q.got /\ d.sent = q.sent
    BY <2>3, <2>4 DEF Takes, Idle, IsRqst, Fields, Sizes, Unsent
  <2>6. \/ Len(rest) >= d.left /\ p \in Httpd_Perform_Request(e)
        \/ ~ (Len(rest) >= d.left) /\ p = RecvPostdta(Buffer_Grow_Reserve(f, MAXPOST))
    BY <1>4 DEF Httpd_Analyze, rest
  <2> HIDE DEF d
  <2>7. Idle(e) /\ e.got = q.got /\ e.sent = q.sent
    BY <2>5 DEF Takes, Idle, IsRqst, Fields
  <2>8. ASSUME ~ (Len(rest) >= d.left)
        PROVE  Takes(f) /\ f.left > 0 /\ Len(f.bf) < f.cap /\ f.got = q.got /\ f.sent = q.sent
    <3>1. d.left - Len(rest) \in Nat /\ d.left - Len(rest) > 0
      BY <2>3, <2>4, <2>5, <2>8
    <3> QED
      BY <2>4, <2>5, <3>1 DEF Takes, Idle, IsRqst, Fields, Sizes, Unsent
  <2>9. MAXPOST \in 0 .. MAXPOST + GROW
    BY HttpdAssumption
  <2> HIDE DEF e, f
  <2> QED
    BY <2>6, <2>7, <2>8, <2>9, PerformOn, RecvPostdtaOn DEF GoesOn
<1> QED
  BY <1>2, <1>3, <1>4

LEMMA GettingRequestOn ==
  ASSUME NEW q, Takes(q), q.stage = "reading", NEW bytes \in Seq(Tokens),
         Len(q.bf) + Len(bytes) <= q.cap, NEW stray \in STRAYS,
         NEW p \in Cbk_Httpd_Getting_Request(q, bytes, stray)
  PROVE  GoesOn(q, p)
<1> DEFINE d == [q EXCEPT !.bf = @ \o bytes]
           at == d.bf \o stray
           e == [d EXCEPT !.nline = Max({@} \cup LineEnds(at, @))]
<1>1. Takes(d) /\ d.stage = "reading" /\ d.got = q.got /\ d.sent = q.sent
  BY TakesMore DEF Takes, Idle, IsRqst, Fields
<1>2. \/ p = Ends(d, "LONGRQST")
      \/ /\ ~ (Len(d.bf) >= MAXREQ) /\ HeadEnds(at, d.nline) # {}
         /\ p \in Httpd_Analyze(d, Min(HeadEnds(at, d.nline)))
      \/ p = Tcp_Aio_Recv(e, "head", d.cap - Len(d.bf), 1)
  BY DEF Cbk_Httpd_Getting_Request
<1> HIDE DEF d
<1>3. /\ d.bf \in Seq(Tokens) /\ d.nline \in Nat /\ d.cap \in Nat /\ d.cap >= MAXBUF
      /\ Len(d.bf) \in Nat
  BY <1>1, LenProperties DEF Takes, Sizes
<1>4. HeadEnds(at, d.nline) # {} => Min(HeadEnds(at, d.nline)) \in Nat
  BY <1>3, ScanPlaces
<1>5. ~ (Len(d.bf) >= MAXREQ) => Len(d.bf) < d.cap
  BY <1>3, HttpdAssumption
<1> HIDE DEF at
<1>6. GoesOn(d, Ends(d, "LONGRQST"))
  BY <1>1, EndsOn DEF Takes, Over, X!Last
<1>7. ASSUME ~ (Len(d.bf) >= MAXREQ), HeadEnds(at, d.nline) # {},
             p \in Httpd_Analyze(d, Min(HeadEnds(at, d.nline)))
      PROVE  GoesOn(d, p)
  BY <1>1, <1>4, <1>5, <1>7, AnalyzeOn
<1>8. ASSUME p = Tcp_Aio_Recv(e, "head", d.cap - Len(d.bf), 1)
      PROVE  GoesOn(d, p)
  <2>1. IsRqst(e) /\ e.stage = "reading" /\ e.got = d.got /\ e.sent = d.sent
    BY <1>1 DEF Takes, Idle, IsRqst, Fields
  <2> HIDE DEF e
  <2>2. /\ p.op = [kind |-> "head", len |-> d.cap - Len(d.bf), min |-> 1]
        /\ p.stage = "reading" /\ p.got = e.got /\ p.sent = e.sent
    BY <1>8, <2>1 DEF Tcp_Aio_Recv, Asks, IsRqst, Fields
  <2> QED
    BY <2>1, <2>2 DEF GoesOn, Onward
<1>9. GoesOn(d, p)
  BY <1>2, <1>6, <1>7, <1>8
<1> QED
  BY <1>1, <1>9 DEF GoesOn

(* A piece of an answer is not empty, but for the last chunk, which is     *)
(* marked as such.                                                         *)
LEMMA SendingOn ==
  ASSUME NEW q, Flushed(q), q.out.kind \in {"none", "known", "chunked"},
         NEW p \in Cbk_Httpd_Sending_Result(q)
  PROVE  /\ GoesOn(q, p)
         /\ p.stage = "FINISHED" \/ (ToSend(p) < ToSend(q) /\ 0 <= ToSend(p))
<1>1. Idle(q) /\ q.stage = "responding" /\ q.left \in Nat /\ q.cap \in Nat /\ q.cap > 0
  BY HttpdAssumption DEF Flushed, Sizes
<1>2. /\ q.out.file \in Seq(Tokens) /\ q.read \in Nat /\ q.read <= Len(q.out.file)
      /\ q.out.length \in Nat /\ DOMAIN q.out = {"kind", "length", "file"}
      /\ Len(q.out.file) \in Nat
  BY LenProperties DEF Flushed, Sizes, Answering
<1>3. GoesOn(q, Ends(q, "FINISHED")) /\ Ends(q, "FINISHED").stage = "FINISHED"
  BY <1>1, EndsOn DEF Ends, Idle, IsRqst, Fields, Over, X!Last
<1>4. ASSUME q.left # 0, NEW n \in Oj_Read(q, Min({q.left, q.cap})), p = SendMore(q, n), n # 0
      PROVE  GoesOn(q, p) /\ ToSend(p) < ToSend(q) /\ 0 <= ToSend(p)
  <2>1. Min({q.left, q.cap}) \in Nat
    BY <1>1, MinTwo
  <2>2. n \in Nat /\ q.read + n <= Len(q.out.file)
    BY <1>2, <1>4, <2>1, ReadData
  <2>3. /\ p.read = q.read + n /\ p.out = q.out /\ p.op.kind = "send"
        /\ p.got = q.got /\ p.sent = q.sent
    BY <1>1, <1>4 DEF SendMore, Tcp_Aio_Send, Asks, Idle, IsRqst, Fields
  <2>4. Unfinished(q.out) \in {0, 1}
    BY DEF Unfinished
  <2>5. ToSend(p) = Len(q.out.file) - (q.read + n) + Unfinished(q.out)
    BY <2>3 DEF ToSend
  <2>6. ToSend(p) < ToSend(q) /\ 0 <= ToSend(p)
    BY <1>2, <1>4, <2>2, <2>4, <2>5 DEF ToSend
  <2> QED
    BY <2>3, <2>6 DEF GoesOn, Onward
<1>5. ASSUME q.out.length = 0, q.out.kind # "none",
             NEW n \in Oj_Read(q, q.cap - PREFIX - 1), p = SendChunk(q, n)
      PROVE  GoesOn(q, p) /\ ToSend(p) < ToSend(q) /\ 0 <= ToSend(p)
  <2>1. q.cap - PREFIX - 1 \in Nat
    BY HttpdAssumption DEF Flushed, Sizes
  <2>2. n \in Nat /\ q.read + n <= Len(q.out.file)
    BY <1>2, <1>5, <2>1, ReadData
  <2> DEFINE o == [q.out EXCEPT !.length = IF n = 0 THEN 1 ELSE @]
  <2>3. /\ p.read = q.read + n /\ p.out = o /\ p.op.kind = "send"
        /\ p.got = q.got /\ p.sent = q.sent
    BY <1>1, <1>5 DEF SendChunk, Tcp_Aio_Send, Asks, Idle, IsRqst, Fields
  <2>4. o.kind = q.out.kind /\ o.file = q.out.file /\ o.length = IF n = 0 THEN 1 ELSE q.out.length
    BY <1>2
  <2> HIDE DEF o
  <2>5. q.out.kind = "chunked"
    BY <1>5 DEF Flushed, Answering
  <2>6. Unfinished(q.out) = 1 /\ Unfinished(o) = IF n = 0 THEN 0 ELSE 1
    BY <1>5, <2>4, <2>5 DEF Unfinished
  <2>7. ToSend(p) = Len(q.out.file) - (q.read + n) + Unfinished(o)
    BY <2>3, <2>4 DEF ToSend
  <2>8. ToSend(p) < ToSend(q) /\ 0 <= ToSend(p)
    BY <1>2, <2>2, <2>6, <2>7 DEF ToSend
  <2> QED
    BY <2>3, <2>4, <2>5, <2>8 DEF GoesOn, Onward
<1>6. \/ p = Ends(q, "FINISHED")
      \/ q.left # 0 /\ \E n \in Oj_Read(q, Min({q.left, q.cap})) : p = SendMore(q, n)
      \/ /\ q.out.length = 0 /\ q.out.kind # "none"
         /\ \E n \in Oj_Read(q, q.cap - PREFIX - 1) : p = SendChunk(q, n)
  BY Zenon DEF Cbk_Httpd_Sending_Result
<1>7. CASE p = Ends(q, "FINISHED")
  BY <1>3, <1>7
<1>8. ASSUME q.left # 0, NEW n \in Oj_Read(q, Min({q.left, q.cap})), p = SendMore(q, n), n = 0
      PROVE  p = Ends(q, "FINISHED")
  BY <1>8 DEF SendMore
<1>9. CASE q.left # 0 /\ \E n \in Oj_Read(q, Min({q.left, q.cap})) : p = SendMore(q, n)
  <2>1. PICK n \in Oj_Read(q, Min({q.left, q.cap})) : p = SendMore(q, n)
    BY <1>9
  <2> QED
    BY <1>4, <1>7, <1>8, <1>9, <2>1
<1> QED
  BY <1>5, <1>6, <1>7, <1>9

Onwards == \A r \in Rqsts : Onward(rq[r])

LEMMA OnReplaced ==
  ASSUME Stagewise, Onwards, NEW r \in Rqsts, NEW p, Replaced(r, p), Onward(p), Further(rq[r], p)
  PROVE  Onwards' /\ \A x \in Rqsts : rq'[x] # rq[x] => Further(rq[x], rq'[x])
<1>1. \A x \in Rqsts : rq'[x] = IF x = r THEN p ELSE rq[x]
  BY DEF Replaced, Stagewise
<1>2. ASSUME NEW x \in Rqsts PROVE Onward(rq'[x]) /\ (rq'[x] # rq[x] => Further(rq[x], rq'[x]))
  <2>1. CASE x = r
    <3>1. rq'[x] = p
      BY <1>1, <2>1
    <3> QED
      BY <2>1, <3>1
  <2>2. CASE x # r
    <3>1. rq'[x] = rq[x] /\ Onward(rq[x])
      BY <1>1, <2>2 DEF Onwards
    <3> QED
      BY <3>1
  <2> QED
    BY <2>1, <2>2
<1>3. Onwards' <=> \A x \in Rqsts : Onward(rq'[x])
  BY DEF Onwards, Onward
<1> QED
  BY <1>2, <1>3

LEMMA InitOnwards == Init => Onwards
<1>1. \A w : Fresh(w).op = NoOp /\ Fresh(w).stage = "new"
  BY DEF Fresh
<1> QED
  BY <1>1 DEF Init, Onwards, Onward, NoOp

LEMMA OnwardStep ==
  ASSUME Stagewise, Served, Onwards, [Next]_vars
  PROVE  Onwards' /\ \A x \in Rqsts : rq'[x] # rq[x] => Further(rq[x], rq'[x])
<1> DEFINE Steps == Onwards' /\ \A x \in Rqsts : rq'[x] # rq[x] => Further(rq[x], rq'[x])
<1>1. \A r \in Rqsts : IsRqst(rq[r]) /\ Settled(rq[r]) /\ Good(rq[r]) /\ Onward(rq[r])
  BY DEF Stagewise, Served, Onwards
<1>2. ASSUME NEW r \in Rqsts, NEW p, Replaced(r, p), Onward(p), Further(rq[r], p)
      PROVE  Steps
  BY <1>2, OnReplaced
<1> HIDE DEF Steps
<1>3. ASSUME NEW r \in Rqsts, Cbk_Httpd_Accept(r)
      PROVE  Steps
  <2> DEFINE q == [rq[r] EXCEPT !.alive = TRUE]
             a == Tcp_Aio_Recv([q EXCEPT !.stage = "reading"], "head", q.cap, 1)
             b == [q EXCEPT !.stage = "REJECTED"]
  <2>1. rq[r].stage = "new" /\ (Replaced(r, a) \/ Replaced(r, b))
    BY <1>3 DEF Cbk_Httpd_Accept, Becomes, Replaced
  <2>2. rq[r].op = NoOp /\ IsRqst(rq[r])
    BY <1>1, <2>1 DEF Settled, StageOf
  <2>3. IsRqst(q) /\ q.op = NoOp
    BY <2>2 DEF IsRqst, Fields
  <2> HIDE DEF q
  <2>4. a.stage = "reading" /\ a.op = [kind |-> "head", len |-> q.cap, min |-> 1]
    BY <2>3 DEF Tcp_Aio_Recv, Asks, IsRqst, Fields
  <2>5. b.stage = "REJECTED" /\ b.op = NoOp
    BY <2>3 DEF IsRqst, Fields
  <2> HIDE DEF a, b
  <2>6. Onward(a) /\ Onward(b)
    BY <2>4, <2>5 DEF Onward, NoOp
  <2>7. Further(rq[r], a) /\ Further(rq[r], b)
    BY <2>1, <2>4, <2>5 DEF Further, Level
  <2> QED
    BY <1>2, <2>1, <2>6, <2>7
<1>4. ASSUME NEW r \in Rqsts, NEW n \in Nat, rq[r].op.kind \in {"head", "post"}, Received(r, n)
      PROVE  LET d == Arrived(rq[r], n) IN
             /\ Takes(d) /\ d.stage = rq[r].stage /\ d.instrm = rq[r].instrm
             /\ Incoming(rq[r], n) \in Seq(Tokens)
             /\ Len(d.bf) + Len(Incoming(rq[r], n)) <= d.cap
             /\ rq[r].op.kind = "post" => Len(Incoming(rq[r], n)) <= d.left
             /\ \A p : Level(rq[r]) = 1 /\ Level(p) \in 1 .. 4 /\ GoesOn(d, p) => Further(rq[r], p)
  <2> DEFINE q == rq[r]
             d == Arrived(q, n)
  <2>1. /\ q.op.min <= n /\ n <= q.op.len
        /\ Incoming(q, n) \in Seq(Tokens) /\ Len(Incoming(q, n)) = n
    BY <1>1, <1>4, IncomingFits
  <2>2. Takes(d) /\ d.stage = q.stage /\ d.bf = q.bf /\ d.cap = q.cap /\ d.left = q.left
    BY <1>1, <1>4, ArrivedTakes
  <2>3. d.sent = q.sent /\ d.got = q.got + n /\ d.instrm = q.instrm
    BY <1>1 DEF Arrived, Answered, IsRqst, Fields
  <2>4. /\ Len(q.bf) + q.op.len <= q.cap /\ q.op.len \in Nat /\ Len(q.bf) \in Nat /\ q.cap \in Nat
        /\ q.left \in Nat /\ (q.op.kind = "post" => q.op.len <= q.left)
    BY <1>1, <1>4, LenProperties DEF Good, Sizes, Room
  <2>5. q.op.min \in Nat /\ q.op.min > 0 /\ q.got \in Nat
    BY <1>1, <1>4 DEF Onward, Good, Room, Sizes
  <2>6. q.got + n <= Len(q.sent.text)
    BY <1>4 DEF Received
  <2> HIDE DEF d
  <2>7. Len(d.bf) + n <= d.cap /\ (q.op.kind = "post" => n <= d.left)
    BY <2>1, <2>2, <2>4
  <2>8. ASSUME NEW p, Level(q) = 1, Level(p) \in 1 .. 4, GoesOn(d, p) PROVE Further(q, p)
    <3>1. p.got = q.got + n /\ p.sent = q.sent
      BY <2>3, <2>8 DEF GoesOn
    <3>2. q.got < p.got /\ p.got <= Len(p.sent.text)
      BY <2>1, <2>5, <2>6, <3>1
    <3>3. Level(p) = 1 \/ Level(q) < Level(p)
      BY <2>8
    <3> QED
      BY <2>8, <3>2, <3>3 DEF Further
  <2> QED
    BY <2>1, <2>2, <2>3, <2>7, <2>8 DEF d
<1>5. ASSUME NEW r \in Rqsts, NEW n \in Nat, GotRequest(r, n)
      PROVE  Steps
  <2> DEFINE d == Arrived(rq[r], n)
  <2>1. PICK s \in STRAYS : \E p \in Cbk_Httpd_Getting_Request(d, Incoming(rq[r], n), s) : Replaced(r, p)
    BY <1>5 DEF GotRequest, Becomes, Replaced
  <2>2. /\ rq[r].op.kind = "head" /\ rq[r].stage = "reading" /\ rq[r].instrm = "none" /\ Received(r, n)
    BY <1>1, <1>5 DEF GotRequest, Waits, Settled, StageOf
  <2>3. PICK p \in Cbk_Httpd_Getting_Request(d, Incoming(rq[r], n), s) : Replaced(r, p)
    BY <2>1
  <2>4. /\ Takes(d) /\ d.stage = "reading" /\ d.instrm = "none" /\ Incoming(rq[r], n) \in Seq(Tokens)
        /\ Len(d.bf) + Len(Incoming(rq[r], n)) <= d.cap
        /\ Level(rq[r]) = 1 /\ Level(p) \in 1 .. 4 /\ GoesOn(d, p) => Further(rq[r], p)
    BY <1>4, <2>2
  <2> HIDE DEF d
  <2>5. GoesOn(d, p)
    BY <2>3, <2>4, GettingRequestOn
  <2>6. p.stage \in Heard
    BY <2>3, <2>4, GettingRequestGoes DEF Takes, Goes
  <2>7. Level(rq[r]) = 1 /\ Level(p) \in 1 .. 4
    BY <2>2, <2>6 DEF Level, Heard
  <2> QED
    BY <1>2, <2>3, <2>4, <2>5, <2>7 DEF GoesOn
<1>6. ASSUME NEW r \in Rqsts, NEW n \in Nat, GotPostdta(r, n)
      PROVE  Steps
  <2> DEFINE d == Arrived(rq[r], n)
  <2>1. PICK p \in Cbk_Httpd_Getting_Postdta(d, Incoming(rq[r], n)) : Replaced(r, p)
    BY <1>6 DEF GotPostdta, Becomes, Replaced
  <2>2. /\ rq[r].op.kind = "post" /\ Received(r, n)
        /\ rq[r].stage = IF rq[r].instrm = "none" THEN "reading" ELSE "storing"
    BY <1>1, <1>6 DEF GotPostdta, Waits, Settled, StageOf
  <2>4. /\ Takes(d) /\ d.stage = rq[r].stage /\ d.instrm = rq[r].instrm
        /\ Incoming(rq[r], n) \in Seq(Tokens)
        /\ Len(d.bf) + Len(Incoming(rq[r], n)) <= d.cap /\ Len(Incoming(rq[r], n)) <= d.left
        /\ Level(rq[r]) = 1 /\ Level(p) \in 1 .. 4 /\ GoesOn(d, p) => Further(rq[r], p)
    BY <1>4, <2>2
  <2> HIDE DEF d
  <2>5. GoesOn(d, p)
    BY <2>1, <2>4, GettingPostdtaOn
  <2>6. p.stage \in {d.stage, "storing", "performing", "responding", "LONGRQST"}
    BY <2>1, <2>2, <2>4, GettingPostdtaGoes DEF Takes, Goes
  <2>7. Level(rq[r]) = 1 /\ Level(p) \in 1 .. 4
    BY <2>2, <2>4, <2>6 DEF Level
  <2> QED
    BY <1>2, <2>1, <2>4, <2>5, <2>7 DEF GoesOn
<1>7. ASSUME NEW r \in Rqsts, Sent(r)
      PROVE  Steps
  <2> DEFINE a == Answered(rq[r])
             d == [a EXCEPT !.wire = @ \o SubSeq(a.bf, 1, rq[r].op.len)]
  <2>1. rq[r].op.kind = "send" /\ \E p \in Cbk_Httpd_Sending_Result(d) : Replaced(r, p)
    BY <1>7 DEF Sent, Waits, Becomes, Replaced
  <2>2. rq[r].stage = "responding"
    BY <1>1, <2>1 DEF Settled, StageOf
  <2>3. Flushed(d)
    BY <1>1, <2>1, SentFlushed
  <2>4. d.out = rq[r].out /\ d.read = rq[r].read
    BY <1>1 DEF Answered, IsRqst, Fields
  <2> HIDE DEF d
  <2>5. d.out.kind \in {"none", "known", "chunked"}
    BY <1>1, <2>2, <2>4 DEF Onward
  <2>6. PICK p \in Cbk_Httpd_Sending_Result(d) : Replaced(r, p)
    BY <2>1
  <2>7. Onward(p) /\ (p.stage = "FINISHED" \/ (ToSend(p) < ToSend(d) /\ 0 <= ToSend(p)))
    BY <2>3, <2>5, <2>6, SendingOn DEF GoesOn
  <2>8. p.stage \in {"responding", "FINISHED"}
    BY <2>3, <2>6, SendingGoes DEF Flushed, Goes
  <2>9. ToSend(d) = ToSend(rq[r])
    BY <2>4 DEF ToSend
  <2>10. Level(rq[r]) = 3 /\ Level(p) = IF p.stage = "FINISHED" THEN 4 ELSE 3
    BY <2>2, <2>8 DEF Level
  <2>11. Further(rq[r], p)
    BY <2>7, <2>9, <2>10 DEF Further
  <2> QED
    BY <1>2, <2>6, <2>7, <2>11
<1>8. ASSUME NEW r \in Rqsts, IOFail(r)
      PROVE  Steps
  <2> DEFINE a == Answered(rq[r])
             p == Ends(a, "IOFAIL")
  <2>1. Replaced(r, p) /\ rq[r].op.kind # "none"
    BY <1>8 DEF IOFail, Becomes, Replaced, Waits
  <2>2. Idle(a) /\ rq[r].stage \in {"reading", "storing", "responding"}
    BY <1>1, <2>1, AnsweredIdle DEF Settled, StageOf
  <2> HIDE DEF a
  <2>3. Onward(p) /\ p.stage = "IOFAIL"
    BY <2>2, EndsOn DEF GoesOn, Ends, Idle, IsRqst, Fields, Over, X!Last
  <2>4. Further(rq[r], p)
    BY <2>2, <2>3 DEF Further, Level
  <2> QED
    BY <1>2, <2>1, <2>3, <2>4
<1>9. ASSUME NEW r \in Rqsts, Continue(r)
      PROVE  Steps
  <2>1. PICK b \in Bodies : \E p \in Httpd_Continue_Request(rq[r], b) : Replaced(r, p)
    BY <1>9 DEF Continue, Becomes, Replaced
  <2>2. rq[r].stage = "performing" /\ Idle(rq[r])
    BY <1>1, <1>9 DEF Continue, Idle, Settled, StageOf, Over, X!Last
  <2>3. PICK p \in Httpd_Continue_Request(rq[r], b) : Replaced(r, p)
    BY <2>1
  <2>4. Onward(p) /\ p.stage = "responding"
    BY <2>2, <2>3, ContinueOn, ContinueGoes DEF GoesOn, Goes
  <2>5. Further(rq[r], p)
    BY <2>2, <2>4 DEF Further, Level
  <2> QED
    BY <1>2, <2>3, <2>4, <2>5
<1>10. ASSUME NEW r \in Rqsts, Destruct(r)
      PROVE  Steps
  <2> DEFINE p == [rq[r] EXCEPT !.alive = FALSE, !.closed = TRUE]
  <2>1. Replaced(r, p) /\ rq[r].alive /\ "alive" \in DOMAIN rq[r]
    BY <1>1, <1>10 DEF Destruct, Becomes, Replaced, IsRqst, Fields
  <2>2. p.stage = rq[r].stage /\ p.op = rq[r].op /\ p.out = rq[r].out
    BY <1>1 DEF IsRqst, Fields
  <2>3. p.alive = FALSE
    BY <2>1, Zenon
  <2> HIDE DEF p
  <2>4. Onward(p)
    BY <1>1, <2>2 DEF Onward
  <2>5. Further(rq[r], p)
    BY <2>1, <2>3, Zenon DEF Further
  <2> QED
    BY <1>2, <2>1, <2>4, <2>5
<1>11. ASSUME rq' = rq PROVE Steps
  BY <1>11 DEF Onwards, Onward, Steps
<1>12. \A r \in Rqsts : 0 .. Len(rq[r].sent.text) \subseteq Nat
  <2>1. \A r \in Rqsts : Len(rq[r].sent.text) \in Nat
    BY <1>1, LenProperties DEF Good, Sizes
  <2> QED
    BY <2>1
<1>13. ASSUME Next PROVE Steps
  BY <1>3, <1>5, <1>6, <1>7, <1>8, <1>9, <1>10, <1>11, <1>12, <1>13
     DEF Next, Handles, AcceptFails, Httpd_Shutdown
<1>14. Steps
  BY <1>11, <1>13 DEF vars, svars
<1> QED
  BY <1>14 DEF Steps

------------------------------------------------------------------------------
(* The head has come before the program hears of the request               *)

HeadCame(q) == q.stage \in {"performing", "responding", "FINISHED"} => q.sent.head <= q.got

Headed == \A r \in Rqsts : HeadCame(rq[r])

LEMMA HeadedReplaced ==
  ASSUME Stagewise, Headed, NEW r \in Rqsts, NEW p, Replaced(r, p), HeadCame(p)
  PROVE  Headed'
<1>1. \A x \in Rqsts : rq'[x] = IF x = r THEN p ELSE rq[x]
  BY DEF Replaced, Stagewise
<1>2. ASSUME NEW x \in Rqsts PROVE HeadCame(rq'[x])
  <2>1. CASE x = r
    <3>1. rq'[x] = p
      BY <1>1, <2>1
    <3> QED
      BY <3>1
  <2>2. CASE x # r
    <3>1. rq'[x] = rq[x] /\ HeadCame(rq[x])
      BY <1>1, <2>2 DEF Headed
    <3> QED
      BY <3>1
  <2> QED
    BY <2>1, <2>2
<1>3. Headed' <=> \A x \in Rqsts : HeadCame(rq'[x])
  BY DEF Headed, HeadCame
<1> QED
  BY <1>2, <1>3

LEMMA HeadedStep ==
  ASSUME CleanBuffers, Stagewise, Served, Delivered, Onwards, Headed, [Next]_vars
  PROVE  Headed'
<1>1. \A r \in Rqsts : /\ IsRqst(rq[r]) /\ Settled(rq[r]) /\ Good(rq[r]) /\ Posted(rq[r])
                       /\ Text(rq[r]) /\ Onward(rq[r]) /\ HeadCame(rq[r])
  BY DEF Stagewise, Served, Delivered, Posted, Onwards, Headed
<1>2. ASSUME NEW r \in Rqsts, NEW p, Replaced(r, p), HeadCame(p)
      PROVE  Headed'
  BY <1>2, HeadedReplaced
<1>3. ASSUME NEW r \in Rqsts, Cbk_Httpd_Accept(r)
      PROVE  Headed'
  <2> DEFINE q == [rq[r] EXCEPT !.alive = TRUE]
             a == Tcp_Aio_Recv([q EXCEPT !.stage = "reading"], "head", q.cap, 1)
             b == [q EXCEPT !.stage = "REJECTED"]
  <2>1. Replaced(r, a) \/ Replaced(r, b)
    BY <1>3 DEF Cbk_Httpd_Accept, Becomes, Replaced
  <2>2. IsRqst(q)
    BY <1>1 DEF IsRqst, Fields
  <2> HIDE DEF q
  <2>3. a.stage = "reading" /\ b.stage = "REJECTED"
    BY <2>2 DEF Tcp_Aio_Recv, Asks, IsRqst, Fields
  <2> HIDE DEF a, b
  <2>4. HeadCame(a) /\ HeadCame(b)
    BY <2>3 DEF HeadCame
  <2> QED
    BY <1>2, <2>1, <2>4
<1>4. ASSUME NEW r \in Rqsts, NEW n \in Nat, GotRequest(r, n)
      PROVE  Headed'
  <2> DEFINE d == Arrived(rq[r], n)
             bytes == Incoming(rq[r], n)
  <2>1. PICK p \in Cbk_Httpd_Getting_Request(d, bytes, <<>>) :
               /\ Replaced(r, p) /\ Posted(p)
               /\ p.stage = "LONGRQST" \/ p.op.kind = "head" \/ d.sent.head <= d.got
    BY <1>4, RequestArrived
  <2>2. /\ rq[r].op.kind = "head" /\ rq[r].stage = "reading" /\ rq[r].instrm = "none"
        /\ Received(r, n)
    BY <1>1, <1>4 DEF GotRequest, Waits, Settled, StageOf
  <2>3. bytes \in Seq(Tokens) /\ Len(bytes) = n
    BY <1>1, <2>2, IncomingFits
  <2>4. Takes(d) /\ d.stage = "reading" /\ d.instrm = "none" /\ Len(d.bf) + n <= d.cap
    BY <2>2, ArrivedText
  <2> HIDE DEF d, bytes
  <2>5. <<>> \in STRAYS /\ Len(d.bf) + Len(bytes) <= d.cap
    BY <2>3, <2>4 DEF CleanBuffers
  <2>6. GoesOn(d, p)
    BY <2>1, <2>3, <2>4, <2>5, GettingRequestOn
  <2>7. p.op.kind = "head" => p.stage \notin {"performing", "responding", "FINISHED"}
    <3>1. Settled(p)
      BY <2>1, <2>4, GettingRequestGoes DEF Takes, Goes
    <3> QED
      BY <3>1 DEF Settled, StageOf
  <2>8. HeadCame(p)
    BY <2>1, <2>6, <2>7 DEF HeadCame, GoesOn
  <2> QED
    BY <1>2, <2>1, <2>8
<1>5. ASSUME NEW r \in Rqsts, NEW n \in Nat, GotPostdta(r, n)
      PROVE  Headed'
  <2> DEFINE q == rq[r]
             d == Arrived(q, n)
             bytes == Incoming(q, n)
  <2>1. PICK p \in Cbk_Httpd_Getting_Postdta(d, bytes) : Replaced(r, p)
    BY <1>5 DEF GotPostdta, Becomes, Replaced
  <2>2. q.op.kind = "post" /\ Received(r, n)
    BY <1>5 DEF GotPostdta, Waits
  <2>3. bytes \in Seq(Tokens) /\ Len(bytes) = n
    BY <1>1, <2>2, IncomingFits
  <2>4. /\ Takes(d) /\ Len(d.bf) + n <= d.cap /\ n <= d.left
        /\ d.sent = q.sent /\ d.got = q.got + n /\ q.got \in Nat
    BY <2>2, ArrivedText
  <2>5. q.sent.head \in Nat /\ q.sent.head <= q.got
    BY <1>1, <2>2 DEF Posted, Posting
  <2> HIDE DEF d, bytes
  <2>6. GoesOn(d, p)
    BY <2>1, <2>3, <2>4, GettingPostdtaOn
  <2>7. p.sent.head <= p.got
    BY <2>4, <2>5, <2>6 DEF GoesOn
  <2>8. HeadCame(p)
    BY <2>7 DEF HeadCame
  <2> QED
    BY <1>2, <2>1, <2>8
<1>6. ASSUME NEW r \in Rqsts, Sent(r)
      PROVE  Headed'
  <2> DEFINE a == Answered(rq[r])
             d == [a EXCEPT !.wire = @ \o SubSeq(a.bf, 1, rq[r].op.len)]
  <2>1. rq[r].op.kind = "send" /\ \E p \in Cbk_Httpd_Sending_Result(d) : Replaced(r, p)
    BY <1>6 DEF Sent, Waits, Becomes, Replaced
  <2>2. rq[r].stage = "responding"
    BY <1>1, <2>1 DEF Settled, StageOf
  <2>3. Flushed(d)
    BY <1>1, <2>1, SentFlushed
  <2>4. d.out = rq[r].out /\ d.sent = rq[r].sent /\ d.got = rq[r].got
    BY <1>1 DEF Answered, IsRqst, Fields
  <2> HIDE DEF d
  <2>5. d.out.kind \in {"none", "known", "chunked"}
    BY <1>1, <2>2, <2>4 DEF Onward
  <2>6. PICK p \in Cbk_Httpd_Sending_Result(d) : Replaced(r, p)
    BY <2>1
  <2>7. GoesOn(d, p)
    BY <2>3, <2>5, <2>6, SendingOn
  <2>8. HeadCame(p)
    BY <1>1, <2>2, <2>4, <2>7 DEF HeadCame, GoesOn
  <2> QED
    BY <1>2, <2>6, <2>8
<1>7. ASSUME NEW r \in Rqsts, IOFail(r)
      PROVE  Headed'
  <2> DEFINE a == Answered(rq[r])
             p == Ends(a, "IOFAIL")
  <2>1. Replaced(r, p) /\ rq[r].op.kind # "none"
    BY <1>7 DEF IOFail, Becomes, Replaced, Waits
  <2>2. Idle(a)
    BY <1>1, <2>1, AnsweredIdle
  <2> HIDE DEF a
  <2>3. p.stage = "IOFAIL"
    BY <2>2 DEF Ends, Idle, IsRqst, Fields
  <2> HIDE DEF p
  <2>4. HeadCame(p)
    BY <2>3 DEF HeadCame
  <2> QED
    BY <1>2, <2>1, <2>4
<1>8. ASSUME NEW r \in Rqsts, Continue(r)
      PROVE  Headed'
  <2>1. PICK b \in Bodies : \E p \in Httpd_Continue_Request(rq[r], b) : Replaced(r, p)
    BY <1>8 DEF Continue, Becomes, Replaced
  <2>2. rq[r].stage = "performing" /\ Idle(rq[r])
    BY <1>1, <1>8 DEF Continue, Idle, Settled, StageOf, Over, X!Last
  <2>3. PICK p \in Httpd_Continue_Request(rq[r], b) : Replaced(r, p)
    BY <2>1
  <2>4. GoesOn(rq[r], p)
    BY <2>2, <2>3, ContinueOn
  <2>5. HeadCame(p)
    BY <1>1, <2>2, <2>4 DEF HeadCame, GoesOn
  <2> QED
    BY <1>2, <2>3, <2>5
<1>9. ASSUME NEW r \in Rqsts, Destruct(r)
      PROVE  Headed'
  <2> DEFINE p == [rq[r] EXCEPT !.alive = FALSE, !.closed = TRUE]
  <2>1. Replaced(r, p)
    BY <1>9 DEF Destruct, Becomes, Replaced
  <2>2. p.stage = rq[r].stage /\ p.sent = rq[r].sent /\ p.got = rq[r].got
    BY <1>1 DEF IsRqst, Fields
  <2> HIDE DEF p
  <2>3. HeadCame(p)
    BY <1>1, <2>2 DEF HeadCame
  <2> QED
    BY <1>2, <2>1, <2>3
<1>10. ASSUME rq' = rq PROVE Headed'
  BY <1>10 DEF Headed, HeadCame
<1>11. \A r \in Rqsts : 0 .. Len(rq[r].sent.text) \subseteq Nat
  BY <1>1, LenProperties DEF Text
<1>12. CASE Next
  BY <1>3, <1>4, <1>5, <1>6, <1>7, <1>8, <1>9, <1>10, <1>11, <1>12
     DEF Next, Handles, AcceptFails, Httpd_Shutdown
<1> QED
  BY <1>10, <1>12 DEF vars, svars

------------------------------------------------------------------------------
HttpdInv == Stagewise /\ Served /\ Counted /\ Listed

LEMMA Invariance == Spec => []HttpdInv
<1>1. Init => HttpdInv
  BY InitStagewise, InitServed, InitListed DEF HttpdInv
<1>2. HttpdInv /\ [Next]_vars => HttpdInv'
  BY StagewiseStep, ServedStep, ListedStep DEF HttpdInv
<1> QED
  BY <1>1, <1>2, PTL DEF Spec

LEMMA InvGivesRoom == HttpdInv => InBuffer
<1> SUFFICES ASSUME HttpdInv PROVE InBuffer
  OBVIOUS
<1>1. ASSUME NEW r \in Rqsts
      PROVE  /\ rq[r].stage \in X!Stages
             /\ {rq[r].got, rq[r].nline, rq[r].left, rq[r].read, rq[r].flying, rq[r].cap} \subseteq Nat
             /\ rq[r].op.kind \in {"none", "head", "post", "send"}
             /\ rq[r].instrm \in {"none", "bf", "file"}
             /\ Len(rq[r].bf) <= rq[r].cap
             /\ rq[r].op.kind \in {"head", "post"} => Len(rq[r].bf) + rq[r].op.len <= rq[r].cap
             /\ rq[r].op.kind = "send" => rq[r].op.len <= Len(rq[r].bf)
  <2>1. Settled(rq[r]) /\ Sizes(rq[r]) /\ Room(rq[r])
    BY DEF HttpdInv, Stagewise, Served, Good
  <2>2. rq[r].stage \in X!Stages
    BY <2>1 DEF Settled, StageOf, Over, X!Stages, X!Last
  <2>3. rq[r].flying \in Nat
    BY <2>1 DEF Settled
  <2> QED
    BY <2>1, <2>2, <2>3 DEF Settled, Sizes, Room
<1>2. {refs, accepting, barred} \subseteq Nat /\ lsock \in {"open", "closed"}
  <2>1. Len(list) \in Nat
    BY LenProperties DEF HttpdInv, Listed
  <2> QED
    BY <2>1 DEF HttpdInv, Counted
<1>3. TypeOK
  BY <1>1, <1>2, Zenon DEF TypeOK
<1> QED
  BY <1>1, <1>3, Zenon DEF InBuffer

LEMMA InvGivesBody == HttpdInv => BodyWhole
<1> SUFFICES ASSUME HttpdInv, NEW r \in Rqsts, rq[r].stage = "FINISHED", rq[r].out.kind = "known"
             PROVE  rq[r].wire = [i \in 1 .. HDR |-> "h"]
                      \o SubSeq(rq[r].out.file, 1, Min({rq[r].out.length, Len(rq[r].out.file)}))
  BY DEF BodyWhole
<1> QED
  BY DEF HttpdInv, Served, Good, Bodied, Header

LEMMA InvGivesSound == HttpdInv => ServerSound
<1> SUFFICES ASSUME HttpdInv PROVE ServerSound
  OBVIOUS
<1>1. list \in Seq(Rqsts) /\ Once(list) /\ Len(list) \in Nat /\ DOMAIN list = 1 .. Len(list)
  BY LenProperties DEF HttpdInv, Listed
<1>2. refs = 0 => list = <<>> /\ accepting = 0 /\ barred = 0 /\ lsock = "closed"
  <2>1. refs = 0 => Len(list) = 0 /\ accepting = 0 /\ barred = 0 /\ lsock = "closed"
    BY <1>1 DEF HttpdInv, Counted
  <2> QED
    BY <1>1, <2>1, EmptySeq
<1>3. ToSet(list) = {r \in Rqsts : rq[r].alive}
  <2>1. ToSet(list) \subseteq Rqsts
    BY <1>1, ElementOfSeq DEF ToSet
  <2>2. \A r \in Rqsts : rq[r].alive \in {Living, Unborn}
    BY DEF HttpdInv, Stagewise, Settled
  <2>3. \A r \in Rqsts : rq[r].alive = Living <=> rq[r].alive
    BY <2>2, Zenon DEF Living, Unborn
  <2>4. \A r \in Rqsts : r \in ToSet(list) <=> rq[r].alive
    BY <2>3, Zenon DEF HttpdInv, Listed
  <2> QED
    BY <2>1, <2>4, Zenon
<1>4. Len(list) = Cardinality(ToSet(list))
  <2>1. list \in [1 .. Len(list) -> ToSet(list)]
    BY <1>1 DEF ToSet
  <2>2. list \in Bijection(1 .. Len(list), ToSet(list))
    BY <1>1, <2>1 DEF Bijection, Injection, IsInjective, Surjection, Once, ToSet
  <2>3. Cardinality(ToSet(list)) = Len(list)
    BY <1>1, <2>2, FS_CountingElements DEF ExistsBijection
  <2> QED
    BY <2>3
<1> QED
  BY <1>2, <1>3, <1>4 DEF ServerSound

(***************************************************************************)
(* The callbacks of httpd.hc come to the program in the order CONNECT,     *)
(* POSTDTA, PERFORM and one last status: the server implements             *)
(* HttpExchange.                                                           *)
(***************************************************************************)
THEOREM HttpdRefinesExchange == Spec => ImplementsExchange
<1>1. Init => X!Init
  BY InitStagewise
<1>2. HttpdInv /\ [Next]_vars => [X!Next]_Stage
  BY StagewiseStep DEF HttpdInv
<1> QED
  BY <1>1, <1>2, Invariance, PTL DEF Spec, ImplementsExchange, X!Spec, Stage

(* A request on its way has one call in flight, an ended one has none.     *)
THEOREM HttpdNotForgotten == Spec => []NotForgotten
<1>1. HttpdInv => NotForgotten
  BY StagewiseNotForgotten DEF HttpdInv
<1> QED
  BY <1>1, Invariance, PTL

(* Every receive and send of httpd.hc stays in the buffer, and TypeOK.     *)
THEOREM HttpdInBuffer == Spec => []InBuffer
  BY InvGivesRoom, Invariance, PTL

(* A finished answer of known length is its header and the data, once.     *)
THEOREM HttpdBodyWhole == Spec => []BodyWhole
  BY InvGivesBody, Invariance, PTL

(* The list names the requests that live, and the server dies when none of *)
(* them and no accept can come back to it.                                 *)
THEOREM HttpdServerSound == Spec => []ServerSound
  BY InvGivesSound, Invariance, PTL

(* Each step of a request brings it nearer to its end: with the fairness   *)
(* of the calls this is why every request is answered.                     *)
THEOREM HttpdMovesOn == Spec => MovesOn
<1>1. Init => Onwards
  BY InitOnwards
<1>2. HttpdInv /\ Onwards /\ [Next]_vars
        => Onwards' /\ \A r \in Rqsts : rq'[r] # rq[r] => Further(rq[r], rq'[r])
  BY OnwardStep DEF HttpdInv
<1> QED
  BY <1>1, <1>2, Invariance, PTL DEF Spec, MovesOn

(* The program performs a POST with the whole of its data and no other     *)
(* token, in whatever pieces they came, if the scan of httpd.hc:583-600    *)
(* finds no line end in the byte behind the data.                          *)
THEOREM HttpdPostWhole ==
  ASSUME CleanBuffers
  PROVE  Spec => []PostWhole
<1>1. Init => Delivered
  BY InitDelivered
<1>2. HttpdInv /\ Delivered /\ [Next]_vars => Delivered'
  BY DeliveredStep DEF HttpdInv
<1>3. Delivered => PostWhole
  BY DEF Delivered, Posted, PostWhole, Performed, TheData
<1> QED
  BY <1>1, <1>2, <1>3, Invariance, PTL DEF Spec

(* A request is performed only when its empty line has come, under the     *)
(* same condition: it is the byte behind the data that the finding about   *)
(* httpd.hc:587 rests on, and nothing else.                                *)
THEOREM HttpdHeadWhole ==
  ASSUME CleanBuffers
  PROVE  Spec => []HeadWhole
<1> DEFINE I == Delivered /\ Onwards /\ Headed
<1>1. Init => I
  <2>1. \A w : Fresh(w).stage = "new"
    BY DEF Fresh
  <2>2. Init => Headed
    BY <2>1 DEF Init, Headed, HeadCame
  <2> QED
    BY <2>2, InitDelivered, InitOnwards
<1>2. HttpdInv /\ I /\ [Next]_vars => I'
  <2>1. HttpdInv /\ I /\ [Next]_vars => Delivered'
    BY DeliveredStep DEF HttpdInv
  <2>2. HttpdInv /\ I /\ [Next]_vars => Onwards'
    BY OnwardStep DEF HttpdInv
  <2>3. HttpdInv /\ I /\ [Next]_vars => Headed'
    BY HeadedStep DEF HttpdInv
  <2> QED
    BY <2>1, <2>2, <2>3
<1>3. HttpdInv /\ I => HeadWhole
  <2> SUFFICES ASSUME HttpdInv, I, NEW r \in Rqsts, Performed(r)
               PROVE  rq[r].got >= rq[r].sent.head
    BY DEF HeadWhole
  <2> QED
    BY DEF Headed, HeadCame, Performed
<1> HIDE DEF I
<1> QED
  BY <1>1, <1>2, <1>3, Invariance, PTL DEF Spec

=============================================================================
