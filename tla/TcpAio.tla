------------------------------- MODULE TcpAio -------------------------------
(***************************************************************************)
(* The asynchronous TCP calls of net/tcpip.hc: a request becomes a task of *)
(* the task queue (TaskService), whose worker makes the blocking system    *)
(* calls one by one on a thread of its own and whose callback reports in   *)
(* the main thread.  The descriptor is copied into the request when it is  *)
(* made, so a socket that is closed, or whose descriptor the system has    *)
(* given to someone else, is found out only here.                          *)
(*                                                                         *)
(* A caller has one receive, one send and one accept or connect at a time  *)
(* on a socket (Alone); connects a socket that is closed (the old          *)
(* descriptor would be lost); and may close a socket at any moment.        *)
(***************************************************************************)
EXTENDS Naturals, Sequences, FiniteSets

CONSTANTS
  Ops,        (* the tasks of the run                                       *)
  Socks,      (* C_TCPSOK objects                                           *)
  Conns,      (* connections of the network, one per peer                   *)
  MAXFD,      (* the descriptors the system has: 1 .. MAXFD                 *)
  MAXLEN,     (* the largest send or receive                                *)
  MAXIN,      (* bytes a peer sends                                         *)
  CALLS       (* the calls the caller makes: send, recv, accept, connect    *)

INVALID == 0
Fds     == 1 .. MAXFD
NoConn  == <<>>
Made(s)    == <<s, "made">>      (* by socket() for s                       *)
Listens(s) == <<s, "listens">>   (* and after listen()                      *)
Unconnected == {Made(s) : s \in Socks}
Listeners   == {Listens(s) : s \in Socks}

ASSUME TcpAioAssumption ==
  /\ {MAXFD, MAXLEN, MAXIN} \subseteq Nat /\ MAXLEN # 0
  /\ NoConn \notin Conns

VARIABLES
  waiting, phase,   (* the task queue: see TaskService                      *)
  skt,        (* skt[s]: the descriptor of socket s, or INVALID             *)
  fd,         (* fd[f]: what the system has behind f: a connection, Made or
                 Listens of a socket, or nothing                            *)
  peer,       (* peer[c]: idle, calling, open, eof or reset                 *)
  inb,        (* inb[c]: bytes of the peer not read yet                     *)
  sent,       (* sent[c]: bytes the peer has sent                           *)
  iot,        (* the C_TCP_IOT of each task                                 *)
  asked, answer,    (* what the caller knows: see AioContract               *)
  behind,     (* the connection behind iot.skt when the request was made    *)
  strayed,    (* tasks that touched another connection than that            *)
  early,      (* tasks whose socket was closed before their callback        *)
  late,       (* tasks made when the queue was being torn down              *)
  lost        (* sockets of a Tcp_Listen that raised: nobody has them       *)

tvars == <<waiting, phase>>
ovars == <<skt, fd>>
nvars == <<peer, inb, sent>>
cvars == <<asked, answer>>
hvars == <<behind, strayed, early>>
lvars == <<late, lost>>
vars  == <<tvars, ovars, nvars, iot, cvars, hvars, lvars>>

T == INSTANCE TaskService WITH Tasks <- Ops
K == INSTANCE AioContract WITH Requests <- Ops, Sizes <- 0 .. MAXLEN

Kinds == {"none", "send", "recv", "resolve", "connect", "accept"}
NoIot == [kind |-> "none", sok |-> "none", skt |-> INVALID, obj |-> "none",
          count |-> 0, left |-> 0, min |-> 0, err |-> FALSE]

TypeOK ==
  /\ T!TypeOK
  /\ skt \in [Socks -> Fds \cup {INVALID}]
  /\ fd \in [Fds -> Conns \cup {NoConn} \cup Unconnected \cup Listeners]
  /\ peer \in [Conns -> {"idle", "calling", "open", "eof", "reset"}]
  /\ inb \in [Conns -> 0 .. MAXIN] /\ sent \in [Conns -> 0 .. MAXIN]
  /\ iot \in [Ops -> [kind : Kinds, sok : Socks \cup {"none"}, skt : Fds \cup {INVALID},
                      obj : Ops \cup {"none"}, count : 0 .. MAXLEN, left : 0 .. MAXLEN,
                      min : 0 .. MAXLEN, err : BOOLEAN]]
  /\ strayed \subseteq Ops /\ early \subseteq Ops
  /\ late \subseteq Ops /\ lost \subseteq Socks

Init ==
  /\ T!Init /\ K!Init
  /\ skt  = [s \in Socks |-> INVALID]
  /\ fd   = [f \in Fds |-> NoConn]
  /\ peer = [c \in Conns |-> "idle"]
  /\ inb  = [c \in Conns |-> 0] /\ sent = [c \in Conns |-> 0]
  /\ iot  = [o \in Ops |-> NoIot]
  /\ behind = [o \in Ops |-> NoConn]
  /\ strayed = {} /\ early = {} /\ late = {} /\ lost = {}

(* The queue is being torn down, or has been: it fails what it has.        *)
TornDown == \E o \in Ops : phase[o] = "fail"

Flying(o) == phase[o] \in {"queued", "running", "done"}
Behind(f) == IF f = INVALID THEN NoConn ELSE fd[f]
FreeFds   == {f \in Fds : fd[f] = NoConn}
(* The system gives the lowest free descriptor, or none.                   *)
Descriptor == IF FreeFds = {} THEN INVALID
              ELSE CHOOSE f \in FreeFds : \A g \in FreeFds : f <= g
Gets(f, what) == IF f = INVALID THEN fd ELSE [fd EXCEPT ![f] = what]

------------------------------------------------------------------------------
(* Requests: main thread                                                   *)

Alone(s, kinds) == ~ \E o \in Ops : Flying(o) /\ iot[o].sok = s /\ iot[o].kind \in kinds

(* Bound: n tasks are left, besides those that host names will need.       *)
Room(n) ==
  Cardinality({o \in Ops : phase[o] = "new"})
    >= n + Cardinality({o \in Ops : Flying(o) /\ iot[o].kind = "resolve"})

(* Tcp_Alloc_Iot and Tasque_Queue: the request of u, served by task o.  A  *)
(* callback that is told of a failure may well ask again, although the     *)
(* queue may already have finished the list that the task goes to.         *)
Enqueue(o, u, kind, s, f, len, min) ==
  /\ Room(1)
  /\ T!Submit(o)
  /\ late' = IF TornDown THEN late \cup {o} ELSE late
  /\ iot' = [iot EXCEPT ![o] = [NoIot EXCEPT
        !.kind = kind, !.sok = s, !.skt = f, !.obj = u, !.count = len, !.left = len, !.min = min]]

NotesBehind(o, f) == behind' = [behind EXCEPT ![o] = Behind(f)]

Tcp_Aio_Send(o, s, len) ==
  /\ Alone(s, {"send"})
  /\ Enqueue(o, o, "send", s, skt[s], len, len)
  /\ K!Ask(o, [len |-> len, min |-> len])
  /\ NotesBehind(o, skt[s])
  /\ UNCHANGED <<ovars, nvars, strayed, early, lost>>

(* A mincount of zero asks for the whole.                                  *)
Insists(len, min) == IF min = 0 THEN len ELSE min

Tcp_Aio_Recv(o, s, len, min) ==
  /\ Alone(s, {"recv"})
  /\ Enqueue(o, o, "recv", s, skt[s], len, Insists(len, min))
  /\ K!Ask(o, [len |-> len, min |-> Insists(len, min)])
  /\ NotesBehind(o, skt[s])
  /\ UNCHANGED <<ovars, nvars, strayed, early, lost>>

Tcp_Aio_Accept(o, s) ==
  /\ Alone(s, {"accept", "resolve", "connect"})
  /\ Behind(skt[s]) \in Listeners
  /\ Enqueue(o, o, "accept", s, skt[s], 0, 0)
  /\ K!Ask(o, [len |-> 0, min |-> 0])
  /\ NotesBehind(o, skt[s])
  /\ UNCHANGED <<ovars, nvars, strayed, early, lost>>

(* By host name: the address first, whose callback then connects.          *)
Tcp_Aio_Connect(o, s) ==
  /\ Alone(s, {"accept", "resolve", "connect"})
  /\ skt[s] = INVALID /\ Room(2)
  /\ Enqueue(o, o, "resolve", s, INVALID, 0, 0)
  /\ K!Ask(o, [len |-> 0, min |-> 0])
  /\ UNCHANGED <<ovars, nvars, hvars, lost>>

(* A new socket, which the caller gets only when it could be bound and     *)
(* listened to.  Otherwise an error is raised: the descriptor stays open,  *)
(* and so does the socket, which has a reference more than the pool drops. *)
(* Bound: the program listens on one socket at a time.                     *)
Tcp_Listen(s) ==
  /\ skt[s] = INVALID /\ Descriptor # INVALID
  /\ \A f \in Fds : fd[f] \notin Listeners
  /\ Alone(s, Kinds)
  /\ skt' = [skt EXCEPT ![s] = Descriptor]
  /\ \/ fd' = Gets(Descriptor, Listens(s)) /\ UNCHANGED lost
     \/ fd' = Gets(Descriptor, Made(s)) /\ lost' = lost \cup {s}
  /\ UNCHANGED <<tvars, nvars, iot, cvars, hvars, late>>

(* Tcp_Close and Tcp_Graceful_Close, which shuts the connection down first.*)
Tcp_Close_NoReset(s) ==   (* mutant *)
  /\ UNCHANGED skt
  /\ fd'  = Gets(skt[s], NoConn)
  /\ early' = early \cup {o \in Ops : Flying(o) /\ iot[o].sok = s /\ iot[o].skt = skt[s]}
Tcp_Close(s) ==
  /\ skt' = [skt EXCEPT ![s] = INVALID]
  /\ fd'  = Gets(skt[s], NoConn)
  /\ early' = early \cup {o \in Ops : Flying(o) /\ iot[o].sok = s /\ iot[o].skt = skt[s]}

Close(s) ==
  /\ skt[s] # INVALID
  /\ Tcp_Close(s)
  /\ UNCHANGED <<tvars, nvars, iot, cvars, behind, strayed, lvars>>

------------------------------------------------------------------------------
(* Workers: one system call per step                                       *)

Start(o) == T!Start(o) /\ UNCHANGED <<ovars, nvars, iot, cvars, hvars, lvars>>

Working(o, kind) == phase[o] = "running" /\ iot[o].kind = kind
Touches(o) == strayed' = IF Behind(iot[o].skt) = behind[o] THEN strayed ELSE strayed \cup {o}

(* The worker returns, or goes round its loop.                             *)
Returns(o, err) == iot' = [iot EXCEPT ![o].err = err] /\ T!End(o)
Moves(o, q) ==
  /\ iot' = [iot EXCEPT ![o].left = @ - q]
  /\ IF iot[o].count - iot[o].left + q >= iot[o].min \/ iot[o].left = q
     THEN T!End(o) ELSE UNCHANGED tvars

Wrk_Tcp_Send(o) ==
  /\ Working(o, "send")
  /\ LET c == Behind(iot[o].skt) IN
     \/ /\ c \notin Conns
        /\ Returns(o, iot[o].left # 0) /\ UNCHANGED strayed
     \/ /\ c \in Conns /\ iot[o].left = 0
        /\ Moves(o, 0) /\ UNCHANGED strayed
     \/ /\ c \in Conns /\ iot[o].left > 0 /\ Touches(o)
        /\ \/ peer[c] = "reset" /\ Returns(o, TRUE)
           \/ peer[c] # "reset" /\ \E q \in 1 .. iot[o].left : Moves(o, q)
  /\ UNCHANGED <<ovars, nvars, cvars, behind, early, lvars>>

(* The peer has closed: an error unless enough has come.                   *)
AtEof_Content(o) == Returns(o, FALSE)   (* mutant *)
AtEof_Again(o) == UNCHANGED <<iot, tvars>>   (* mutant *)
AtEof(o) == Returns(o, iot[o].count - iot[o].left < iot[o].min)

Wrk_Tcp_Recv(o) ==
  /\ Working(o, "recv")
  /\ LET c == Behind(iot[o].skt) IN
     \/ /\ c \notin Conns
        /\ Returns(o, iot[o].left # 0) /\ UNCHANGED <<strayed, inb>>
     \/ /\ c \in Conns /\ iot[o].left = 0
        /\ Moves(o, 0) /\ UNCHANGED <<strayed, inb>>
     \/ /\ c \in Conns /\ iot[o].left > 0 /\ Touches(o)
        /\ \/ \E q \in 1 .. iot[o].left :
                q <= inb[c] /\ Moves(o, q) /\ inb' = [inb EXCEPT ![c] = @ - q]
           \/ peer[c] = "reset" /\ Returns(o, TRUE) /\ UNCHANGED inb
           \/ peer[c] = "eof" /\ inb[c] = 0 /\ AtEof(o) /\ UNCHANGED inb
  /\ UNCHANGED <<ovars, peer, sent, cvars, behind, early, lvars>>

Wrk_Tcp_Resolve(o) ==
  /\ Working(o, "resolve")
  /\ \E err \in BOOLEAN : Returns(o, err)
  /\ UNCHANGED <<ovars, nvars, cvars, hvars, lvars>>

(* What was asked of the descriptor before goes to its connection too.     *)
Connected(f, c) ==
  /\ fd' = Gets(f, c)
  /\ behind' = [p \in Ops |-> IF iot[p].skt = f /\ behind[p] = fd[f] THEN c ELSE behind[p]]

(* Without a descriptor nothing is tried, and no error is left either.     *)
Wrk_Tcp_Connect(o) ==
  /\ Working(o, "connect")
  /\ LET f == iot[o].skt IN
     \/ f = INVALID /\ Returns(o, FALSE) /\ UNCHANGED <<fd, peer, behind, strayed>>
     \/ f # INVALID /\ Returns(o, TRUE) /\ UNCHANGED <<fd, peer, behind, strayed>>
     \/ /\ Behind(f) \in Unconnected /\ Touches(o)
        /\ \E c \in Conns : /\ peer[c] = "idle"
                            /\ peer' = [peer EXCEPT ![c] = "open"]
                            /\ Connected(f, c)
        /\ Returns(o, FALSE)
  /\ UNCHANGED <<skt, inb, sent, cvars, early, lvars>>

(* accept() needs a caller and a descriptor; count tells that it got them. *)
Wrk_Tcp_Accept(o) ==
  /\ Working(o, "accept")
  /\ T!End(o)
  /\ \/ /\ Behind(iot[o].skt) \in Listeners /\ Descriptor # INVALID /\ Touches(o)
        /\ \E c \in Conns : /\ peer[c] = "calling"
                            /\ peer' = [peer EXCEPT ![c] = "open"]
                            /\ fd' = Gets(Descriptor, c)
        /\ iot' = [iot EXCEPT ![o].skt = Descriptor, ![o].count = 1]
     \/ /\ Behind(iot[o].skt) \notin Listeners \/ Descriptor = INVALID
        /\ iot' = [iot EXCEPT ![o].skt = INVALID, ![o].err = TRUE]
        /\ UNCHANGED <<peer, fd, strayed>>
  /\ UNCHANGED <<skt, inb, sent, cvars, behind, early, lvars>>

------------------------------------------------------------------------------
(* Callbacks: main thread.  The task queue reports ok when the task ran to *)
(* its end, and a failure when the queue is torn down.                     *)

Reported(o, ok) == IF ok THEN ~ TornDown /\ T!Complete(o) ELSE T!Refuse(o) \/ T!Abort(o)

Tells(u, a) == answer' = [answer EXCEPT ![u] = a] /\ UNCHANGED asked

Outcome(o, ok, n) ==
  IF iot[o].err /\ skt[iot[o].sok] = INVALID THEN K!Failed("CLOSED")
  ELSE IF ~ ok \/ iot[o].err THEN K!Failed("FAIL")
  ELSE K!Completed(n)

(* Cbk_Tcp_Send and Cbk_Tcp_Recv                                           *)
Cbk_Tcp_IO(o, ok) ==
  /\ iot[o].kind \in {"send", "recv"}
  /\ Reported(o, ok)
  /\ Tells(o, Outcome(o, ok, iot[o].count - iot[o].left))
  /\ UNCHANGED <<ovars, nvars, iot, hvars, lvars>>

Cbk_Tcp_Resolve(o, ok) ==
  /\ iot[o].kind = "resolve"
  /\ ~ ok \/ iot[o].err
  /\ Reported(o, ok)
  /\ \E s \in IF ok THEN K!ResolveFailures ELSE {"FAIL"} : Tells(iot[o].obj, K!Failed(s))
  /\ UNCHANGED <<ovars, nvars, iot, hvars, lvars>>

(* Cbk_Tcp_Host_Connect, which asks for the connection by a second task.   *)
Tcp_Ip_Connect(o, p) ==
  /\ iot[o].kind = "resolve" /\ ~ iot[o].err
  /\ ~ TornDown
  /\ phase[o] = "done" /\ phase[p] = "new"
  /\ phase' = [phase EXCEPT ![o] = "complete", ![p] = "queued"]
  /\ waiting' = Append(waiting, p)
  /\ LET s == iot[o].sok IN
     /\ skt' = [skt EXCEPT ![s] = Descriptor]
     /\ fd'  = Gets(Descriptor, Made(s))
     /\ iot' = [iot EXCEPT ![p] = [NoIot EXCEPT
          !.kind = "connect", !.sok = s, !.skt = Descriptor, !.obj = iot[o].obj]]
     /\ behind' = [behind EXCEPT ![p] = Made(s)]
  /\ UNCHANGED <<nvars, cvars, strayed, early, lvars>>

Cbk_Tcp_Connect(o, ok) ==
  /\ iot[o].kind = "connect"
  /\ Reported(o, ok)
  /\ IF iot[o].err \/ ~ ok
     THEN /\ Tcp_Close(iot[o].sok)
          /\ Tells(iot[o].obj, K!Failed("FAIL"))
     ELSE /\ Tells(iot[o].obj, K!Completed(0))
          /\ UNCHANGED <<ovars, early>>
  /\ UNCHANGED <<nvars, iot, behind, strayed, lvars>>

(* The accepted descriptor goes into a new socket; a failed task drops it. *)
Cbk_Tcp_Accept(o, ok) ==
  /\ iot[o].kind = "accept"
  /\ Reported(o, ok)
  /\ IF ok /\ ~ iot[o].err
     THEN /\ \E s \in Socks : /\ skt[s] = INVALID /\ Alone(s, Kinds)
                              /\ skt' = [skt EXCEPT ![s] = iot[o].skt]
          /\ Tells(o, K!Completed(0))
     ELSE /\ Tells(o, K!Failed(IF skt[iot[o].sok] = INVALID THEN "CLOSED" ELSE "FAIL"))
          /\ UNCHANGED skt
  /\ UNCHANGED <<fd, nvars, iot, hvars, lvars>>

------------------------------------------------------------------------------
(* The peers                                                               *)

Quiet == UNCHANGED <<tvars, ovars, iot, cvars, hvars, lvars>>

PeerCalls(c) ==
  /\ peer[c] = "idle"
  /\ \E f \in Fds : fd[f] \in Listeners
  /\ peer' = [peer EXCEPT ![c] = "calling"]
  /\ Quiet /\ UNCHANGED <<inb, sent>>

PeerSends(c) ==
  /\ peer[c] = "open" /\ sent[c] < MAXIN
  /\ sent' = [sent EXCEPT ![c] = @ + 1] /\ inb' = [inb EXCEPT ![c] = @ + 1]
  /\ Quiet /\ UNCHANGED peer

PeerLeaves(c) ==
  /\ peer[c] = "open"
  /\ peer' \in {[peer EXCEPT ![c] = how] : how \in {"eof", "reset"}}
  /\ Quiet /\ UNCHANGED <<inb, sent>>

------------------------------------------------------------------------------
Asks(o, s) ==
  \/ "send" \in CALLS /\ \E len \in 1 .. MAXLEN : Tcp_Aio_Send(o, s, len)
  \/ "recv" \in CALLS /\ \E len \in 1 .. MAXLEN : \E min \in 0 .. len : Tcp_Aio_Recv(o, s, len, min)
  \/ "accept" \in CALLS /\ Tcp_Aio_Accept(o, s)
  \/ "connect" \in CALLS /\ Tcp_Aio_Connect(o, s)

Works(o) ==
  Start(o) \/ Wrk_Tcp_Send(o) \/ Wrk_Tcp_Recv(o) \/ Wrk_Tcp_Resolve(o)
  \/ Wrk_Tcp_Connect(o) \/ Wrk_Tcp_Accept(o)

Calls(o, ok) ==
  Cbk_Tcp_IO(o, ok) \/ Cbk_Tcp_Resolve(o, ok) \/ Cbk_Tcp_Connect(o, ok) \/ Cbk_Tcp_Accept(o, ok)

Chains(o) == \E p \in Ops : Tcp_Ip_Connect(o, p)

Peers(c) == PeerCalls(c) \/ PeerSends(c) \/ PeerLeaves(c)

Next ==
  \/ \E o \in Ops : Works(o) \/ Chains(o) \/ \E ok \in BOOLEAN : Calls(o, ok)
  \/ \E o \in Ops, s \in Socks \ lost : Asks(o, s)
  \/ \E s \in Socks \ lost : Tcp_Listen(s) \/ Close(s)
  \/ \E c \in Conns : Peers(c)

Spec == Init /\ [][Next]_vars

(* The queue runs what it has, or fails all it had when it is torn down,   *)
(* and the main thread calls back; a peer calls and, once connected,       *)
(* leaves.  Nothing is promised of the tasks that come late.               *)
Works_InTime(o) == o \notin late /\ Works(o)
Fails_InTime(o) == TornDown /\ o \notin late /\ Calls(o, FALSE)
Fairness ==
  /\ \A o \in Ops : WF_vars(Works_InTime(o)) /\ WF_vars(Fails_InTime(o))
                   /\ WF_vars(Calls(o, TRUE)) /\ WF_vars(Chains(o))
  /\ \A c \in Conns : WF_vars(PeerCalls(c)) /\ WF_vars(PeerLeaves(c))

FairSpec == Spec /\ Fairness

------------------------------------------------------------------------------
(* Every request is answered once, with a count its sizes allow and only   *)
(* after it was made: the callbacks of Cbk_Tcp_* against what Wrk_Tcp_*    *)
(* left in the C_TCP_IOT, whatever became of the socket meanwhile.         *)
ImplementsContract == K!Spec

(* A task reads, writes or accepts on another connection than the one its  *)
(* socket had when the request was made only after that socket was closed  *)
(* with the request in flight: iot->skt is a copy of the descriptor.       *)
StraysOnlyAfterClose == strayed \subseteq early

(* Every descriptor the system gave out is held once: by one socket, or by *)
(* an accept on its way to its callback.  It is out of everybody's hands   *)
(* for ever only when Tcp_Listen raised with the descriptor open, or the   *)
(* queue failed an accept that had succeeded.                              *)
Carried(o) == iot[o].kind = "accept" /\ iot[o].count = 1
Holders(f) ==
  {s \in Socks \ lost : skt[s] = f} \cup
  {o \in Ops : Carried(o) /\ iot[o].skt = f /\ phase[o] = "done"}
Leaked(f) ==
  \/ \E s \in lost : skt[s] = f
  \/ \E o \in Ops : Carried(o) /\ iot[o].skt = f /\ phase[o] = "fail"
DescriptorsHeld ==
  /\ TypeOK
  /\ \A f \in Fds : Leaked(f) => fd[f] # NoConn
  /\ \A f \in Fds : Cardinality(Holders(f)) = IF fd[f] = NoConn \/ Leaked(f) THEN 0 ELSE 1

(* Every request made before the queue is torn down is answered, while     *)
(* peers come and go; those made by callbacks of the tear-down need not be.*)
AllAnswered ==
  \A u \in Ops : (asked[u] # K!Unasked) ~> (answer[u] # K!Nothing \/ u \in late)

=============================================================================
