---------------------------- MODULE TcpAioProofs ----------------------------
(***************************************************************************)
(* Theorems about TcpAio, for any tasks, sockets, connections and sizes:   *)
(* every request gets one answer of a size that it asked for.              *)
(***************************************************************************)
EXTENDS TcpAio, FiniteSetTheorems, WellFoundedInduction, TLAPS

Iots == [kind : Kinds, sok : Socks \cup {"none"}, skt : Fds \cup {INVALID},
         obj : Ops \cup {"none"}, count : 0 .. MAXLEN, left : 0 .. MAXLEN,
         min : 0 .. MAXLEN, err : BOOLEAN]
Ends == Conns \cup {NoConn} \cup Unconnected \cup Listeners
Statuses == {"none", "COMPLETE"} \cup K!Failures

TaskTypes == waiting \in Seq(Ops) /\ phase \in [Ops -> T!Phases]
FdTypes == skt \in [Socks -> Fds \cup {INVALID}] /\ fd \in [Fds -> Ends]
NetTypes ==
  /\ peer \in [Conns -> {"idle", "calling", "open", "eof", "reset"}]
  /\ inb \in [Conns -> 0 .. MAXIN] /\ sent \in [Conns -> 0 .. MAXIN]
  /\ \A c \in Conns : inb[c] <= sent[c]
IotTypes == iot \in [Ops -> Iots]
HistoryTypes == behind \in [Ops -> Ends] /\ strayed \subseteq Ops /\ early \subseteq Ops
CallTypes ==
  /\ asked \in [Ops -> [len : 0 .. MAXLEN, min : Nat]]
  /\ answer \in [Ops -> [status : Statuses, count : Nat]]

Types == TaskTypes /\ FdTypes /\ NetTypes /\ IotTypes /\ HistoryTypes /\ CallTypes

LossTypes == late \subseteq Ops /\ lost \subseteq Socks

LEMMA TypesGiveTypeOK == Types /\ LossTypes => TypeOK
  BY DEF Types, TaskTypes, FdTypes, NetTypes, IotTypes, HistoryTypes, LossTypes, TypeOK, T!TypeOK, Iots, Ends

LEMMA InitTypes == Init => Types
<1> SUFFICES ASSUME Init PROVE Types
  OBVIOUS
<1>1. 0 \in 0 .. MAXLEN /\ 0 \in 0 .. MAXIN
  BY TcpAioAssumption
<1>2. NoIot \in Iots
  BY <1>1 DEF NoIot, Iots, Kinds, INVALID
<1>3. IotTypes
  BY <1>2 DEF Init, IotTypes
<1>4. CallTypes
  BY <1>1 DEF Init, K!Init, CallTypes, K!Unasked, K!Nothing, Statuses
<1>5. TaskTypes
  BY DEF Init, T!Init, TaskTypes, T!Phases
<1>6. FdTypes /\ NetTypes /\ HistoryTypes
  BY <1>1 DEF Init, FdTypes, NetTypes, HistoryTypes, Ends
<1> QED BY <1>3, <1>4, <1>5, <1>6 DEF Types

(* The system gives out the lowest free descriptor, or none.               *)
LEMMA Lowest ==
  ASSUME NEW S, S \subseteq Nat, S # {}
  PROVE  \E f \in S : \A g \in S : f <= g
<1>1. PICK f \in S : \A g \in S : ~ (<<g, f>> \in OpToRel(<, Nat))
  BY WFMin, NatLessThanWellFounded
<1>2. \A g \in S : ~ (g < f)
  BY <1>1 DEF OpToRel
<1> QED BY <1>2

LEMMA DescriptorFree ==
  Descriptor = INVALID \/ (Descriptor \in Fds /\ fd[Descriptor] = NoConn)
<1>1. CASE FreeFds = {}
  BY <1>1 DEF Descriptor
<1>2. CASE FreeFds # {}
  <2>1. FreeFds \subseteq Nat
    BY TcpAioAssumption DEF FreeFds, Fds
  <2>2. PICK f \in FreeFds : \A g \in FreeFds : f <= g
    BY <1>2, <2>1, Lowest
  <2>3. Descriptor \in FreeFds
    BY <1>2, <2>2 DEF Descriptor
  <2> QED BY <2>3 DEF FreeFds
<1> QED BY <1>1, <1>2

LEMMA BehindType == ASSUME FdTypes, NEW f \in Fds \cup {INVALID} PROVE Behind(f) \in Ends
  BY DEF FdTypes, Behind, Ends

LEMMA GetsType ==
  ASSUME FdTypes, NEW f \in Fds \cup {INVALID}, NEW e \in Ends
  PROVE  Gets(f, e) \in [Fds -> Ends]
  BY DEF FdTypes, Gets

-----------------------------------------------------------------------------
(* Types                                                                   *)

LEMMA EnqueueTypes ==
  ASSUME Types, NEW o \in Ops, NEW u \in Ops, NEW kind \in Kinds, NEW s \in Socks,
         NEW f \in Fds \cup {INVALID}, NEW len \in 0 .. MAXLEN, NEW min \in 0 .. MAXLEN,
         Enqueue(o, u, kind, s, f, len, min)
  PROVE  TaskTypes' /\ IotTypes'
<1>1. TaskTypes'
  BY DEF Types, TaskTypes, Enqueue, T!Submit, T!Move, T!Phases
<1>2. [NoIot EXCEPT !.kind = kind, !.sok = s, !.skt = f, !.obj = u, !.count = len, !.left = len,
                    !.min = min] \in Iots
  BY DEF NoIot, Iots
<1>3. IotTypes'
  BY <1>2 DEF Types, IotTypes, Enqueue
<1> QED BY <1>1, <1>3

LEMMA AskTypes ==
  ASSUME Types, NEW o \in Ops, NEW s \in Socks, Asks(o, s)
  PROVE  Types'
<1>0. skt[s] \in Fds \cup {INVALID} /\ 0 \in 0 .. MAXLEN /\ {"send", "recv", "accept", "resolve"} \subseteq Kinds
  BY TcpAioAssumption DEF Types, FdTypes, Kinds
<1>1. ASSUME NEW f \in Fds \cup {INVALID}, NotesBehind(o, f), UNCHANGED <<strayed, early>>
      PROVE  HistoryTypes'
  BY <1>1, BehindType DEF Types, HistoryTypes, NotesBehind
<1>2. ASSUME NEW len \in 0 .. MAXLEN, NEW min \in Nat, K!Ask(o, [len |-> len, min |-> min])
      PROVE  CallTypes'
  BY <1>2 DEF Types, CallTypes, K!Ask
<1>3. ASSUME UNCHANGED <<ovars, nvars>> PROVE FdTypes' /\ NetTypes'
  BY <1>3 DEF Types, FdTypes, NetTypes, ovars, nvars
<1>4. ASSUME NEW len \in 0 .. MAXLEN, Tcp_Aio_Send(o, s, len) PROVE Types'
  BY <1>0, <1>1, <1>2, <1>3, <1>4, EnqueueTypes, TcpAioAssumption DEF Tcp_Aio_Send, Types
<1>5. ASSUME NEW len \in 1 .. MAXLEN, NEW min \in 0 .. len, Tcp_Aio_Recv(o, s, len, min) PROVE Types'
  <2>1. len \in 0 .. MAXLEN /\ Insists(len, min) \in 0 .. MAXLEN /\ Insists(len, min) \in Nat
    BY TcpAioAssumption DEF Insists
  <2>2. TaskTypes' /\ IotTypes'
    BY <1>0, <1>5, <2>1, EnqueueTypes DEF Tcp_Aio_Recv
  <2>3. HistoryTypes' /\ CallTypes' /\ FdTypes' /\ NetTypes'
    BY <1>0, <1>1, <1>2, <1>3, <1>5, <2>1 DEF Tcp_Aio_Recv
  <2> QED BY <2>2, <2>3 DEF Types
<1>6. CASE Tcp_Aio_Accept(o, s)
  BY <1>0, <1>1, <1>2, <1>3, <1>6, EnqueueTypes DEF Tcp_Aio_Accept, Types
<1>7. CASE Tcp_Aio_Connect(o, s)
  <2>1. HistoryTypes'
    BY <1>7 DEF Tcp_Aio_Connect, hvars, Types, HistoryTypes
  <2>2. TaskTypes' /\ IotTypes'
    BY <1>0, <1>7, EnqueueTypes DEF Tcp_Aio_Connect
  <2> QED BY <1>0, <1>2, <1>3, <1>7, <2>1, <2>2 DEF Tcp_Aio_Connect, Types
<1> QED BY <1>4, <1>5, <1>6, <1>7 DEF Asks

LEMMA StartTypes ==
  ASSUME Types, NEW o \in Ops, Start(o)
  PROVE  Types'
<1>1. TaskTypes'
  BY DEF Types, TaskTypes, Start, T!Start, T!Leave, T!Move, T!Phases
<1> QED BY <1>1 DEF Start, Types, FdTypes, NetTypes, IotTypes, HistoryTypes, CallTypes,
                    ovars, nvars, cvars, hvars

(* How a step of a worker leaves the task and its request.                 *)
LEMMA EndTypes ==
  ASSUME Types, NEW o \in Ops, T!End(o) \/ UNCHANGED tvars
  PROVE  TaskTypes'
  BY DEF Types, TaskTypes, T!End, T!Move, T!Phases, tvars

LEMMA ReturnsTypes ==
  ASSUME Types, NEW o \in Ops, NEW err \in BOOLEAN, Returns(o, err)
  PROVE  TaskTypes' /\ IotTypes'
<1>1. TaskTypes'
  BY EndTypes DEF Returns
<1>2. IotTypes'
  BY DEF Types, IotTypes, Iots, Returns
<1> QED BY <1>1, <1>2

LEMMA MovesTypes ==
  ASSUME Types, NEW o \in Ops, NEW q \in 0 .. iot[o].left, Moves(o, q)
  PROVE  TaskTypes' /\ IotTypes'
<1>1. TaskTypes'
  BY EndTypes DEF Moves
<1>2. iot[o].left \in 0 .. MAXLEN /\ iot[o] \in Iots
  BY DEF Types, IotTypes, Iots
<1>3. iot[o].left - q \in 0 .. MAXLEN
  BY <1>2, TcpAioAssumption
<1>4. [iot[o] EXCEPT !.left = iot[o].left - q] \in Iots
  BY <1>2, <1>3 DEF Iots
<1>5. IotTypes'
  BY <1>4 DEF Types, IotTypes, Moves
<1> QED BY <1>1, <1>5

LEMMA TouchesTypes ==
  ASSUME Types, NEW o \in Ops, Touches(o) \/ UNCHANGED strayed, UNCHANGED <<behind, early>>
  PROVE  HistoryTypes'
  BY DEF Types, HistoryTypes, Touches

LEMMA SendTypes ==
  ASSUME Types, NEW o \in Ops, Wrk_Tcp_Send(o)
  PROVE  Types'
<1>1. FdTypes' /\ NetTypes' /\ CallTypes'
  BY DEF Types, Wrk_Tcp_Send, ovars, nvars, cvars, FdTypes, NetTypes, CallTypes
<1>2. HistoryTypes'
  BY TouchesTypes DEF Wrk_Tcp_Send
<1>3. iot[o].left \in Nat
  BY TcpAioAssumption DEF Types, IotTypes, Iots
<1>4. \/ Returns(o, iot[o].left # 0) \/ Returns(o, TRUE)
      \/ Moves(o, 0) \/ \E q \in 1 .. iot[o].left : Moves(o, q)
  BY Zenon DEF Wrk_Tcp_Send
<1>5. 0 \in 0 .. iot[o].left /\ \A q \in 1 .. iot[o].left : q \in 0 .. iot[o].left
  BY <1>3
<1>6. (iot[o].left # 0) \in BOOLEAN /\ TRUE \in BOOLEAN
  OBVIOUS
<1>7. TaskTypes' /\ IotTypes'
  BY <1>4, <1>5, <1>6, ReturnsTypes, MovesTypes, Zenon
<1> QED BY <1>1, <1>2, <1>7 DEF Types

LEMMA RecvTypes ==
  ASSUME Types, NEW o \in Ops, Wrk_Tcp_Recv(o)
  PROVE  Types'
<1>1. FdTypes' /\ CallTypes'
  BY DEF Types, Wrk_Tcp_Recv, ovars, cvars, FdTypes, CallTypes
<1>2. HistoryTypes'
  BY TouchesTypes DEF Wrk_Tcp_Recv
<1>3. iot[o].left \in Nat
  BY TcpAioAssumption DEF Types, IotTypes, Iots
<1>4. \/ Returns(o, iot[o].left # 0) \/ Returns(o, TRUE) \/ AtEof(o)
      \/ Moves(o, 0) \/ \E q \in 1 .. iot[o].left : Moves(o, q)
  BY Zenon DEF Wrk_Tcp_Recv
<1>5. NetTypes'
  <2>1. UNCHANGED <<peer, sent>>
    BY DEF Wrk_Tcp_Recv
  <2>2. \/ UNCHANGED inb
        \/ \E c \in Conns, q \in 1 .. iot[o].left : q <= inb[c] /\ inb' = [inb EXCEPT ![c] = @ - q]
    BY DEF Wrk_Tcp_Recv
  <2>3. CASE UNCHANGED inb
    BY <2>1, <2>3 DEF Types, NetTypes
  <2>4. ASSUME NEW c \in Conns, NEW q \in 1 .. iot[o].left, q <= inb[c],
               inb' = [inb EXCEPT ![c] = @ - q]
        PROVE  NetTypes'
    BY <1>3, <2>1, <2>4, TcpAioAssumption DEF Types, NetTypes
  <2> QED BY <2>2, <2>3, <2>4
<1>6. 0 \in 0 .. iot[o].left /\ \A q \in 1 .. iot[o].left : q \in 0 .. iot[o].left
  BY <1>3
<1>7. /\ (iot[o].left # 0) \in BOOLEAN /\ TRUE \in BOOLEAN
      /\ (iot[o].count - iot[o].left < iot[o].min) \in BOOLEAN
  OBVIOUS
<1>8. TaskTypes' /\ IotTypes'
  BY <1>4, <1>6, <1>7, ReturnsTypes, MovesTypes, Zenon DEF AtEof
<1> QED BY <1>1, <1>2, <1>5, <1>8 DEF Types

LEMMA ResolveTypes ==
  ASSUME Types, NEW o \in Ops, Wrk_Tcp_Resolve(o)
  PROVE  Types'
<1>1. TaskTypes' /\ IotTypes'
  BY ReturnsTypes DEF Wrk_Tcp_Resolve
<1> QED BY <1>1 DEF Wrk_Tcp_Resolve, Types, FdTypes, NetTypes, HistoryTypes, CallTypes,
                    ovars, nvars, cvars, hvars

LEMMA ConnectTypes ==
  ASSUME Types, NEW o \in Ops, Wrk_Tcp_Connect(o)
  PROVE  Types'
<1>1. TaskTypes' /\ IotTypes'
  BY ReturnsTypes DEF Wrk_Tcp_Connect
<1>2. CallTypes' /\ UNCHANGED <<skt, inb, sent, early>>
  BY DEF Types, Wrk_Tcp_Connect, cvars, CallTypes
<1>3. iot[o].skt \in Fds \cup {INVALID}
  BY DEF Types, IotTypes, Iots
<1>4. CASE UNCHANGED <<fd, peer, behind, strayed>>
  BY <1>1, <1>2, <1>4 DEF Types, FdTypes, NetTypes, HistoryTypes
<1>5. ASSUME NEW c \in Conns, peer' = [peer EXCEPT ![c] = "open"], Connected(iot[o].skt, c), Touches(o)
      PROVE  FdTypes' /\ NetTypes' /\ HistoryTypes'
  <2>1. c \in Ends
    BY DEF Ends
  <2>2. FdTypes'
    BY <1>2, <1>3, <1>5, <2>1, GetsType DEF Types, FdTypes, Connected
  <2>3. NetTypes'
    BY <1>2, <1>5 DEF Types, NetTypes
  <2>4. HistoryTypes'
    BY <1>2, <1>5, <2>1 DEF Types, HistoryTypes, Connected, Touches
  <2> QED BY <2>2, <2>3, <2>4
<1> QED BY <1>1, <1>2, <1>4, <1>5 DEF Wrk_Tcp_Connect, Types

LEMMA AcceptTypes ==
  ASSUME Types, NEW o \in Ops, Wrk_Tcp_Accept(o)
  PROVE  Types'
<1>1. TaskTypes'
  BY EndTypes DEF Wrk_Tcp_Accept
<1>2. CallTypes' /\ UNCHANGED <<skt, inb, sent, behind, early>>
  BY DEF Types, Wrk_Tcp_Accept, cvars, CallTypes
<1>3. HistoryTypes'
  BY <1>2, TouchesTypes DEF Wrk_Tcp_Accept
<1>4. CASE /\ iot' = [iot EXCEPT ![o].skt = INVALID, ![o].err = TRUE]
           /\ UNCHANGED <<peer, fd, strayed>>
  <2>1. [iot[o] EXCEPT !.skt = INVALID, !.err = TRUE] \in Iots
    BY DEF Types, IotTypes, Iots
  <2>2. PICK r \in Iots : iot' = [iot EXCEPT ![o] = r]
    BY <1>4, <2>1
  <2>3. IotTypes'
    BY <2>2 DEF Types, IotTypes
  <2> QED BY <1>1, <1>2, <1>3, <1>4, <2>3 DEF Types, FdTypes, NetTypes
<1>5. ASSUME NEW c \in Conns, peer' = [peer EXCEPT ![c] = "open"], fd' = Gets(Descriptor, c),
             iot' = [iot EXCEPT ![o].skt = Descriptor, ![o].count = 1]
      PROVE  Types'
  <2>1. c \in Ends /\ 1 \in 0 .. MAXLEN /\ Descriptor \in Fds \cup {INVALID}
    BY DescriptorFree, TcpAioAssumption DEF Ends
  <2>2. [iot[o] EXCEPT !.skt = Descriptor, !.count = 1] \in Iots
    BY <2>1 DEF Types, IotTypes, Iots
  <2>3. PICK r \in Iots : iot' = [iot EXCEPT ![o] = r]
    BY <1>5, <2>2
  <2>4. IotTypes'
    BY <2>3 DEF Types, IotTypes
  <2>5. FdTypes'
    BY <1>2, <1>5, <2>1, GetsType DEF Types, FdTypes
  <2>6. NetTypes'
    BY <1>2, <1>5 DEF Types, NetTypes
  <2> QED BY <1>1, <1>2, <1>3, <2>4, <2>5, <2>6 DEF Types
<1> QED BY <1>4, <1>5 DEF Wrk_Tcp_Accept

LEMMA ReportedTypes ==
  ASSUME Types, NEW o \in Ops, NEW ok \in BOOLEAN, Reported(o, ok)
  PROVE  TaskTypes'
  BY DEF Types, TaskTypes, Reported, T!Complete, T!Refuse, T!Abort, T!Leave, T!Move, T!Phases

LEMMA TellsTypes ==
  ASSUME Types, NEW u, NEW a \in [status : Statuses, count : Nat], Tells(u, a)
  PROVE  CallTypes'
  BY DEF Types, CallTypes, Tells

LEMMA AnswersTyped ==
  /\ \A n \in Nat : K!Completed(n) \in [status : Statuses, count : Nat]
  /\ \A s \in K!Failures : K!Failed(s) \in [status : Statuses, count : Nat]
  BY DEF K!Completed, K!Failed, Statuses

LEMMA CloseTypes ==
  ASSUME Types, NEW s \in Socks, Tcp_Close(s)
  PROVE  FdTypes' /\ early' \subseteq Ops
<1>1. NoConn \in Ends /\ skt[s] \in Fds \cup {INVALID}
  BY DEF Ends, Types, FdTypes
<1> QED BY <1>1, GetsType DEF Types, FdTypes, HistoryTypes, Tcp_Close

LEMMA CloseOfTypes ==
  ASSUME Types, NEW s \in Socks, Close(s)
  PROVE  Types'
<1>1. Tcp_Close(s) /\ UNCHANGED <<tvars, nvars, iot, cvars, behind, strayed>>
  BY DEF Close
<1> QED BY <1>1, CloseTypes DEF Types, TaskTypes, NetTypes, IotTypes, HistoryTypes, CallTypes,
                              tvars, nvars, cvars

LEMMA ListenTypes ==
  ASSUME Types, NEW s \in Socks, Tcp_Listen(s)
  PROVE  Types'
<1>1. {Listens(s), Made(s)} \subseteq Ends /\ Descriptor \in Fds \cup {INVALID}
  BY DescriptorFree DEF Ends, Listeners, Unconnected
<1>2. FdTypes'
  BY <1>1, GetsType DEF Types, FdTypes, Tcp_Listen
<1> QED BY <1>2 DEF Tcp_Listen, Types, TaskTypes, NetTypes, IotTypes, HistoryTypes, CallTypes,
                    tvars, nvars, cvars, hvars

LEMMA CbkIOTypes ==
  ASSUME Types, NEW o \in Ops, NEW ok \in BOOLEAN, Cbk_Tcp_IO(o, ok),
         iot[o].left <= iot[o].count
  PROVE  Types'
<1>1. TaskTypes'
  BY ReportedTypes DEF Cbk_Tcp_IO
<1>2. iot[o].count - iot[o].left \in Nat
  BY TcpAioAssumption DEF Types, IotTypes, Iots
<1>3. Outcome(o, ok, iot[o].count - iot[o].left) \in [status : Statuses, count : Nat]
  BY <1>2, AnswersTyped DEF Outcome, K!Failures, K!IOFailures
<1>4. CallTypes'
  BY <1>3, TellsTypes DEF Cbk_Tcp_IO
<1> QED BY <1>1, <1>4 DEF Cbk_Tcp_IO, Types, FdTypes, NetTypes, IotTypes, HistoryTypes, ovars, nvars, hvars

LEMMA CbkResolveTypes ==
  ASSUME Types, NEW o \in Ops, NEW ok \in BOOLEAN, Cbk_Tcp_Resolve(o, ok)
  PROVE  Types'
<1>1. TaskTypes'
  BY ReportedTypes DEF Cbk_Tcp_Resolve
<1>2. CallTypes'
  BY AnswersTyped, TellsTypes DEF Cbk_Tcp_Resolve, K!Failures, K!IOFailures, K!ResolveFailures
<1> QED BY <1>1, <1>2 DEF Cbk_Tcp_Resolve, Types, FdTypes, NetTypes, IotTypes, HistoryTypes, ovars, nvars, hvars

LEMMA CbkConnectTypes ==
  ASSUME Types, NEW o \in Ops, NEW ok \in BOOLEAN, Cbk_Tcp_Connect(o, ok), iot[o].sok \in Socks
  PROVE  Types'
<1>1. TaskTypes'
  BY ReportedTypes DEF Cbk_Tcp_Connect
<1>2. CallTypes' /\ FdTypes' /\ early' \subseteq Ops
  <2>1. CASE iot[o].err \/ ~ ok
    BY <2>1, CloseTypes, TellsTypes, AnswersTyped DEF Cbk_Tcp_Connect, K!Failures, K!IOFailures
  <2>2. CASE ~ (iot[o].err \/ ~ ok)
    <3>1. Tells(iot[o].obj, K!Completed(0)) /\ UNCHANGED <<ovars, early>>
      BY <2>2 DEF Cbk_Tcp_Connect
    <3> QED BY <3>1, TellsTypes, AnswersTyped DEF Types, FdTypes, HistoryTypes, ovars
  <2> QED BY <2>1, <2>2
<1> QED BY <1>1, <1>2 DEF Cbk_Tcp_Connect, Types, NetTypes, IotTypes, HistoryTypes, nvars

LEMMA CbkAcceptTypes ==
  ASSUME Types, NEW o \in Ops, NEW ok \in BOOLEAN, Cbk_Tcp_Accept(o, ok)
  PROVE  Types'
<1>1. TaskTypes'
  BY ReportedTypes DEF Cbk_Tcp_Accept
<1>2. iot[o].skt \in Fds \cup {INVALID}
  BY DEF Types, IotTypes, Iots
<1>3. CallTypes' /\ FdTypes'
  <2>1. CASE ok /\ ~ iot[o].err
    <3>1. /\ Tells(o, K!Completed(0)) /\ fd' = fd
          /\ \E s \in Socks : skt' = [skt EXCEPT ![s] = iot[o].skt]
      BY <2>1 DEF Cbk_Tcp_Accept
    <3> QED BY <1>2, <3>1, TellsTypes, AnswersTyped DEF Types, FdTypes
  <2>2. CASE ~ (ok /\ ~ iot[o].err)
    <3>1. /\ Tells(o, K!Failed("CLOSED")) \/ Tells(o, K!Failed("FAIL"))
          /\ UNCHANGED <<skt, fd>>
      BY <2>2 DEF Cbk_Tcp_Accept
    <3> QED BY <3>1, TellsTypes, AnswersTyped DEF Types, FdTypes, K!Failures, K!IOFailures
  <2> QED BY <2>1, <2>2
<1> QED BY <1>1, <1>3 DEF Cbk_Tcp_Accept, Types, NetTypes, IotTypes, HistoryTypes, nvars, hvars

LEMMA ChainTypes ==
  ASSUME Types, NEW o \in Ops, NEW p \in Ops, Tcp_Ip_Connect(o, p),
         iot[o].sok \in Socks, iot[o].obj \in Ops
  PROVE  Types'
<1>1. Descriptor \in Fds \cup {INVALID} /\ Made(iot[o].sok) \in Ends /\ 0 \in 0 .. MAXLEN
  BY DescriptorFree, TcpAioAssumption DEF Ends, Unconnected
<1>2. TaskTypes'
  BY DEF Types, TaskTypes, Tcp_Ip_Connect, T!Phases
<1>3. FdTypes'
  BY <1>1, GetsType DEF Types, FdTypes, Tcp_Ip_Connect
<1>4. [NoIot EXCEPT !.kind = "connect", !.sok = iot[o].sok, !.skt = Descriptor, !.obj = iot[o].obj]
        \in Iots
  BY <1>1 DEF NoIot, Iots, Kinds
<1>5. IotTypes'
  BY <1>4 DEF Types, IotTypes, Tcp_Ip_Connect
<1>6. HistoryTypes'
  BY <1>1 DEF Types, HistoryTypes, Tcp_Ip_Connect
<1> QED BY <1>2, <1>3, <1>5, <1>6 DEF Types, NetTypes, CallTypes, Tcp_Ip_Connect, nvars, cvars

LEMMA PeerTypes ==
  ASSUME Types, NEW c \in Conns, Peers(c)
  PROVE  Types'
<1>1. TaskTypes' /\ FdTypes' /\ IotTypes' /\ CallTypes' /\ HistoryTypes'
  BY DEF Peers, PeerCalls, PeerSends, PeerLeaves, Quiet, Types, TaskTypes, FdTypes, IotTypes,
         CallTypes, HistoryTypes, tvars, ovars, cvars, hvars
<1>2. NetTypes'
  <2>1. CASE PeerCalls(c) \/ PeerLeaves(c)
    BY <2>1 DEF PeerCalls, PeerLeaves, Types, NetTypes
  <2>2. CASE PeerSends(c)
    BY <2>2, TcpAioAssumption DEF PeerSends, Types, NetTypes
  <2> QED BY <2>1, <2>2 DEF Peers
<1> QED BY <1>1, <1>2 DEF Types

-----------------------------------------------------------------------------
(* The invariant: the task in flight for a request knows its sizes, no     *)
(* other task serves that request, and nobody has answered it yet.         *)

(* A send or receive is its own request, and ends short only with an error.*)
Transfers(o) ==
  /\ iot[o].obj = o /\ asked[o] = [len |-> iot[o].count, min |-> iot[o].min]
  /\ iot[o].left <= iot[o].count /\ iot[o].min <= iot[o].count
  /\ phase[o] = "done" => iot[o].err = TRUE \/ iot[o].count - iot[o].left >= iot[o].min

(* An accept is its own request too; a connect is served by two tasks.     *)
Opens(o) ==
  /\ asked[iot[o].obj] = [len |-> 0, min |-> 0]
  /\ iot[o].kind = "accept" => iot[o].obj = o

Serves(o) ==
  /\ iot[o].obj \in Ops /\ iot[o].sok \in Socks
  /\ asked[iot[o].obj] # K!Unasked /\ answer[iot[o].obj] = K!Nothing
  /\ \/ iot[o].kind \in {"send", "recv"} /\ Transfers(o)
     \/ iot[o].kind \in {"resolve", "connect", "accept"} /\ Opens(o)

ServesAll == \A o \in Ops : Flying(o) => Serves(o)
ServesOne == \A o, p \in Ops : Flying(o) /\ Flying(p) /\ iot[o].obj = iot[p].obj => o = p
NotAsked  == \A u \in Ops : asked[u] = K!Unasked => answer[u] = K!Nothing

CInv == Types /\ ServesAll /\ ServesOne /\ NotAsked

LEMMA InitCInv == Init => CInv
<1> SUFFICES ASSUME Init PROVE CInv
  OBVIOUS
<1>1. \A o \in Ops : ~ Flying(o)
  BY DEF Init, T!Init, Flying
<1>2. NotAsked
  BY DEF Init, K!Init, NotAsked
<1> QED BY <1>1, <1>2, InitTypes DEF CInv, ServesAll, ServesOne

(* A step that touches one task in flight, and that it still serves.       *)
LEMMA StepKeeps ==
  ASSUME CInv, Types', NEW o \in Ops, Flying(o), UNCHANGED cvars,
         \A q \in Ops \ {o} : iot'[q] = iot[q] /\ phase'[q] = phase[q],
         iot'[o].obj = iot[o].obj, Serves(o)'
  PROVE  CInv'
<1>1. \A q \in Ops : Flying(q)' => Flying(q)
  BY DEF Flying
<1>2. \A q \in Ops : iot'[q].obj = iot[q].obj
  OBVIOUS
<1>3. ASSUME NEW q \in Ops \ {o}, Serves(q) PROVE Serves(q)'
  BY <1>3 DEF Serves, Transfers, Opens, cvars
<1>4. ServesAll'
  BY <1>1, <1>3 DEF CInv, ServesAll
<1>5. ServesOne'
  BY <1>1, <1>2 DEF CInv, ServesOne
<1>6. NotAsked'
  BY DEF CInv, NotAsked, cvars
<1> QED BY <1>4, <1>5, <1>6 DEF CInv

-----------------------------------------------------------------------------
(* Requests                                                                *)

LEMMA EnqueueKeeps ==
  ASSUME CInv, Types', NEW o \in Ops, NEW s \in Socks, NEW kind \in Kinds \ {"none"}, NEW f,
         NEW len \in 0 .. MAXLEN, NEW min \in 0 .. len,
         Enqueue(o, o, kind, s, f, len, min), K!Ask(o, [len |-> len, min |-> min]),
         len = 0 => min = 0, kind \notin {"send", "recv"} => len = 0,
         kind # "connect"
  PROVE  CInv'
<1>1. Types
  BY DEF CInv
<1>2. /\ phase[o] = "new" /\ phase' = [phase EXCEPT ![o] = "queued"]
      /\ asked[o] = K!Unasked /\ asked' = [asked EXCEPT ![o] = [len |-> len, min |-> min]]
      /\ answer' = answer
  BY DEF Enqueue, T!Submit, T!Move, K!Ask
<1>3. /\ iot'[o].kind = kind /\ iot'[o].sok = s /\ iot'[o].obj = o
      /\ iot'[o].count = len /\ iot'[o].left = len /\ iot'[o].min = min
  BY <1>1 DEF Types, IotTypes, Enqueue, NoIot
<1>4. \A q \in Ops \ {o} : iot'[q] = iot[q] /\ phase'[q] = phase[q] /\ asked'[q] = asked[q]
  BY <1>1, <1>2 DEF Types, IotTypes, TaskTypes, CallTypes, Enqueue
<1>5. /\ asked'[o] = [len |-> len, min |-> min] /\ answer'[o] = K!Nothing
      /\ asked'[o] # K!Unasked /\ phase'[o] = "queued"
  BY <1>1, <1>2 DEF Types, TaskTypes, CallTypes, CInv, NotAsked, K!Unasked
<1>6. Serves(o)'
  BY <1>3, <1>5, TcpAioAssumption DEF Serves, Transfers, Opens, Kinds
<1>7. ASSUME NEW q \in Ops \ {o}, Flying(q)' PROVE Flying(q) /\ iot[q].obj # o /\ Serves(q)'
  <2>1. Flying(q) /\ Serves(q)
    BY <1>4, <1>7 DEF Flying, CInv, ServesAll
  <2>2. iot[q].obj # o
    BY <1>2, <2>1 DEF Serves
  <2>3. Serves(q)'
    BY <1>2, <1>4, <2>1, <2>2 DEF Serves, Transfers, Opens
  <2> QED BY <2>1, <2>2, <2>3
<1>8. ServesAll'
  BY <1>6, <1>7 DEF ServesAll
<1>9. ServesOne'
  BY <1>3, <1>4, <1>7 DEF CInv, ServesOne
<1>10. NotAsked'
  BY <1>2, <1>4, <1>5 DEF CInv, NotAsked
<1> QED BY <1>8, <1>9, <1>10 DEF CInv

LEMMA AskKeeps ==
  ASSUME CInv, NEW o \in Ops, NEW s \in Socks, Asks(o, s)
  PROVE  CInv'
<1>1. Types' /\ 0 \in 0 .. MAXLEN /\ {"send", "recv", "resolve", "accept"} \subseteq Kinds \ {"none"}
  BY AskTypes, TcpAioAssumption DEF CInv, Kinds
<1>2. ASSUME NEW len \in 0 .. MAXLEN, Tcp_Aio_Send(o, s, len) PROVE CInv'
  <2>1. len \in 0 .. len
    BY TcpAioAssumption
  <2> QED BY <1>1, <1>2, <2>1, EnqueueKeeps DEF Tcp_Aio_Send
<1>3. ASSUME NEW len \in 1 .. MAXLEN, NEW min \in 0 .. len, Tcp_Aio_Recv(o, s, len, min) PROVE CInv'
  <2>1. len \in 0 .. MAXLEN /\ len # 0 /\ Insists(len, min) \in 0 .. len
    BY TcpAioAssumption DEF Insists
  <2> QED BY <1>1, <1>3, <2>1, EnqueueKeeps DEF Tcp_Aio_Recv
<1>4. 0 \in 0 .. 0
  OBVIOUS
<1>5. CASE Tcp_Aio_Accept(o, s)
  BY <1>1, <1>4, <1>5, EnqueueKeeps DEF Tcp_Aio_Accept
<1>6. CASE Tcp_Aio_Connect(o, s)
  BY <1>1, <1>4, <1>6, EnqueueKeeps DEF Tcp_Aio_Connect
<1> QED BY <1>2, <1>3, <1>5, <1>6 DEF Asks

-----------------------------------------------------------------------------
(* Workers                                                                 *)

LEMMA StartKeeps ==
  ASSUME CInv, NEW o \in Ops, Start(o)
  PROVE  CInv'
<1>1. Types /\ Types' /\ Serves(o) /\ Flying(o)
  BY StartTypes DEF CInv, ServesAll, Flying, Start, T!Start, T!Leave, T!Move
<1>2. phase' = [phase EXCEPT ![o] = "running"] /\ UNCHANGED <<iot, cvars>>
  BY DEF Start, T!Start, T!Leave, T!Move
<1>3. phase'[o] = "running" /\ \A q \in Ops \ {o} : phase'[q] = phase[q]
  BY <1>1, <1>2 DEF Types, TaskTypes
<1>4. Serves(o)'
  BY <1>1, <1>2, <1>3 DEF Serves, Transfers, Opens, cvars
<1> QED BY <1>1, <1>2, <1>3, <1>4, StepKeeps

(* A step of the worker of a send or receive that ends it or reads on.     *)
LEMMA TransferKeeps ==
  ASSUME CInv, Types', NEW o \in Ops, phase[o] = "running", iot[o].kind \in {"send", "recv"},
         UNCHANGED cvars,
         \/ \E err \in BOOLEAN :
               /\ Returns(o, err)
               /\ err = TRUE \/ iot[o].count - iot[o].left >= iot[o].min
         \/ \E q \in 0 .. iot[o].left : Moves(o, q)
  PROVE  CInv'
<1>1. Types /\ Flying(o) /\ Serves(o) /\ Transfers(o)
  BY DEF CInv, ServesAll, Flying, Serves
<1>2. /\ iot[o].left \in Nat /\ iot[o].count \in Nat /\ iot[o].min \in Nat
      /\ iot[o].left <= iot[o].count /\ iot[o].min <= iot[o].count
  BY <1>1, TcpAioAssumption DEF Types, IotTypes, Iots, Transfers
<1>3. ASSUME NEW err \in BOOLEAN, Returns(o, err),
             err = TRUE \/ iot[o].count - iot[o].left >= iot[o].min
      PROVE  CInv'
  <2>1. /\ iot' = [iot EXCEPT ![o].err = err]
        /\ phase' = [phase EXCEPT ![o] = "done"]
    BY <1>3 DEF Returns, T!End, T!Move
  <2>2. iot' = [iot EXCEPT ![o] = [iot[o] EXCEPT !.err = err]] /\ iot[o] \in Iots
    BY <1>1, <2>1 DEF Types, IotTypes
  <2>3. /\ \A q \in Ops \ {o} : iot'[q] = iot[q] /\ phase'[q] = phase[q]
        /\ iot'[o] = [iot[o] EXCEPT !.err = err]
    BY <1>1, <2>1, <2>2 DEF Types, IotTypes, TaskTypes
  <2>4. /\ iot'[o].obj = iot[o].obj /\ iot'[o].sok = iot[o].sok /\ iot'[o].kind = iot[o].kind
        /\ iot'[o].count = iot[o].count /\ iot'[o].left = iot[o].left /\ iot'[o].min = iot[o].min
        /\ iot'[o].err = err
    BY <2>2, <2>3 DEF Iots
  <2>5. Serves(o)'
    BY <1>1, <1>3, <2>4 DEF Serves, Transfers, cvars
  <2> QED BY <1>1, <2>3, <2>4, <2>5, StepKeeps
<1>4. ASSUME NEW q \in 0 .. iot[o].left, Moves(o, q)
      PROVE  CInv'
  <2>1. iot' = [iot EXCEPT ![o] = [iot[o] EXCEPT !.left = iot[o].left - q]] /\ iot[o] \in Iots
    BY <1>1, <1>4 DEF Moves, Types, IotTypes
  <2>2. /\ \/ /\ phase' = [phase EXCEPT ![o] = "done"]
              /\ iot[o].count - iot[o].left + q >= iot[o].min \/ iot[o].left = q
           \/ phase' = phase
    BY <1>4 DEF Moves, T!End, T!Move, tvars
  <2>3. /\ \A p \in Ops \ {o} : iot'[p] = iot[p] /\ phase'[p] = phase[p]
        /\ iot'[o] = [iot[o] EXCEPT !.left = iot[o].left - q]
    BY <1>1, <2>1, <2>2 DEF Types, IotTypes, TaskTypes
  <2>4. /\ iot'[o].obj = iot[o].obj /\ iot'[o].sok = iot[o].sok /\ iot'[o].kind = iot[o].kind
        /\ iot'[o].count = iot[o].count /\ iot'[o].left = iot[o].left - q
        /\ iot'[o].min = iot[o].min
    BY <2>1, <2>3 DEF Iots
  <2>5. phase'[o] = "done" => iot'[o].count - iot'[o].left >= iot'[o].min
    BY <1>2, <1>4, <2>2, <2>4
  <2>6. iot'[o].left <= iot'[o].count
    BY <1>2, <2>4
  <2>7. Serves(o)'
    BY <1>1, <2>4, <2>5, <2>6 DEF Serves, Transfers, cvars
  <2> QED BY <1>1, <2>3, <2>4, <2>7, StepKeeps
<1> QED BY <1>3, <1>4

LEMMA SendKeeps ==
  ASSUME CInv, NEW o \in Ops, Wrk_Tcp_Send(o)
  PROVE  CInv'
<1>1. Types' /\ iot[o].left \in Nat /\ phase[o] = "running" /\ iot[o].kind = "send" /\ UNCHANGED cvars
  <2>1. Types'
    BY SendTypes DEF CInv
  <2>2. iot[o].left \in Nat
    BY TcpAioAssumption DEF CInv, Types, IotTypes, Iots
  <2> QED BY <2>1, <2>2 DEF Wrk_Tcp_Send, Working
<1>2. 0 \in 0 .. iot[o].left /\ \A q \in 1 .. iot[o].left : q \in 0 .. iot[o].left
  BY <1>1
<1>3. iot[o].left # 0 \/ iot[o].count - iot[o].left >= iot[o].min
  <2>1. Serves(o)
    BY <1>1 DEF CInv, ServesAll, Flying
  <2> QED BY <1>1, <2>1, TcpAioAssumption DEF Serves, Transfers, CInv, Types, IotTypes, Iots
<1>4. \/ Returns(o, iot[o].left # 0) \/ Returns(o, TRUE)
      \/ Moves(o, 0) \/ \E q \in 1 .. iot[o].left : Moves(o, q)
  BY Zenon DEF Wrk_Tcp_Send
<1>5. CASE Returns(o, iot[o].left # 0)
  <2>1. PICK err \in BOOLEAN : err = (iot[o].left # 0)
    OBVIOUS
  <2>2. Returns(o, err)
    BY <1>5, <2>1, Zenon
  <2>3. err = TRUE \/ iot[o].count - iot[o].left >= iot[o].min
    BY <1>3, <2>1
  <2> QED BY <1>1, <2>2, <2>3, TransferKeeps
<1>6. CASE Returns(o, TRUE)
  BY <1>1, <1>6, TransferKeeps
<1>7. CASE Moves(o, 0) \/ \E q \in 1 .. iot[o].left : Moves(o, q)
  BY <1>1, <1>2, <1>7, TransferKeeps
<1> QED BY <1>4, <1>5, <1>6, <1>7

LEMMA RecvKeeps ==
  ASSUME CInv, NEW o \in Ops, Wrk_Tcp_Recv(o)
  PROVE  CInv'
<1>1. Types' /\ iot[o].left \in Nat /\ phase[o] = "running" /\ iot[o].kind = "recv" /\ UNCHANGED cvars
  <2>1. Types'
    BY RecvTypes DEF CInv
  <2>2. iot[o].left \in Nat
    BY TcpAioAssumption DEF CInv, Types, IotTypes, Iots
  <2> QED BY <2>1, <2>2 DEF Wrk_Tcp_Recv, Working
<1>2. 0 \in 0 .. iot[o].left /\ \A q \in 1 .. iot[o].left : q \in 0 .. iot[o].left
  BY <1>1
<1>3. /\ iot[o].left # 0 \/ iot[o].count - iot[o].left >= iot[o].min
      /\ iot[o].count - iot[o].left < iot[o].min \/ iot[o].count - iot[o].left >= iot[o].min
  <2>1. Serves(o)
    BY <1>1 DEF CInv, ServesAll, Flying
  <2> QED BY <1>1, <2>1, TcpAioAssumption DEF Serves, Transfers, CInv, Types, IotTypes, Iots
<1>4. \/ Returns(o, iot[o].left # 0) \/ Returns(o, TRUE)
      \/ Returns(o, iot[o].count - iot[o].left < iot[o].min)
      \/ Moves(o, 0) \/ \E q \in 1 .. iot[o].left : Moves(o, q)
  BY Zenon DEF Wrk_Tcp_Recv, AtEof
<1>5. CASE Returns(o, iot[o].left # 0)
  <2>1. PICK err \in BOOLEAN : err = (iot[o].left # 0)
    OBVIOUS
  <2>2. Returns(o, err)
    BY <1>5, <2>1, Zenon
  <2>3. err = TRUE \/ iot[o].count - iot[o].left >= iot[o].min
    BY <1>3, <2>1
  <2> QED BY <1>1, <2>2, <2>3, TransferKeeps
<1>6. CASE Returns(o, iot[o].count - iot[o].left < iot[o].min)
  <2>0. (iot[o].count - iot[o].left < iot[o].min) \in BOOLEAN
    OBVIOUS
  <2>1. PICK err \in BOOLEAN : err = (iot[o].count - iot[o].left < iot[o].min)
    BY <2>0, Zenon
  <2>2. Returns(o, err)
    BY <1>6, <2>1, Zenon
  <2>3. err = TRUE \/ iot[o].count - iot[o].left >= iot[o].min
    BY <1>3, <2>1
  <2> QED BY <1>1, <2>2, <2>3, TransferKeeps
<1>7. CASE Returns(o, TRUE)
  BY <1>1, <1>7, TransferKeeps
<1>8. CASE Moves(o, 0) \/ \E q \in 1 .. iot[o].left : Moves(o, q)
  BY <1>1, <1>2, <1>8, TransferKeeps
<1> QED BY <1>4, <1>5, <1>6, <1>7, <1>8

(* The worker of a task that opens a connection.                           *)
LEMMA OpenKeeps ==
  ASSUME CInv, Types', NEW o \in Ops, phase[o] = "running",
         iot[o].kind \in {"resolve", "connect", "accept"}, UNCHANGED cvars, T!End(o),
         NEW r \in Iots, iot' = [iot EXCEPT ![o] = r],
         r.kind = iot[o].kind, r.sok = iot[o].sok, r.obj = iot[o].obj
  PROVE  CInv'
<1>1. Types /\ Flying(o) /\ Serves(o)
  BY DEF CInv, ServesAll, Flying
<1>2. iot'[o] = r /\ \A q \in Ops \ {o} : iot'[q] = iot[q] /\ phase'[q] = phase[q]
  BY <1>1 DEF Types, IotTypes, TaskTypes, T!End, T!Move
<1>3. Serves(o)'
  BY <1>1, <1>2 DEF Serves, Opens, cvars
<1> QED BY <1>1, <1>2, <1>3, StepKeeps

LEMMA ReturnKeeps ==
  ASSUME CInv, Types', NEW o \in Ops, phase[o] = "running",
         iot[o].kind \in {"resolve", "connect"}, UNCHANGED cvars,
         NEW err \in BOOLEAN, Returns(o, err)
  PROVE  CInv'
<1>1. iot[o] \in Iots /\ iot' = [iot EXCEPT ![o] = [iot[o] EXCEPT !.err = err]]
  BY DEF CInv, Types, IotTypes, Returns
<1>2. PICK r \in Iots : r = [iot[o] EXCEPT !.err = err]
  BY <1>1 DEF Iots
<1>3. r.kind = iot[o].kind /\ r.sok = iot[o].sok /\ r.obj = iot[o].obj
  BY <1>1, <1>2 DEF Iots
<1> QED BY <1>1, <1>2, <1>3, OpenKeeps DEF Returns

LEMMA ResolveKeeps ==
  ASSUME CInv, NEW o \in Ops, Wrk_Tcp_Resolve(o)
  PROVE  CInv'
<1>1. Types'
  BY ResolveTypes DEF CInv
<1> QED BY <1>1, ReturnKeeps DEF Wrk_Tcp_Resolve, Working

LEMMA ConnectKeeps ==
  ASSUME CInv, NEW o \in Ops, Wrk_Tcp_Connect(o)
  PROVE  CInv'
<1>1. Types'
  BY ConnectTypes DEF CInv
<1>2. Returns(o, TRUE) \/ Returns(o, FALSE)
  BY DEF Wrk_Tcp_Connect
<1> QED BY <1>1, <1>2, ReturnKeeps DEF Wrk_Tcp_Connect, Working

LEMMA AcceptKeeps ==
  ASSUME CInv, NEW o \in Ops, Wrk_Tcp_Accept(o)
  PROVE  CInv'
<1>1. Types' /\ iot[o] \in Iots /\ 1 \in 0 .. MAXLEN /\ Descriptor \in Fds \cup {INVALID}
  BY AcceptTypes, DescriptorFree, TcpAioAssumption DEF CInv, Types, IotTypes
<1>2. \/ iot' = [iot EXCEPT ![o] = [iot[o] EXCEPT !.skt = Descriptor, !.count = 1]]
      \/ iot' = [iot EXCEPT ![o] = [iot[o] EXCEPT !.skt = INVALID, !.err = TRUE]]
  BY DEF Wrk_Tcp_Accept, CInv, Types, IotTypes
<1>3. PICK r \in Iots :
        /\ iot' = [iot EXCEPT ![o] = r]
        /\ r.kind = iot[o].kind /\ r.sok = iot[o].sok /\ r.obj = iot[o].obj
  <2>1. CASE iot' = [iot EXCEPT ![o] = [iot[o] EXCEPT !.skt = Descriptor, !.count = 1]]
    <3>1. PICK r \in Iots : r = [iot[o] EXCEPT !.skt = Descriptor, !.count = 1]
      BY <1>1 DEF Iots
    <3>2. r.kind = iot[o].kind /\ r.sok = iot[o].sok /\ r.obj = iot[o].obj
      BY <1>1, <3>1 DEF Iots
    <3> QED BY <2>1, <3>1, <3>2
  <2>2. CASE iot' = [iot EXCEPT ![o] = [iot[o] EXCEPT !.skt = INVALID, !.err = TRUE]]
    <3>1. PICK r \in Iots : r = [iot[o] EXCEPT !.skt = INVALID, !.err = TRUE]
      BY <1>1 DEF Iots
    <3>2. r.kind = iot[o].kind /\ r.sok = iot[o].sok /\ r.obj = iot[o].obj
      BY <1>1, <3>1 DEF Iots
    <3> QED BY <2>2, <3>1, <3>2
  <2> QED BY <1>2, <2>1, <2>2
<1> QED BY <1>1, <1>3, OpenKeeps DEF Wrk_Tcp_Accept, Working

-----------------------------------------------------------------------------
(* Callbacks                                                               *)

LEMMA ReportedFlies ==
  ASSUME CInv, NEW o \in Ops, NEW ok \in BOOLEAN, Reported(o, ok)
  PROVE  /\ Flying(o) /\ Serves(o)
         /\ \A q \in Ops \ {o} : phase'[q] = phase[q]
         /\ phase'[o] = IF ok THEN "complete" ELSE "fail"
         /\ ok => phase[o] = "done"
<1>1. /\ Flying(o) /\ (ok => phase[o] = "done")
      /\ phase' = [phase EXCEPT ![o] = IF ok THEN "complete" ELSE "fail"]
  BY DEF Reported, T!Complete, T!Refuse, T!Abort, T!Leave, T!Move, Flying
<1> QED BY <1>1 DEF CInv, ServesAll, Types, TaskTypes

LEMMA Failing ==
  ASSUME NEW r, NEW s \in K!Failures
  PROVE  K!Failed(s) \in K!Answers(r)
  BY DEF K!Answers

(* The callback of a task answers the request it serves, and as asked.     *)
LEMMA CallAnswers ==
  ASSUME CInv, NEW o \in Ops, NEW ok \in BOOLEAN, Calls(o, ok)
  PROVE  /\ Reported(o, ok) /\ iot' = iot
         /\ \E a \in K!Answers(asked[iot[o].obj]) : Tells(iot[o].obj, a)
<1>1. Reported(o, ok) /\ iot' = iot
  BY DEF Calls, Cbk_Tcp_IO, Cbk_Tcp_Resolve, Cbk_Tcp_Connect, Cbk_Tcp_Accept
<1>2. Flying(o) /\ Serves(o) /\ (ok => phase[o] = "done") /\ Types
  BY <1>1, ReportedFlies DEF CInv
<1>3. {"FAIL", "CLOSED", "PERMANENT"} \subseteq K!Failures
  BY DEF K!Failures, K!IOFailures, K!ResolveFailures
<1>4. asked[iot[o].obj] = [len |-> 0, min |-> 0] => K!Completed(0) \in K!Answers(asked[iot[o].obj])
  <2>1. 0 \in 0 .. 0
    OBVIOUS
  <2> QED BY <2>1 DEF K!Answers
<1>5. CASE Cbk_Tcp_IO(o, ok)
  <2>1. iot[o].obj = o /\ Transfers(o)
    BY <1>2, <1>5 DEF Serves, Transfers, Cbk_Tcp_IO
  <2>2. Tells(o, Outcome(o, ok, iot[o].count - iot[o].left))
    BY <1>5 DEF Cbk_Tcp_IO
  <2>3. CASE ok /\ iot[o].err = FALSE
    <3>1. iot[o].count - iot[o].left \in iot[o].min .. iot[o].count
      BY <1>2, <2>1, <2>3, TcpAioAssumption DEF Transfers, Types, IotTypes, Iots
    <3>2. K!Completed(iot[o].count - iot[o].left) \in K!Answers(asked[o])
      BY <2>1, <3>1 DEF Transfers, K!Answers
    <3>3. Outcome(o, ok, iot[o].count - iot[o].left) = K!Completed(iot[o].count - iot[o].left)
      BY <2>3 DEF Outcome
    <3> QED BY <1>1, <2>1, <2>2, <3>2, <3>3
  <2>4. CASE ~ (ok /\ iot[o].err = FALSE)
    <3>1. iot[o].err \in BOOLEAN
      BY <1>2 DEF Types, IotTypes, Iots
    <3>2. Tells(o, K!Failed("CLOSED")) \/ Tells(o, K!Failed("FAIL"))
      BY <2>2, <2>4, <3>1 DEF Outcome
    <3> QED BY <1>1, <1>3, <2>1, <3>2, Failing
  <2> QED BY <2>3, <2>4
<1>6. CASE Cbk_Tcp_Resolve(o, ok)
  <2>1. K!ResolveFailures \subseteq K!Failures
    BY DEF K!Failures
  <2>2. PICK s \in K!Failures : Tells(iot[o].obj, K!Failed(s))
    BY <1>3, <1>6, <2>1 DEF Cbk_Tcp_Resolve
  <2> QED BY <1>1, <2>2, Failing
<1>7. CASE Cbk_Tcp_Connect(o, ok)
  <2>1. asked[iot[o].obj] = [len |-> 0, min |-> 0]
    BY <1>2, <1>7 DEF Serves, Opens, Cbk_Tcp_Connect
  <2>2. Tells(iot[o].obj, K!Failed("FAIL")) \/ Tells(iot[o].obj, K!Completed(0))
    BY <1>7 DEF Cbk_Tcp_Connect
  <2> QED BY <1>1, <1>3, <1>4, <2>1, <2>2, Failing
<1>8. CASE Cbk_Tcp_Accept(o, ok)
  <2>1. asked[iot[o].obj] = [len |-> 0, min |-> 0] /\ iot[o].obj = o
    BY <1>2, <1>8 DEF Serves, Opens, Cbk_Tcp_Accept
  <2>2. Tells(o, K!Failed("FAIL")) \/ Tells(o, K!Failed("CLOSED")) \/ Tells(o, K!Completed(0))
    BY <1>8 DEF Cbk_Tcp_Accept
  <2> QED BY <1>1, <1>3, <1>4, <2>1, <2>2, Failing
<1> QED BY <1>5, <1>6, <1>7, <1>8 DEF Calls

LEMMA CallTypesKept ==
  ASSUME CInv, NEW o \in Ops, NEW ok \in BOOLEAN, Calls(o, ok)
  PROVE  Types'
<1>1. Types /\ Serves(o)
  BY CallAnswers, ReportedFlies DEF CInv
<1>2. CASE Cbk_Tcp_IO(o, ok)
  BY <1>1, <1>2, CbkIOTypes DEF Serves, Transfers, Cbk_Tcp_IO
<1>3. CASE Cbk_Tcp_Connect(o, ok)
  BY <1>1, <1>3, CbkConnectTypes DEF Serves
<1> QED BY <1>1, <1>2, <1>3, CbkResolveTypes, CbkAcceptTypes DEF Calls

LEMMA CallKeeps ==
  ASSUME CInv, NEW o \in Ops, NEW ok \in BOOLEAN, Calls(o, ok)
  PROVE  CInv'
<1>1. PICK a \in K!Answers(asked[iot[o].obj]) : Tells(iot[o].obj, a)
  BY CallAnswers
<1>2. iot' = iot /\ Flying(o) /\ Serves(o)
  BY CallAnswers, ReportedFlies
<1>3. \A q \in Ops : Flying(q)' => q # o /\ Flying(q) /\ phase'[q] = phase[q]
  BY CallAnswers, ReportedFlies DEF Flying
<1>4. ASSUME NEW q \in Ops, Flying(q)' PROVE Serves(q)'
  <2>1. Serves(q) /\ iot[q].obj # iot[o].obj /\ phase'[q] = phase[q]
    BY <1>2, <1>3, <1>4 DEF CInv, ServesAll, ServesOne
  <2>2. answer'[iot[q].obj] = answer[iot[q].obj] /\ asked' = asked
    BY <1>1, <2>1 DEF Tells, Serves, CInv, Types, CallTypes
  <2> QED BY <1>2, <2>1, <2>2 DEF Serves, Transfers, Opens
<1>5. ServesAll'
  BY <1>4 DEF ServesAll
<1>6. ServesOne'
  BY <1>2, <1>3 DEF CInv, ServesOne
<1>7. NotAsked'
  BY <1>1, <1>2 DEF CInv, NotAsked, Tells, Serves, Types, CallTypes
<1> QED BY <1>5, <1>6, <1>7, CallTypesKept DEF CInv

(* The address is known: the request passes to the task that connects.     *)
LEMMA ChainKeeps ==
  ASSUME CInv, NEW o \in Ops, NEW p \in Ops, Tcp_Ip_Connect(o, p)
  PROVE  CInv'
<1>1. Types /\ Flying(o) /\ Serves(o) /\ iot[o].kind = "resolve"
  BY DEF CInv, ServesAll, Flying, Tcp_Ip_Connect
<1>2. Types'
  BY <1>1, ChainTypes DEF Serves
<1>3. /\ p # o /\ phase' = [phase EXCEPT ![o] = "complete", ![p] = "queued"] /\ UNCHANGED cvars
  BY DEF Tcp_Ip_Connect
<1>4. /\ iot'[p].kind = "connect" /\ iot'[p].sok = iot[o].sok /\ iot'[p].obj = iot[o].obj
      /\ \A q \in Ops \ {p} : iot'[q] = iot[q]
  BY <1>1 DEF Types, IotTypes, Tcp_Ip_Connect, NoIot
<1>5. /\ phase'[o] = "complete" /\ phase'[p] = "queued"
      /\ \A q \in Ops \ {o, p} : phase'[q] = phase[q]
  BY <1>1, <1>3 DEF Types, TaskTypes
<1>6. Serves(p)'
  BY <1>1, <1>3, <1>4 DEF Serves, Opens, Transfers, cvars
<1>7. ASSUME NEW q \in Ops \ {p}, Flying(q)'
      PROVE  Serves(q)' /\ iot'[q].obj # iot'[p].obj /\ Flying(q) /\ iot'[q] = iot[q]
  <2>1. q # o /\ Flying(q) /\ iot'[q] = iot[q] /\ phase'[q] = phase[q]
    BY <1>4, <1>5, <1>7 DEF Flying
  <2>2. Serves(q) /\ iot[q].obj # iot[o].obj
    BY <1>1, <2>1 DEF CInv, ServesAll, ServesOne
  <2>3. Serves(q)'
    BY <1>3, <2>1, <2>2 DEF Serves, Opens, Transfers, cvars
  <2> QED BY <1>4, <2>1, <2>2, <2>3
<1>8. ServesAll'
  BY <1>6, <1>7 DEF ServesAll
<1>9. ServesOne'
  BY <1>4, <1>7 DEF CInv, ServesOne
<1>10. NotAsked'
  BY <1>3 DEF CInv, NotAsked, cvars
<1> QED BY <1>2, <1>8, <1>9, <1>10 DEF CInv

-----------------------------------------------------------------------------
(* The theorems                                                            *)

(* Sockets and peers leave the requests alone.                             *)
LEMMA OthersKeep ==
  ASSUME CInv, UNCHANGED <<tvars, iot, cvars>>, Types'
  PROVE  CInv'
  BY DEF CInv, ServesAll, ServesOne, NotAsked, Serves, Transfers, Opens, Flying, tvars, cvars

LEMMA StutterKeeps == CInv /\ UNCHANGED vars => CInv'
  BY DEF CInv, ServesAll, ServesOne, NotAsked, Serves, Transfers, Opens, Flying, Types, TaskTypes,
         FdTypes, NetTypes, IotTypes, HistoryTypes, CallTypes, vars, tvars, ovars, nvars, cvars, hvars

LEMMA WorksKeep == ASSUME CInv, NEW o \in Ops, Works(o) PROVE CInv'
  BY StartKeeps, SendKeeps, RecvKeeps, ResolveKeeps, ConnectKeeps, AcceptKeeps DEF Works

LEMMA NextCInv == CInv /\ [Next]_vars => CInv'
<1> SUFFICES ASSUME CInv, [Next]_vars PROVE CInv'
  OBVIOUS
<1>1. ASSUME NEW o \in Ops, Works(o) PROVE CInv'
  BY <1>1, WorksKeep
<1>2. ASSUME NEW o \in Ops, Chains(o) PROVE CInv'
  BY <1>2, ChainKeeps DEF Chains
<1>3. ASSUME NEW o \in Ops, NEW ok \in BOOLEAN, Calls(o, ok) PROVE CInv'
  BY <1>3, CallKeeps
<1>4. ASSUME NEW o \in Ops, NEW s \in Socks, Asks(o, s) PROVE CInv'
  BY <1>4, AskKeeps
<1>5. ASSUME NEW s \in Socks, Tcp_Listen(s) PROVE CInv'
  BY <1>5, ListenTypes, OthersKeep DEF Tcp_Listen, CInv
<1>6. ASSUME NEW s \in Socks, Close(s) PROVE CInv'
  BY <1>6, CloseOfTypes, OthersKeep DEF Close, CInv
<1>7. ASSUME NEW c \in Conns, Peers(c) PROVE CInv'
  BY <1>7, PeerTypes, OthersKeep DEF Peers, PeerCalls, PeerSends, PeerLeaves, Quiet, CInv
<1> QED BY <1>1, <1>2, <1>3, <1>4, <1>5, <1>6, <1>7, StutterKeeps DEF Next

LEMMA AsksAreOrders ==
  ASSUME NEW o \in Ops, NEW s \in Socks, Asks(o, s)
  PROVE  \E r \in K!Orders : K!Ask(o, r)
<1>1. ASSUME NEW len \in 0 .. MAXLEN, NEW min \in 0 .. len
      PROVE  [len |-> len, min |-> min] \in K!Orders
  BY <1>1, TcpAioAssumption DEF K!Orders
<1>2. ASSUME NEW len \in 0 .. MAXLEN, Tcp_Aio_Send(o, s, len)
      PROVE  \E r \in K!Orders : K!Ask(o, r)
  <2>1. len \in 0 .. len
    BY TcpAioAssumption
  <2> QED BY <1>1, <1>2, <2>1 DEF Tcp_Aio_Send
<1>3. ASSUME NEW len \in 1 .. MAXLEN, NEW min \in 0 .. len, Tcp_Aio_Recv(o, s, len, min)
      PROVE  \E r \in K!Orders : K!Ask(o, r)
  <2>1. len \in 0 .. MAXLEN /\ Insists(len, min) \in 0 .. len
    BY TcpAioAssumption DEF Insists
  <2> QED BY <1>1, <1>3, <2>1 DEF Tcp_Aio_Recv
<1>4. CASE Tcp_Aio_Accept(o, s) \/ Tcp_Aio_Connect(o, s)
  <2>1. 0 \in 0 .. MAXLEN /\ 0 \in 0 .. 0
    BY TcpAioAssumption
  <2> QED BY <1>1, <1>4, <2>1 DEF Tcp_Aio_Accept, Tcp_Aio_Connect
<1> QED BY <1>2, <1>3, <1>4 DEF Asks

LEMMA ContractStep == CInv /\ [Next]_vars => [K!Next]_(K!avars)
<1> SUFFICES ASSUME CInv, [Next]_vars PROVE [K!Next]_(K!avars)
  OBVIOUS
<1>1. ASSUME NEW o \in Ops, NEW s \in Socks, Asks(o, s) PROVE K!Next
  BY <1>1, AsksAreOrders DEF K!Next
<1>2. ASSUME NEW o \in Ops, NEW ok \in BOOLEAN, Calls(o, ok) PROVE K!Next
  <2>1. iot[o].obj \in Ops /\ asked[iot[o].obj] # K!Unasked /\ answer[iot[o].obj] = K!Nothing
    BY <1>2, CallAnswers, ReportedFlies DEF Serves
  <2>2. PICK a \in K!Answers(asked[iot[o].obj]) : Tells(iot[o].obj, a)
    BY <1>2, CallAnswers
  <2>3. K!Answer(iot[o].obj)
    BY <2>1, <2>2 DEF K!Answer, Tells
  <2> QED BY <2>1, <2>3 DEF K!Next
<1>3. CASE UNCHANGED cvars
  BY <1>3 DEF cvars, K!avars
<1>4. ASSUME NEW o \in Ops, Works(o) \/ Chains(o) PROVE UNCHANGED cvars
  BY <1>4 DEF Works, Start, Wrk_Tcp_Send, Wrk_Tcp_Recv, Wrk_Tcp_Resolve, Wrk_Tcp_Connect,
              Wrk_Tcp_Accept, Chains, Tcp_Ip_Connect
<1>5. ASSUME NEW s \in Socks, Tcp_Listen(s) \/ Close(s) PROVE UNCHANGED cvars
  BY <1>5 DEF Tcp_Listen, Close
<1>6. ASSUME NEW c \in Conns, Peers(c) PROVE UNCHANGED cvars
  BY <1>6 DEF Peers, PeerCalls, PeerSends, PeerLeaves, Quiet
<1>7. UNCHANGED vars => UNCHANGED cvars
  BY DEF vars, cvars
<1> QED BY <1>1, <1>2, <1>3, <1>4, <1>5, <1>6, <1>7 DEF Next

(* Every request to tcpip.hc is answered at most once, only after it was   *)
(* made, and with a count that its sizes allow, however many tasks,        *)
(* sockets and peers there are: Cbk_Tcp_* against Wrk_Tcp_*.               *)
THEOREM TcpAioContract == Spec => ImplementsContract
<1>1. Init => K!Init
  BY DEF Init
<1> QED BY <1>1, InitCInv, NextCInv, ContractStep, PTL DEF Spec, ImplementsContract, K!Spec

LEMMA LossTypesStep == (Init => LossTypes) /\ (LossTypes /\ [Next]_vars => LossTypes')
<1>1. Init => LossTypes
  BY DEF Init, LossTypes
<1> SUFFICES ASSUME LossTypes, [Next]_vars PROVE LossTypes'
  BY <1>1
<1>2. ASSUME NEW o \in Ops, NEW s \in Socks, Asks(o, s) PROVE LossTypes'
  <2>1. /\ lost' = lost
        /\ \E u, kind, f, len, min : Enqueue(o, u, kind, s, f, len, min)
    BY <1>2 DEF Asks, Tcp_Aio_Send, Tcp_Aio_Recv, Tcp_Aio_Accept, Tcp_Aio_Connect
  <2>2. late' \subseteq late \cup {o}
    BY <2>1 DEF Enqueue
  <2> QED BY <2>1, <2>2 DEF LossTypes
<1>3. ASSUME NEW s \in Socks, Tcp_Listen(s) PROVE LossTypes'
  <2>1. late' = late /\ lost' \subseteq lost \cup {s}
    BY <1>3 DEF Tcp_Listen
  <2> QED BY <2>1 DEF LossTypes
<1>4. CASE UNCHANGED lvars
  BY <1>4 DEF lvars, LossTypes
<1>5. ASSUME NEW o \in Ops, Works(o) \/ Chains(o) PROVE UNCHANGED lvars
  BY <1>5 DEF Works, Start, Wrk_Tcp_Send, Wrk_Tcp_Recv, Wrk_Tcp_Resolve, Wrk_Tcp_Connect,
              Wrk_Tcp_Accept, Chains, Tcp_Ip_Connect
<1>6. ASSUME NEW o \in Ops, NEW ok \in BOOLEAN, Calls(o, ok) PROVE UNCHANGED lvars
  BY <1>6 DEF Calls, Cbk_Tcp_IO, Cbk_Tcp_Resolve, Cbk_Tcp_Connect, Cbk_Tcp_Accept
<1>7. ASSUME NEW s \in Socks, Close(s) PROVE UNCHANGED lvars
  BY <1>7 DEF Close
<1>8. ASSUME NEW c \in Conns, Peers(c) PROVE UNCHANGED lvars
  BY <1>8 DEF Peers, PeerCalls, PeerSends, PeerLeaves, Quiet
<1>9. UNCHANGED vars => UNCHANGED lvars
  BY DEF vars, lvars
<1> QED BY <1>2, <1>3, <1>4, <1>5, <1>6, <1>7, <1>8, <1>9 DEF Next

(* The types of TcpAio hold for all values of its constants: a count, what *)
(* is left of a request and the bytes of a peer not yet read stay in range *)
(* whatever Wrk_Tcp_Send and Wrk_Tcp_Recv take from them.                  *)
THEOREM TcpAioTypes == Spec => []TypeOK
<1>1. CInv /\ LossTypes => TypeOK
  BY TypesGiveTypeOK DEF CInv
<1> QED BY <1>1, InitCInv, NextCInv, LossTypesStep, PTL DEF Spec

-----------------------------------------------------------------------------
(* Descriptors: who holds them                                             *)

Carries(o) == Carried(o) /\ phase[o] \in {"done", "fail"}

SocketsHold ==
  \A s \in Socks : skt[s] # INVALID =>
    fd[skt[s]] # NoConn /\ \A r \in Socks : skt[r] = skt[s] => r = s
CarriersHold ==
  \A o \in Ops : Carries(o) =>
    /\ iot[o].skt \in Fds /\ fd[iot[o].skt] # NoConn
    /\ \A s \in Socks : skt[s] # iot[o].skt
    /\ \A p \in Ops : Carries(p) /\ iot[p].skt = iot[o].skt => p = o
NoneLost ==
  \A f \in Fds : fd[f] # NoConn =>
    (\E s \in Socks : skt[s] = f) \/ (\E o \in Ops : Carries(o) /\ iot[o].skt = f)

HInv == SocketsHold /\ CarriersHold /\ NoneLost

(* The accepts that carry a descriptor are the same before and after.      *)
CarriersStay ==
  \A o \in Ops : (Carries(o)' <=> Carries(o)) /\ (Carries(o) => iot'[o].skt = iot[o].skt)

LEMMA HoldersFrame ==
  ASSUME HInv, CarriersStay, UNCHANGED ovars
  PROVE  HInv'
  BY DEF HInv, SocketsHold, CarriersHold, NoneLost, CarriersStay, ovars

(* A socket gives its descriptor back.                                     *)
LEMMA HoldersClose ==
  ASSUME HInv, CarriersStay, FdTypes, NEW s \in Socks,
         skt' = [skt EXCEPT ![s] = INVALID], fd' = Gets(skt[s], NoConn)
  PROVE  HInv'
<1>1. /\ skt'[s] = INVALID /\ \A r \in Socks \ {s} : skt'[r] = skt[r]
      /\ \A f \in Fds : f # skt[s] => fd'[f] = fd[f]
      /\ skt[s] # INVALID => fd'[skt[s]] = NoConn
      /\ \A r \in Socks : skt[r] # INVALID => skt[r] \in Fds
  BY DEF FdTypes, Gets
<1>2. SocketsHold'
  BY <1>1 DEF HInv, SocketsHold
<1>3. CarriersHold'
  <2>1. INVALID \notin Fds
    BY TcpAioAssumption DEF INVALID, Fds
  <2> QED BY <1>1, <2>1 DEF HInv, CarriersHold, CarriersStay
<1>4. NoneLost'
  <2>1. INVALID \notin Fds
    BY TcpAioAssumption DEF INVALID, Fds
  <2> QED BY <1>1, <2>1 DEF HInv, NoneLost, CarriersStay
<1> QED BY <1>2, <1>3, <1>4 DEF HInv

(* A socket without a descriptor gets a new one, or none.                  *)
LEMMA HoldersOpen ==
  ASSUME HInv, CarriersStay, FdTypes, NEW s \in Socks, skt[s] = INVALID,
         NEW d, d = INVALID \/ (d \in Fds /\ fd[d] = NoConn), NEW e, e # NoConn,
         skt' = [skt EXCEPT ![s] = d], fd' = Gets(d, e)
  PROVE  HInv'
<1>0. INVALID \notin Fds
  BY TcpAioAssumption DEF INVALID, Fds
<1>1. /\ skt'[s] = d /\ \A r \in Socks \ {s} : skt'[r] = skt[r]
      /\ \A f \in Fds : f # d => fd'[f] = fd[f]
      /\ d # INVALID => fd'[d] = e
      /\ \A r \in Socks : skt[r] # INVALID => skt[r] \in Fds
  BY DEF FdTypes, Gets
<1>2. SocketsHold'
  BY <1>0, <1>1 DEF HInv, SocketsHold
<1>3. CarriersHold'
  BY <1>0, <1>1 DEF HInv, CarriersHold, CarriersStay
<1>4. NoneLost'
  BY <1>0, <1>1 DEF HInv, NoneLost, CarriersStay
<1> QED BY <1>2, <1>3, <1>4 DEF HInv

(* A descriptor in use gets a connection.                                  *)
LEMMA HoldersConnect ==
  ASSUME HInv, CarriersStay, FdTypes, skt' = skt,
         NEW f \in Fds, fd[f] # NoConn, NEW c, c # NoConn, fd' = [fd EXCEPT ![f] = c]
  PROVE  HInv'
<1>1. \A g \in Fds : fd'[g] # NoConn <=> fd[g] # NoConn
  BY DEF FdTypes
<1>2. \A s \in Socks : skt[s] # INVALID => skt[s] \in Fds
  BY DEF FdTypes
<1> QED BY <1>1, <1>2 DEF HInv, SocketsHold, CarriersHold, NoneLost, CarriersStay

(* An accept gets a new descriptor ...                                     *)
LEMMA HoldersTake ==
  ASSUME HInv, FdTypes, skt' = skt, NEW o \in Ops, ~ Carries(o), Carries(o)',
         \A p \in Ops \ {o} : (Carries(p)' <=> Carries(p)) /\ iot'[p].skt = iot[p].skt,
         NEW d \in Fds, fd[d] = NoConn, iot'[o].skt = d,
         NEW c, c # NoConn, fd' = [fd EXCEPT ![d] = c]
  PROVE  HInv'
<1>1. fd'[d] = c /\ \A f \in Fds \ {d} : fd'[f] = fd[f]
  BY DEF FdTypes
<1>2. \A s \in Socks : skt[s] # INVALID => skt[s] \in Fds /\ skt[s] # d
  BY DEF FdTypes, HInv, SocketsHold
<1>3. INVALID \notin Fds
  BY TcpAioAssumption DEF INVALID, Fds
<1>4. SocketsHold'
  BY <1>1, <1>2 DEF HInv, SocketsHold
<1>5. CarriersHold'
  <2>1. ASSUME NEW p \in Ops \ {o}, Carries(p)
        PROVE  /\ iot[p].skt \in Fds /\ iot[p].skt # d /\ fd[iot[p].skt] # NoConn
               /\ \A s \in Socks : skt[s] # iot[p].skt
    BY <2>1 DEF HInv, CarriersHold
  <2>2. \A s \in Socks : skt[s] # d
    BY <1>2, <1>3
  <2> QED BY <1>1, <2>1, <2>2 DEF HInv, CarriersHold
<1>6. NoneLost'
  BY <1>1 DEF HInv, NoneLost
<1> QED BY <1>4, <1>5, <1>6 DEF HInv

(* ... and passes it to a new socket.                                      *)
LEMMA HoldersGive ==
  ASSUME HInv, FdTypes, fd' = fd, iot' = iot, NEW o \in Ops, Carries(o), ~ Carries(o)',
         \A p \in Ops \ {o} : Carries(p)' <=> Carries(p),
         NEW s \in Socks, skt[s] = INVALID, skt' = [skt EXCEPT ![s] = iot[o].skt]
  PROVE  HInv'
<1>1. skt'[s] = iot[o].skt /\ \A r \in Socks \ {s} : skt'[r] = skt[r]
  BY DEF FdTypes
<1>2. /\ iot[o].skt \in Fds /\ fd[iot[o].skt] # NoConn
      /\ \A r \in Socks : skt[r] # iot[o].skt
      /\ \A p \in Ops : Carries(p) /\ iot[p].skt = iot[o].skt => p = o
  BY DEF HInv, CarriersHold
<1>3. INVALID \notin Fds
  BY TcpAioAssumption DEF INVALID, Fds
<1>4. SocketsHold'
  BY <1>1, <1>2 DEF HInv, SocketsHold
<1>5. CarriersHold'
  BY <1>1, <1>2 DEF HInv, CarriersHold
<1>6. NoneLost'
  BY <1>1, <1>2, <1>3 DEF HInv, NoneLost
<1> QED BY <1>4, <1>5, <1>6 DEF HInv

(* What the counts say of the holders: all of them, those that nobody can  *)
(* ask for it included ...                                                 *)
Keepers(f) ==
  {s \in Socks : skt[s] = f} \cup {o \in Ops : Carries(o) /\ iot[o].skt = f}

LEMMA KeptOnce ==
  ASSUME HInv, NEW f \in Fds
  PROVE  /\ fd[f] = NoConn => Keepers(f) = {}
         /\ fd[f] # NoConn => \E x : Keepers(f) = {x}
<1>0. f # INVALID
  BY TcpAioAssumption DEF INVALID, Fds
<1>1. \A x : x \in Keepers(f) <=> (x \in Socks /\ skt[x] = f) \/ (x \in Ops /\ Carries(x) /\ iot[x].skt = f)
  BY DEF Keepers
<1>2. CASE fd[f] = NoConn
  BY <1>0, <1>1, <1>2 DEF HInv, SocketsHold, CarriersHold
<1>3. CASE fd[f] # NoConn
  <2>1. PICK x \in Keepers(f) : TRUE
    BY <1>1, <1>3 DEF HInv, NoneLost
  <2>2. \A y \in Keepers(f) : y = x
    BY <1>0, <1>1, <2>1 DEF HInv, SocketsHold, CarriersHold
  <2>3. Keepers(f) = {x}
    BY <2>1, <2>2
  <2> QED BY <1>3, <2>3
<1> QED BY <1>2, <1>3

(* ... and those that can still use it.                                    *)
LEMMA HeldOnce ==
  ASSUME HInv, LossTypes, NEW f \in Fds
  PROVE  /\ Leaked(f) => fd[f] # NoConn
         /\ Cardinality(Holders(f)) = IF fd[f] = NoConn \/ Leaked(f) THEN 0 ELSE 1
<1>0. f # INVALID
  BY TcpAioAssumption DEF INVALID, Fds
<1>1. Leaked(f) => fd[f] # NoConn /\ Holders(f) = {}
  <2>1. ASSUME NEW s \in lost, skt[s] = f PROVE fd[f] # NoConn /\ Holders(f) = {}
    <3>1. s \in Socks /\ fd[f] # NoConn /\ \A r \in Socks : skt[r] = f => r = s
      BY <1>0, <2>1 DEF LossTypes, HInv, SocketsHold
    <3>2. \A o \in Ops : Carries(o) => iot[o].skt # f
      BY <2>1, <3>1 DEF HInv, CarriersHold
    <3> QED BY <3>1, <3>2 DEF Holders, Carries
  <2>2. ASSUME NEW o \in Ops, Carried(o), iot[o].skt = f, phase[o] = "fail"
        PROVE  fd[f] # NoConn /\ Holders(f) = {}
    <3>1. /\ fd[f] # NoConn /\ \A s \in Socks : skt[s] # f
          /\ \A p \in Ops : Carries(p) /\ iot[p].skt = f => p = o
      BY <2>2 DEF HInv, CarriersHold, Carries
    <3> QED BY <2>2, <3>1 DEF Holders, Carries
  <2> QED BY <2>1, <2>2 DEF Leaked
<1>2. CASE fd[f] = NoConn
  <2>1. Holders(f) = {}
    BY <1>2, KeptOnce DEF Keepers, Holders, Carries
  <2> QED BY <1>1, <1>2, <2>1, FS_EmptySet
<1>3. CASE fd[f] # NoConn /\ ~ Leaked(f)
  <2>1. PICK x : Keepers(f) = {x}
    BY <1>3, KeptOnce
  <2>2. Holders(f) = Keepers(f)
    BY <1>3 DEF Leaked, Keepers, Holders, Carries
  <2> QED BY <1>3, <2>1, <2>2, FS_Singleton
<1>4. CASE Leaked(f)
  BY <1>1, <1>4, FS_EmptySet
<1> QED BY <1>2, <1>3, <1>4

-----------------------------------------------------------------------------
(* What a task and its socket know of each other                           *)

(* An accept fails or has a descriptor, never both.                        *)
AcceptsEnd ==
  \A o \in Ops : iot[o].kind = "accept" =>
    /\ phase[o] # "new"
    /\ phase[o] \in {"queued", "running"} => iot[o].err = FALSE /\ iot[o].count = 0
    /\ iot[o].count = 1 => iot[o].err = FALSE
    /\ phase[o] = "done" /\ iot[o].err = FALSE => iot[o].count = 1

(* A socket whose host name is being resolved has no descriptor yet.       *)
Names(o) == Flying(o) /\ iot[o].kind = "resolve"
NamesOpen ==
  \A o \in Ops : Names(o) =>
    /\ skt[iot[o].sok] = INVALID
    /\ \A p \in Ops : Names(p) /\ iot[p].sok = iot[o].sok => p = o

(* A task whose socket was not closed finds there what was there before.   *)
Bound(o) ==
  /\ phase[o] \in {"queued", "running"} /\ iot[o].kind # "resolve"
  /\ o \notin early /\ iot[o].skt # INVALID
BehindInv ==
  \A o \in Ops : Bound(o) => skt[iot[o].sok] = iot[o].skt /\ fd[iot[o].skt] = behind[o]

DInv == CInv /\ HInv /\ AcceptsEnd /\ NamesOpen /\ BehindInv /\ StraysOnlyAfterClose

LEMMA InitDInv == Init => DInv
<1> SUFFICES ASSUME Init PROVE DInv
  OBVIOUS
<1>1. HInv
  BY DEF Init, T!Init, HInv, SocketsHold, CarriersHold, NoneLost, Carries
<1>2. AcceptsEnd /\ NamesOpen /\ BehindInv /\ StraysOnlyAfterClose
  BY DEF Init, T!Init, AcceptsEnd, NamesOpen, Names, Flying, BehindInv, Bound, StraysOnlyAfterClose, NoIot
<1> QED BY <1>1, <1>2, InitCInv DEF DInv

(* The holders do not notice a task that ends without a descriptor.        *)
LEMMA CarriersKept ==
  ASSUME \A q \in Ops : \/ iot'[q] = iot[q] /\ phase'[q] = phase[q]
                        \/ ~ Carries(q) /\ ~ Carries(q)'
                        \/ iot'[q] = iot[q] /\ {phase[q], phase'[q]} \subseteq {"done", "fail"}
  PROVE  CarriersStay
  BY DEF CarriersStay, Carries, Carried

LEMMA AskKeepsD ==
  ASSUME DInv, NEW o \in Ops, NEW s \in Socks, Asks(o, s)
  PROVE  DInv'
<1>1. CInv' /\ Types
  BY AskKeeps DEF DInv, CInv
<1>2. /\ phase[o] = "new" /\ phase'[o] = "queued" /\ UNCHANGED <<ovars, strayed, early>>
      /\ iot'[o].sok = s /\ iot'[o].err = FALSE
      /\ iot'[o].kind = "accept" => iot'[o].count = 0
      /\ iot'[o].kind = "resolve" => skt[s] = INVALID /\ Alone(s, {"accept", "resolve", "connect"})
      /\ iot'[o].kind # "resolve" => iot'[o].skt = skt[s] /\ behind'[o] = Behind(skt[s])
      /\ \A q \in Ops \ {o} : iot'[q] = iot[q] /\ phase'[q] = phase[q] /\ behind'[q] = behind[q]
  <2> DEFINE Shape(kind) ==
        /\ phase[o] = "new" /\ phase'[o] = "queued"
        /\ iot'[o].sok = s /\ iot'[o].err = FALSE /\ iot'[o].kind = kind
        /\ \A q \in Ops \ {o} : iot'[q] = iot[q] /\ phase'[q] = phase[q]
  <2>1. ASSUME NEW kind, NEW f, NEW len, NEW min, Enqueue(o, o, kind, s, f, len, min)
        PROVE  Shape(kind) /\ iot'[o].skt = f /\ iot'[o].count = len
    BY <1>1, <2>1 DEF Enqueue, T!Submit, T!Move, Types, TaskTypes, IotTypes, NoIot
  <2>2. ASSUME NEW f, NotesBehind(o, f)
        PROVE  behind'[o] = Behind(f) /\ \A q \in Ops \ {o} : behind'[q] = behind[q]
    BY <1>1, <2>2 DEF NotesBehind, Types, HistoryTypes
  <2>3. CASE \E len \in 1 .. MAXLEN : Tcp_Aio_Send(o, s, len)
    BY <2>1, <2>2, <2>3 DEF Tcp_Aio_Send
  <2>4. CASE \E len \in 1 .. MAXLEN : \E min \in 0 .. len : Tcp_Aio_Recv(o, s, len, min)
    BY <2>1, <2>2, <2>4 DEF Tcp_Aio_Recv
  <2>5. CASE Tcp_Aio_Accept(o, s)
    <3>1. Enqueue(o, o, "accept", s, skt[s], 0, 0) /\ UNCHANGED <<ovars, strayed, early>>
      BY <2>5 DEF Tcp_Aio_Accept
    <3>2. Shape("accept") /\ iot'[o].count = 0 /\ iot'[o].skt = skt[s]
      BY <2>1, <3>1
    <3>3. behind'[o] = Behind(skt[s]) /\ \A q \in Ops \ {o} : behind'[q] = behind[q]
      BY <2>2, <2>5 DEF Tcp_Aio_Accept
    <3> QED BY <3>1, <3>2, <3>3
  <2>6. CASE Tcp_Aio_Connect(o, s)
    BY <2>1, <2>6 DEF Tcp_Aio_Connect, hvars
  <2>7. \/ \E len \in 1 .. MAXLEN : Tcp_Aio_Send(o, s, len)
        \/ \E len \in 1 .. MAXLEN : \E min \in 0 .. len : Tcp_Aio_Recv(o, s, len, min)
        \/ Tcp_Aio_Accept(o, s) \/ Tcp_Aio_Connect(o, s)
    BY DEF Asks
  <2> QED BY <2>3, <2>4, <2>5, <2>6, <2>7
<1>3. CarriersStay
  BY <1>2, CarriersKept DEF Carries
<1>4. HInv'
  BY <1>2, <1>3, HoldersFrame DEF DInv
<1>5. AcceptsEnd'
  BY <1>2 DEF DInv, AcceptsEnd
<1>6. NamesOpen'
  <2>1. ASSUME NEW q \in Ops \ {o}, Names(q)'
        PROVE  Names(q) /\ skt'[iot'[q].sok] = INVALID /\ (Names(o)' => iot'[q].sok # s)
    BY <1>2, <2>1 DEF DInv, NamesOpen, Names, Flying, Alone, ovars
  <2> QED BY <1>2, <2>1 DEF DInv, NamesOpen, Names, ovars
<1>7. BehindInv'
  <2>1. ASSUME NEW q \in Ops \ {o}, Bound(q)'
        PROVE  skt'[iot'[q].sok] = iot'[q].skt /\ fd'[iot'[q].skt] = behind'[q]
    BY <1>2, <2>1 DEF DInv, BehindInv, Bound, ovars
  <2>2. ASSUME Bound(o)'
        PROVE  skt'[iot'[o].sok] = iot'[o].skt /\ fd'[iot'[o].skt] = behind'[o]
    BY <1>2, <2>2 DEF Bound, Behind, ovars
  <2> QED BY <2>1, <2>2 DEF BehindInv
<1>8. StraysOnlyAfterClose'
  BY <1>2 DEF DInv, StraysOnlyAfterClose
<1> QED BY <1>1, <1>4, <1>5, <1>6, <1>7, <1>8 DEF DInv

(* What every step of a worker leaves alone.                               *)
WorkFrame(o) ==
  /\ phase[o] \in {"queued", "running"} /\ phase'[o] \in {"running", "done"}
  /\ iot'[o].kind = iot[o].kind /\ iot'[o].sok = iot[o].sok
  /\ iot'[o].kind # "accept" \/ phase'[o] # "done" => iot'[o].skt = iot[o].skt
  /\ \A q \in Ops \ {o} : iot'[q] = iot[q] /\ phase'[q] = phase[q]
  /\ UNCHANGED <<skt, early>>
  /\ \/ strayed' = strayed
     \/ Touches(o) /\ iot[o].kind # "resolve" /\ iot[o].skt # INVALID

LEMMA WorkNames ==
  ASSUME DInv, NEW o \in Ops, WorkFrame(o)
  PROVE  NamesOpen'
  BY DEF WorkFrame, DInv, NamesOpen, Names, Flying

(* It strays only if its socket was closed.                                *)
LEMMA WorkStrays ==
  ASSUME DInv, NEW o \in Ops, WorkFrame(o)
  PROVE  StraysOnlyAfterClose'
<1>1. CASE strayed' = strayed
  BY <1>1 DEF WorkFrame, DInv, StraysOnlyAfterClose
<1>2. CASE Touches(o) /\ iot[o].kind # "resolve" /\ iot[o].skt # INVALID
  <2>1. CASE o \in early
    BY <1>2, <2>1 DEF WorkFrame, DInv, StraysOnlyAfterClose, Touches
  <2>2. CASE o \notin early
    <3>1. Bound(o)
      BY <1>2, <2>2 DEF WorkFrame, Bound
    <3>2. Behind(iot[o].skt) = behind[o]
      BY <1>2, <3>1 DEF DInv, BehindInv, Behind
    <3> QED BY <1>2, <3>2 DEF WorkFrame, DInv, StraysOnlyAfterClose, Touches
  <2> QED BY <2>1, <2>2
<1> QED BY <1>1, <1>2 DEF WorkFrame

(* A step that gives no descriptor and makes no connection.                *)
LEMMA PlainWorkKeepsD ==
  ASSUME DInv, CInv', NEW o \in Ops, WorkFrame(o), UNCHANGED <<fd, behind>>,
         iot[o].kind = "accept" => /\ iot'[o].count = iot[o].count
                                   /\ \/ phase'[o] = "running" /\ iot'[o].err = iot[o].err
                                      \/ phase'[o] = "done" /\ iot'[o].err = TRUE
  PROVE  DInv'
<1>1. AcceptsEnd'
  <2>1. ASSUME iot[o].kind = "accept"
        PROVE  /\ phase'[o] # "new" /\ iot'[o].count = 0
               /\ \/ phase'[o] = "running" /\ iot'[o].err = FALSE
                  \/ phase'[o] = "done" /\ iot'[o].err = TRUE
    BY <2>1 DEF WorkFrame, DInv, AcceptsEnd
  <2> QED BY <2>1 DEF WorkFrame, DInv, AcceptsEnd
<1>2. CarriersStay
  BY CarriersKept DEF WorkFrame, Carries, Carried, DInv, AcceptsEnd
<1>3. HInv'
  BY <1>2, HoldersFrame DEF DInv, WorkFrame, ovars
<1>4. BehindInv'
  BY DEF WorkFrame, DInv, BehindInv, Bound
<1> QED BY <1>1, <1>3, <1>4, WorkNames, WorkStrays DEF DInv

LEMMA ReturnsFrame ==
  ASSUME Types, NEW o \in Ops, NEW err \in BOOLEAN, Returns(o, err), phase[o] = "running"
  PROVE  /\ phase'[o] = "done" /\ \A q \in Ops \ {o} : iot'[q] = iot[q] /\ phase'[q] = phase[q]
         /\ iot'[o].kind = iot[o].kind /\ iot'[o].sok = iot[o].sok /\ iot'[o].skt = iot[o].skt
<1>1. iot' = [iot EXCEPT ![o] = [iot[o] EXCEPT !.err = err]] /\ iot[o] \in Iots
  BY DEF Types, IotTypes, Returns
<1> QED BY <1>1 DEF Types, IotTypes, TaskTypes, Iots, Returns, T!End, T!Move

LEMMA MovesFrame ==
  ASSUME Types, NEW o \in Ops, NEW q, Moves(o, q), phase[o] = "running"
  PROVE  /\ phase'[o] \in {"running", "done"}
         /\ \A p \in Ops \ {o} : iot'[p] = iot[p] /\ phase'[p] = phase[p]
         /\ iot'[o].kind = iot[o].kind /\ iot'[o].sok = iot[o].sok /\ iot'[o].skt = iot[o].skt
<1>1. iot' = [iot EXCEPT ![o] = [iot[o] EXCEPT !.left = iot[o].left - q]] /\ iot[o] \in Iots
  BY DEF Types, IotTypes, Moves
<1>2. phase' = [phase EXCEPT ![o] = "done"] \/ phase' = phase
  BY DEF Moves, T!End, T!Move, tvars
<1> QED BY <1>1, <1>2 DEF Types, IotTypes, TaskTypes, Iots

LEMMA TransferKeepsD ==
  ASSUME DInv, NEW o \in Ops, Wrk_Tcp_Send(o) \/ Wrk_Tcp_Recv(o)
  PROVE  DInv'
<1>1. CInv' /\ Types
  BY SendKeeps, RecvKeeps DEF DInv, CInv
<1>2. /\ phase[o] = "running" /\ iot[o].kind \in {"send", "recv"}
      /\ UNCHANGED <<ovars, behind, early>>
      /\ \/ \E err \in BOOLEAN : Returns(o, err)
         \/ \E q \in Nat : Moves(o, q)
  <2>1. (iot[o].left # 0) \in BOOLEAN /\ (iot[o].count - iot[o].left < iot[o].min) \in BOOLEAN
    OBVIOUS
  <2>2. \A q \in 1 .. iot[o].left : q \in Nat
    BY <1>1, TcpAioAssumption DEF Types, IotTypes, Iots
  <2>3. CASE Wrk_Tcp_Send(o)
    <3>1. \/ Returns(o, iot[o].left # 0) \/ Returns(o, TRUE)
          \/ Moves(o, 0) \/ \E q \in 1 .. iot[o].left : Moves(o, q)
      BY <2>3, Zenon DEF Wrk_Tcp_Send
    <3>2. (\E err \in BOOLEAN : Returns(o, err)) \/ \E q \in Nat : Moves(o, q)
      BY <2>1, <2>2, <3>1
    <3> QED BY <2>3, <3>2 DEF Wrk_Tcp_Send, Working
  <2>4. CASE Wrk_Tcp_Recv(o)
    <3>1. \/ Returns(o, iot[o].left # 0) \/ Returns(o, TRUE)
          \/ Returns(o, iot[o].count - iot[o].left < iot[o].min)
          \/ Moves(o, 0) \/ \E q \in 1 .. iot[o].left : Moves(o, q)
      BY <2>4, Zenon DEF Wrk_Tcp_Recv, AtEof
    <3>2. (\E err \in BOOLEAN : Returns(o, err)) \/ \E q \in Nat : Moves(o, q)
      BY <2>1, <2>2, <3>1
    <3> QED BY <2>4, <3>2 DEF Wrk_Tcp_Recv, Working
  <2> QED BY <2>3, <2>4
<1>3. strayed' = strayed \/ (Touches(o) /\ iot[o].skt # INVALID)
  BY TcpAioAssumption DEF Wrk_Tcp_Send, Wrk_Tcp_Recv, Behind
<1>4. WorkFrame(o)
  BY <1>1, <1>2, <1>3, ReturnsFrame, MovesFrame DEF WorkFrame, ovars
<1> QED BY <1>1, <1>2, <1>4, PlainWorkKeepsD DEF ovars

LEMMA StartKeepsD ==
  ASSUME DInv, NEW o \in Ops, Start(o)
  PROVE  DInv'
<1>1. CInv' /\ Types
  BY StartKeeps DEF DInv, CInv
<1>2. phase[o] = "queued" /\ phase'[o] = "running" /\ \A q \in Ops \ {o} : phase'[q] = phase[q]
  BY <1>1 DEF Start, T!Start, T!Leave, T!Move, Types, TaskTypes
<1>3. WorkFrame(o) /\ UNCHANGED <<fd, behind, iot>>
  BY <1>2 DEF Start, WorkFrame, ovars, hvars
<1> QED BY <1>1, <1>2, <1>3, PlainWorkKeepsD

LEMMA ResolveKeepsD ==
  ASSUME DInv, NEW o \in Ops, Wrk_Tcp_Resolve(o)
  PROVE  DInv'
<1>1. CInv' /\ Types
  BY ResolveKeeps DEF DInv, CInv
<1>2. WorkFrame(o)
  BY <1>1, ReturnsFrame DEF Wrk_Tcp_Resolve, Working, WorkFrame, ovars, hvars
<1>3. iot[o].kind # "accept" /\ UNCHANGED <<fd, behind>>
  BY DEF Wrk_Tcp_Resolve, Working, ovars, hvars
<1> QED BY <1>1, <1>2, <1>3, PlainWorkKeepsD

LEMMA ConnectKeepsD ==
  ASSUME DInv, NEW o \in Ops, Wrk_Tcp_Connect(o)
  PROVE  DInv'
<1>1. CInv' /\ Types /\ Types'
  BY ConnectKeeps DEF DInv, CInv
<1>2. /\ phase[o] = "running" /\ iot[o].kind = "connect" /\ UNCHANGED <<skt, early>>
      /\ Returns(o, TRUE) \/ Returns(o, FALSE)
  BY DEF Wrk_Tcp_Connect, Working
<1>3. \/ UNCHANGED <<fd, behind, strayed>>
      \/ /\ Behind(iot[o].skt) \in Unconnected /\ Touches(o)
         /\ \E c \in Conns : Connected(iot[o].skt, c)
  BY DEF Wrk_Tcp_Connect
<1>4. CASE UNCHANGED <<fd, behind, strayed>>
  <2>1. WorkFrame(o)
    BY <1>1, <1>2, <1>4, ReturnsFrame DEF WorkFrame
  <2> QED BY <1>1, <1>2, <1>4, <2>1, PlainWorkKeepsD
<1>5. ASSUME Behind(iot[o].skt) \in Unconnected, Touches(o), NEW c \in Conns, Connected(iot[o].skt, c)
      PROVE  DInv'
  <2> DEFINE f == iot[o].skt
  <2>1. f \in Fds /\ fd[f] # NoConn /\ c # NoConn /\ f # INVALID
    <3>1. NoConn \notin Unconnected /\ c # NoConn
      BY TcpAioAssumption DEF Unconnected, Made, NoConn
    <3>2. f \in Fds \cup {INVALID}
      BY <1>1 DEF Types, IotTypes, Iots
    <3> QED BY <1>5, <3>1, <3>2 DEF Behind
  <2>2. /\ fd' = [fd EXCEPT ![f] = c]
        /\ behind' = [p \in Ops |-> IF iot[p].skt = f /\ behind[p] = fd[f] THEN c ELSE behind[p]]
    BY <1>5, <2>1 DEF Connected, Gets
  <2>3. WorkFrame(o) /\ phase'[o] = "done"
    BY <1>1, <1>2, <1>5, <2>1, ReturnsFrame DEF WorkFrame
  <2>4. AcceptsEnd'
    BY <1>2, <2>3 DEF WorkFrame, DInv, AcceptsEnd
  <2>5. CarriersStay
    BY <1>2, <2>3, CarriersKept DEF WorkFrame, Carries, Carried
  <2>6. HInv'
    BY <1>1, <1>2, <2>1, <2>2, <2>5, HoldersConnect DEF DInv, Types
  <2>7. BehindInv'
    <3>1. ASSUME NEW q \in Ops, Bound(q)'
          PROVE  /\ skt'[iot'[q].sok] = iot'[q].skt /\ iot'[q].skt = iot[q].skt
                 /\ fd[iot[q].skt] = behind[q] /\ iot[q].skt \in Fds
      BY <1>1, <1>2, <2>3, <3>1
      DEF WorkFrame, DInv, BehindInv, Bound, Types, IotTypes, Iots
    <3>2. ASSUME NEW q \in Ops, Bound(q)' PROVE fd'[iot'[q].skt] = behind'[q]
      BY <1>1, <2>1, <2>2, <3>1, <3>2 DEF Types, FdTypes
    <3> QED BY <3>1, <3>2 DEF BehindInv
  <2> QED BY <1>1, <2>3, <2>4, <2>6, <2>7, WorkNames, WorkStrays DEF DInv
<1> QED BY <1>3, <1>4, <1>5

LEMMA AcceptKeepsD ==
  ASSUME DInv, NEW o \in Ops, Wrk_Tcp_Accept(o)
  PROVE  DInv'
<1>1. CInv' /\ Types /\ iot[o] \in Iots
  BY AcceptKeeps DEF DInv, CInv, Types, IotTypes
<1>2. /\ phase[o] = "running" /\ iot[o].kind = "accept" /\ UNCHANGED <<skt, behind, early>>
      /\ iot[o].err = FALSE /\ iot[o].count = 0
  BY DEF Wrk_Tcp_Accept, Working, DInv, AcceptsEnd
<1>3. phase'[o] = "done" /\ \A q \in Ops \ {o} : phase'[q] = phase[q]
  BY <1>1 DEF Wrk_Tcp_Accept, T!End, T!Move, Types, TaskTypes
<1>4. \/ /\ iot' = [iot EXCEPT ![o] = [iot[o] EXCEPT !.skt = INVALID, !.err = TRUE]]
         /\ UNCHANGED <<fd, strayed>>
      \/ /\ Behind(iot[o].skt) \in Listeners /\ Descriptor # INVALID /\ Touches(o)
         /\ \E c \in Conns : fd' = Gets(Descriptor, c)
         /\ iot' = [iot EXCEPT ![o] = [iot[o] EXCEPT !.skt = Descriptor, !.count = 1]]
  BY <1>1 DEF Wrk_Tcp_Accept, Types, IotTypes
<1>5. CASE /\ iot' = [iot EXCEPT ![o] = [iot[o] EXCEPT !.skt = INVALID, !.err = TRUE]]
           /\ UNCHANGED <<fd, strayed>>
  <2>1. /\ iot'[o].kind = "accept" /\ iot'[o].sok = iot[o].sok /\ iot'[o].count = 0
        /\ iot'[o].err = TRUE
        /\ \A q \in Ops \ {o} : iot'[q] = iot[q]
    BY <1>1, <1>2, <1>5 DEF Types, IotTypes, Iots
  <2>2. WorkFrame(o)
    BY <1>2, <1>3, <1>5, <2>1 DEF WorkFrame
  <2> QED BY <1>1, <1>2, <1>3, <1>5, <2>1, <2>2, PlainWorkKeepsD
<1>6. ASSUME Behind(iot[o].skt) \in Listeners, Descriptor # INVALID, Touches(o),
             NEW c \in Conns, fd' = Gets(Descriptor, c),
             iot' = [iot EXCEPT ![o] = [iot[o] EXCEPT !.skt = Descriptor, !.count = 1]]
      PROVE  DInv'
  <2>1. /\ iot[o].skt # INVALID /\ c # NoConn
        /\ Descriptor \in Fds /\ fd[Descriptor] = NoConn
    BY <1>6, DescriptorFree, TcpAioAssumption DEF Behind, Listeners, Listens, NoConn
  <2>2. /\ iot'[o].kind = "accept" /\ iot'[o].sok = iot[o].sok /\ iot'[o].count = 1
        /\ iot'[o].skt = Descriptor /\ iot'[o].err = FALSE
        /\ \A q \in Ops \ {o} : iot'[q] = iot[q]
    BY <1>1, <1>2, <1>6 DEF Types, IotTypes, Iots
  <2>3. WorkFrame(o)
    BY <1>2, <1>3, <1>6, <2>1, <2>2 DEF WorkFrame
  <2>4. AcceptsEnd'
    BY <1>3, <2>2 DEF DInv, AcceptsEnd
  <2>5. fd' = [fd EXCEPT ![Descriptor] = c]
    BY <1>6 DEF Gets
  <2>6. HInv'
    <3>1. ~ Carries(o) /\ Carries(o)' /\ \A p \in Ops \ {o} : Carries(p)' <=> Carries(p)
      BY <1>2, <1>3, <2>2 DEF Carries, Carried
    <3> QED BY <1>1, <1>2, <2>1, <2>2, <2>5, <3>1, HoldersTake DEF DInv, Types
  <2>7. BehindInv'
    <3>1. ASSUME NEW q \in Ops, Bound(q)'
          PROVE  /\ q # o /\ iot'[q] = iot[q] /\ skt[iot[q].sok] = iot[q].skt
                 /\ fd[iot[q].skt] = behind[q] /\ iot[q].skt \in Fds /\ iot[q].sok \in Socks
      BY <1>1, <1>2, <1>3, <2>2, <3>1
      DEF DInv, BehindInv, Bound, Types, IotTypes, Iots, CInv, ServesAll, Serves, Flying
    <3>2. ASSUME NEW q \in Ops, Bound(q)' PROVE fd'[iot'[q].skt] = behind'[q]
      <4>1. fd[iot[q].skt] # NoConn
        BY <3>1, <3>2 DEF Bound, DInv, HInv, SocketsHold
      <4> QED BY <1>1, <1>2, <2>1, <2>5, <3>1, <3>2, <4>1 DEF Types, FdTypes
    <3> QED BY <1>2, <3>1, <3>2 DEF BehindInv
  <2> QED BY <1>1, <2>3, <2>4, <2>6, <2>7, WorkNames, WorkStrays DEF DInv
<1> QED BY <1>4, <1>5, <1>6

LEMMA CloseKeepsBehind ==
  ASSUME DInv, NEW s \in Socks, Tcp_Close(s), iot' = iot, behind' = behind,
         \A q \in Ops : phase'[q] \in {"queued", "running"} => phase[q] = phase'[q]
  PROVE  BehindInv'
<1>1. /\ skt'[s] = INVALID /\ \A r \in Socks \ {s} : skt'[r] = skt[r]
      /\ \A f \in Fds : f # skt[s] => fd'[f] = fd[f]
      /\ \A q \in Ops : Flying(q) /\ iot[q].sok = s /\ iot[q].skt = skt[s] => q \in early'
      /\ early \subseteq early'
  BY DEF Tcp_Close, Gets, DInv, CInv, Types, FdTypes
<1>2. ASSUME NEW q \in Ops, Bound(q)' PROVE skt'[iot[q].sok] = iot[q].skt /\ fd'[iot[q].skt] = behind[q]
  <2>1. Bound(q) /\ q \notin early' /\ Flying(q)
    BY <1>1, <1>2 DEF Bound, Flying
  <2>2. /\ skt[iot[q].sok] = iot[q].skt /\ fd[iot[q].skt] = behind[q]
        /\ iot[q].sok \in Socks /\ iot[q].skt \in Fds
    BY <2>1 DEF DInv, BehindInv, CInv, ServesAll, Serves, Types, IotTypes, Iots, Bound
  <2>3. iot[q].sok # s
    BY <1>1, <2>1, <2>2
  <2>4. iot[q].skt # skt[s]
    BY <2>1, <2>2, <2>3 DEF Bound, DInv, HInv, SocketsHold
  <2> QED BY <1>1, <2>2, <2>3, <2>4
<1> QED BY <1>2 DEF BehindInv

LEMMA CallKeepsD ==
  ASSUME DInv, NEW o \in Ops, NEW ok \in BOOLEAN, Calls(o, ok)
  PROVE  DInv'
<1>1. CInv' /\ Types
  BY CallKeeps DEF DInv, CInv
<1>2. /\ Flying(o) /\ Serves(o) /\ iot' = iot
      /\ \A q \in Ops \ {o} : phase'[q] = phase[q]
      /\ phase'[o] = IF ok THEN "complete" ELSE "fail"
      /\ ok => phase[o] = "done"
  BY CallAnswers, ReportedFlies DEF DInv
<1>3. UNCHANGED <<behind, strayed>> /\ early \subseteq early'
  BY DEF Calls, Cbk_Tcp_IO, Cbk_Tcp_Resolve, Cbk_Tcp_Connect, Cbk_Tcp_Accept, Tcp_Close, hvars
<1>4. AcceptsEnd'
  BY <1>2 DEF DInv, AcceptsEnd
<1>5. StraysOnlyAfterClose'
  BY <1>3 DEF DInv, StraysOnlyAfterClose
<1>6. \A q \in Ops : Names(q)' => Names(q) /\ q # o
  BY <1>2 DEF Names, Flying
<1>7. \A q \in Ops : Bound(q)' => Bound(q) /\ q # o
  BY <1>2, <1>3 DEF Bound
<1>8. CASE UNCHANGED ovars /\ CarriersStay
  <2>1. NamesOpen'
    BY <1>2, <1>6, <1>8 DEF DInv, NamesOpen, ovars
  <2>2. BehindInv'
    BY <1>2, <1>3, <1>7, <1>8 DEF DInv, BehindInv, ovars
  <2> QED BY <1>1, <1>4, <1>5, <1>8, <2>1, <2>2, HoldersFrame DEF DInv
<1>9. ~ Carried(o) => CarriersStay
  BY <1>2, CarriersKept DEF Carries, Carried
<1>10. CASE Cbk_Tcp_IO(o, ok) \/ Cbk_Tcp_Resolve(o, ok)
  BY <1>8, <1>9, <1>10 DEF Cbk_Tcp_IO, Cbk_Tcp_Resolve, Carried
<1>11. CASE Cbk_Tcp_Connect(o, ok)
  <2>1. CarriersStay /\ iot[o].sok \in Socks
    BY <1>2, <1>9, <1>11 DEF Cbk_Tcp_Connect, Carried, Serves
  <2>2. CASE UNCHANGED ovars
    BY <1>8, <2>1, <2>2
  <2>3. CASE Tcp_Close(iot[o].sok)
    <3>1. HInv'
      BY <1>1, <2>1, <2>3, HoldersClose DEF Tcp_Close, DInv, Types
    <3>2. BehindInv'
      BY <1>2, <1>3, <2>1, <2>3, CloseKeepsBehind
    <3>3. NamesOpen'
      BY <1>1, <1>2, <1>6, <2>1, <2>3 DEF DInv, NamesOpen, Tcp_Close, Types, FdTypes
    <3> QED BY <1>1, <1>4, <1>5, <3>1, <3>2, <3>3 DEF DInv
  <2> QED BY <1>11, <2>2, <2>3 DEF Cbk_Tcp_Connect
<1>12. CASE Cbk_Tcp_Accept(o, ok)
  <2>0. iot[o].kind = "accept" /\ fd' = fd /\ iot[o].err \in BOOLEAN
    BY <1>1, <1>12 DEF Cbk_Tcp_Accept, Types, IotTypes, Iots
  <2>1. CASE ~ (ok /\ iot[o].err = FALSE)
    <3>1. UNCHANGED ovars
      BY <1>12, <2>0, <2>1 DEF Cbk_Tcp_Accept, ovars
    <3>2. ~ Carried(o) \/ (~ ok /\ phase[o] = "done")
      BY <1>2, <2>0, <2>1 DEF DInv, AcceptsEnd, Carried, Flying
    <3>3. CarriersStay
      BY <1>2, <1>9, <3>2, CarriersKept DEF Carries, Carried
    <3> QED BY <1>8, <3>1, <3>3
  <2>2. CASE ok /\ iot[o].err = FALSE
    <3>1. PICK s \in Socks : /\ skt[s] = INVALID /\ Alone(s, Kinds)
                             /\ skt' = [skt EXCEPT ![s] = iot[o].skt]
      BY <1>12, <2>2 DEF Cbk_Tcp_Accept
    <3>2. \A r \in Socks \ {s} : skt'[r] = skt[r]
      BY <1>1, <3>1 DEF Types, FdTypes
    <3>3. NamesOpen'
      <4>1. \A q \in Ops : Names(q) => iot[q].sok # s /\ iot[q].sok \in Socks
        BY <3>1 DEF Names, Alone, Kinds, DInv, CInv, ServesAll, Serves
      <4> QED BY <1>2, <1>6, <3>2, <4>1 DEF DInv, NamesOpen
    <3>4. BehindInv'
      <4>1. \A q \in Ops : Bound(q) => iot[q].sok # s /\ iot[q].sok \in Socks
        BY <3>1 DEF Bound, DInv, BehindInv, CInv, ServesAll, Serves, Flying
      <4> QED BY <1>2, <1>3, <1>7, <2>0, <3>2, <4>1 DEF DInv, BehindInv
    <3>5. HInv'
      <4>1. iot[o].count = 1
        BY <1>2, <2>0, <2>2 DEF DInv, AcceptsEnd
      <4>2. Carries(o) /\ ~ Carries(o)' /\ \A p \in Ops \ {o} : Carries(p)' <=> Carries(p)
        BY <1>2, <2>0, <2>2, <4>1 DEF Carries, Carried
      <4> QED BY <1>1, <1>2, <2>0, <3>1, <4>2, HoldersGive DEF DInv, Types
    <3> QED BY <1>1, <1>4, <1>5, <3>3, <3>4, <3>5 DEF DInv
  <2> QED BY <2>1, <2>2
<1> QED BY <1>10, <1>11, <1>12 DEF Calls

LEMMA ChainKeepsD ==
  ASSUME DInv, NEW o \in Ops, NEW p \in Ops, Tcp_Ip_Connect(o, p)
  PROVE  DInv'
<1>1. CInv' /\ Types
  BY ChainKeeps DEF DInv, CInv
<1> DEFINE s == iot[o].sok
<1>2. /\ phase[o] = "done" /\ iot[o].kind = "resolve" /\ phase[p] = "new" /\ p # o
      /\ UNCHANGED <<strayed, early>>
      /\ skt' = [skt EXCEPT ![s] = Descriptor] /\ fd' = Gets(Descriptor, Made(s))
  BY DEF Tcp_Ip_Connect
<1>3. /\ phase'[o] = "complete" /\ phase'[p] = "queued"
      /\ \A q \in Ops \ {o, p} : phase'[q] = phase[q]
  BY <1>1, <1>2 DEF Tcp_Ip_Connect, Types, TaskTypes
<1>4. /\ iot'[p].kind = "connect" /\ iot'[p].sok = s /\ iot'[p].skt = Descriptor
      /\ behind'[p] = Made(s)
      /\ \A q \in Ops \ {p} : iot'[q] = iot[q] /\ behind'[q] = behind[q]
  BY <1>1 DEF Tcp_Ip_Connect, Types, IotTypes, HistoryTypes, NoIot
<1>5. /\ Names(o) /\ s \in Socks /\ skt[s] = INVALID
      /\ \A q \in Ops : Names(q) /\ iot[q].sok = s => q = o
  BY <1>2 DEF DInv, NamesOpen, Names, Flying, CInv, ServesAll, Serves
<1>6. /\ Descriptor = INVALID \/ (Descriptor \in Fds /\ fd[Descriptor] = NoConn)
      /\ Made(s) # NoConn
  BY DescriptorFree DEF Made, NoConn
<1>7. /\ skt'[s] = Descriptor /\ \A r \in Socks \ {s} : skt'[r] = skt[r]
      /\ \A f \in Fds : f # Descriptor => fd'[f] = fd[f]
      /\ Descriptor # INVALID => fd'[Descriptor] = Made(s)
  BY <1>1, <1>2, <1>5, <1>6 DEF Types, FdTypes, Gets
<1>8. HInv'
  <2>1. CarriersStay
    BY <1>2, <1>3, <1>4, CarriersKept DEF Carries, Carried
  <2> QED BY <1>1, <1>2, <1>5, <1>6, <2>1, HoldersOpen DEF DInv, Types
<1>9. AcceptsEnd'
  BY <1>2, <1>3, <1>4 DEF DInv, AcceptsEnd
<1>10. NamesOpen'
  <2>1. \A q \in Ops : Names(q)' => Names(q) /\ q # o /\ q # p /\ iot[q].sok \in Socks \ {s}
    BY <1>3, <1>4, <1>5 DEF Names, Flying, DInv, CInv, ServesAll, Serves
  <2> QED BY <1>4, <1>7, <2>1 DEF DInv, NamesOpen
<1>11. BehindInv'
  <2>1. ASSUME NEW q \in Ops \ {p}, Bound(q)'
        PROVE  skt'[iot'[q].sok] = iot'[q].skt /\ fd'[iot'[q].skt] = behind'[q]
    <3>1. Bound(q) /\ iot'[q] = iot[q] /\ behind'[q] = behind[q]
      BY <1>2, <1>3, <1>4, <2>1 DEF Bound
    <3>2. /\ skt[iot[q].sok] = iot[q].skt /\ fd[iot[q].skt] = behind[q] /\ iot[q].skt # INVALID
          /\ iot[q].sok \in Socks /\ iot[q].skt \in Fds
      BY <1>1, <3>1
      DEF DInv, BehindInv, CInv, ServesAll, Serves, Flying, Types, IotTypes, Iots, Bound
    <3>3. iot[q].sok # s /\ iot[q].skt # Descriptor
      BY <1>5, <1>6, <3>2 DEF DInv, HInv, SocketsHold
    <3> QED BY <1>7, <3>1, <3>2, <3>3
  <2>2. Bound(p)' => skt'[iot'[p].sok] = iot'[p].skt /\ fd'[iot'[p].skt] = behind'[p]
    BY <1>4, <1>7 DEF Bound
  <2> QED BY <2>1, <2>2 DEF BehindInv
<1>12. StraysOnlyAfterClose'
  BY <1>2 DEF DInv, StraysOnlyAfterClose
<1> QED BY <1>1, <1>8, <1>9, <1>10, <1>11, <1>12 DEF DInv

LEMMA ListenKeepsD ==
  ASSUME DInv, NEW s \in Socks, Tcp_Listen(s)
  PROVE  DInv'
<1>1. Types /\ CInv'
  BY ListenTypes, OthersKeep DEF Tcp_Listen, DInv, CInv
<1>2. /\ skt[s] = INVALID /\ Alone(s, Kinds) /\ UNCHANGED <<phase, iot, behind, strayed, early>>
      /\ skt' = [skt EXCEPT ![s] = Descriptor]
  BY DEF Tcp_Listen, tvars, hvars
<1>0. PICK e \in {Listens(s), Made(s)} : fd' = Gets(Descriptor, e)
  BY DEF Tcp_Listen
<1>3. /\ Descriptor \in Fds /\ fd[Descriptor] = NoConn /\ e # NoConn
  BY DescriptorFree DEF Tcp_Listen, Listens, Made, NoConn
<1>4. HInv'
  <2>1. CarriersStay
    BY <1>2, CarriersKept
  <2> QED BY <1>0, <1>1, <1>2, <1>3, <2>1, HoldersOpen DEF DInv, Types
<1>5. \A q \in Ops : Flying(q) => iot[q].sok \in Socks \ {s}
  BY <1>2 DEF Alone, DInv, CInv, ServesAll, Serves, Types, IotTypes, Iots
<1>6. /\ \A r \in Socks \ {s} : skt'[r] = skt[r]
      /\ \A f \in Fds : f # Descriptor => fd'[f] = fd[f]
  BY <1>0, <1>1, <1>2 DEF Types, FdTypes, Gets
<1>7. NamesOpen'
  BY <1>2, <1>5, <1>6 DEF DInv, NamesOpen, Names, Flying
<1>8. BehindInv'
  <2>1. ASSUME NEW q \in Ops, Bound(q)
        PROVE  skt'[iot[q].sok] = iot[q].skt /\ fd'[iot[q].skt] = behind[q]
    <3>1. /\ skt[iot[q].sok] = iot[q].skt /\ fd[iot[q].skt] = behind[q] /\ iot[q].skt # INVALID
          /\ iot[q].sok \in Socks \ {s} /\ iot[q].skt \in Fds
      BY <1>1, <1>5, <2>1 DEF DInv, BehindInv, Flying, Types, IotTypes, Iots, Bound
    <3>2. iot[q].skt # Descriptor
      BY <1>3, <3>1 DEF DInv, HInv, SocketsHold
    <3> QED BY <1>6, <3>1, <3>2
  <2> QED BY <1>2, <2>1 DEF BehindInv, Bound
<1> QED BY <1>1, <1>2, <1>4, <1>7, <1>8 DEF DInv, AcceptsEnd, StraysOnlyAfterClose

LEMMA CloseKeepsD ==
  ASSUME DInv, NEW s \in Socks, Close(s)
  PROVE  DInv'
<1>1. Types /\ CInv'
  BY CloseOfTypes, OthersKeep DEF Close, DInv, CInv
<1>2. Tcp_Close(s) /\ UNCHANGED <<phase, iot, behind, strayed>>
  BY DEF Close, tvars
<1>3. HInv'
  <2>1. CarriersStay
    BY <1>2, CarriersKept
  <2> QED BY <1>1, <1>2, <2>1, HoldersClose DEF DInv, Types, Tcp_Close
<1>4. NamesOpen'
  BY <1>1, <1>2 DEF DInv, NamesOpen, Names, Flying, Tcp_Close, Types, FdTypes
<1>5. BehindInv'
  BY <1>2, CloseKeepsBehind
<1> QED BY <1>1, <1>2, <1>3, <1>4, <1>5 DEF DInv, AcceptsEnd, StraysOnlyAfterClose, Tcp_Close

LEMMA StutterKeepsD ==
  ASSUME DInv, CInv', UNCHANGED <<phase, ovars, iot, hvars>>
  PROVE  DInv'
<1>1. HInv'
  BY HoldersFrame, CarriersKept DEF DInv
<1> QED BY <1>1 DEF DInv, AcceptsEnd, NamesOpen, Names, Flying, BehindInv, Bound, StraysOnlyAfterClose,
                    ovars, hvars

LEMMA NextDInv == DInv /\ [Next]_vars => DInv'
<1> SUFFICES ASSUME DInv, [Next]_vars PROVE DInv'
  OBVIOUS
<1>1. CInv'
  BY NextCInv DEF DInv
<1>2. ASSUME NEW o \in Ops, Works(o) PROVE DInv'
  BY <1>2, StartKeepsD, TransferKeepsD, ResolveKeepsD, ConnectKeepsD, AcceptKeepsD DEF Works
<1>3. ASSUME NEW o \in Ops, Chains(o) PROVE DInv'
  BY <1>3, ChainKeepsD DEF Chains
<1>4. ASSUME NEW o \in Ops, NEW ok \in BOOLEAN, Calls(o, ok) PROVE DInv'
  BY <1>4, CallKeepsD
<1>5. ASSUME NEW o \in Ops, NEW s \in Socks, Asks(o, s) PROVE DInv'
  BY <1>5, AskKeepsD
<1>6. ASSUME NEW s \in Socks, Tcp_Listen(s) \/ Close(s) PROVE DInv'
  BY <1>6, ListenKeepsD, CloseKeepsD
<1>7. ASSUME NEW c \in Conns, Peers(c) PROVE DInv'
  BY <1>1, <1>7, StutterKeepsD DEF Peers, PeerCalls, PeerSends, PeerLeaves, Quiet, tvars
<1>8. CASE UNCHANGED vars
  BY <1>1, <1>8, StutterKeepsD DEF vars, tvars
<1> QED BY <1>2, <1>3, <1>4, <1>5, <1>6, <1>7, <1>8 DEF Next

(* A worker touches another connection than its socket had when the        *)
(* request was made only if that socket was closed meanwhile: the copy of  *)
(* the descriptor in the C_TCP_IOT is safe for a caller that waits.        *)
THEOREM TcpAioStrays == Spec => []StraysOnlyAfterClose
<1>1. DInv => StraysOnlyAfterClose
  BY DEF DInv
<1> QED BY <1>1, InitDInv, NextDInv, PTL DEF Spec

(* No descriptor is held twice, whatever fails, is closed or is torn down: *)
(* one socket holds it, or one accept that has yet to pass it on.  None is *)
(* lost but by a Tcp_Listen that raised or an accept that the queue failed.*)
THEOREM TcpAioDescriptors == Spec => []DescriptorsHeld
<1>1. DInv /\ LossTypes => DescriptorsHeld
  BY TypesGiveTypeOK, HeldOnce DEF DInv, CInv, DescriptorsHeld
<1> QED BY <1>1, InitDInv, NextDInv, LossTypesStep, PTL DEF Spec

=============================================================================
