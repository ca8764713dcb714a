--------------------------------- MODULE Mqtt --------------------------------
(***************************************************************************)
(* MQTT clients (mqtt.lua) and the packets that they retransmit            *)
(* (mqttdup.lua), over sockets, links and a network that may be lost.      *)
(*                                                                         *)
(* As in Link and Socket, what a function does is an operator from the     *)
(* state m of the modules to the next, and a handler is a composition of   *)
(* such operators.  A callback to the program is the last thing a handler  *)
(* does, so that what a program calls from inside it is the next action.   *)
(*                                                                         *)
(* Of socket.lua and link.lua this module keeps what Socket and Link       *)
(* check: what is accepted in which state, the order of the commands and   *)
(* of the events.  Topics, payloads and times are left out; a packet is    *)
(* its kind, with the number of the publish.  To subscribe is to publish   *)
(* with QoS 1, but for the name of the answer.                             *)
(***************************************************************************)
EXTENDS Naturals, Sequences, FiniteSets, SequencesExt

CONSTANTS
    Clients,   \* the clients of the program, by socket index
    ReconnMax, \* RECONN_MAX_CNT: attempts of one cycle
    CycleMax,  \* RECONN_CYCLE_MAX_CNT: cycles until the program is told
    DupCnt,    \* DUP_CNT: retransmissions of one packet
    MaxPubs,   \* bound: publishes
    MaxCalls,  \* bound: connects of the program
    MaxEvents, \* bound: losses, failed sends, disconnects, and what the server
               \* does besides answering
    Cases      \* a subset of {"early", "redo", "lateping", "midsend", "deact"}

ASSUME MqttAssumption ==
    /\ Clients \in {{1}, {1, 2}} \* create makes two at the most
    /\ ReconnMax \in Nat \ {0} /\ CycleMax \in Nat \ {0} /\ DupCnt \in Nat \ {0}
    /\ MaxPubs \in Nat /\ MaxCalls \in Nat /\ MaxEvents \in Nat
    /\ Cases \subseteq {"early",    \* the program disconnects before it is connected
                        "redo",     \* it connects while it disconnects
                        "lateping", \* a ping times out after its connection
                        "midsend",  \* the server closes during a send while
                                    \* discing is set
                        "deact"}    \* the network is lost during a connect

VARIABLES
    m,      \* the state of the modules, a record
    conn,   \* the modem's connections: "free", "opening" or "open"
    gone,   \* the data of the send in execution have reached the server
    srv,    \* the packets the server has and has not answered
    calls, events \* counted for the bounds

vars == <<m, conn, gone, srv, calls, events>>

Packet(k, n) == [kind |-> k, n |-> n]
NoItem  == Packet("none", 0)
CONNECT == Packet("CONNECT", 0)
PINGREQ == Packet("PINGREQ", 0)
DISCONNECT == Packet("DISCONNECT", 0)
PUBACK  == Packet("PUBACK", 0)

(* What a loop over the clients does, F being its body *)
InTurn(F(_, _), t) == IF 2 \in Clients THEN F(F(t, 1), 2) ELSE F(t, 1)

Each(v) == [i \in Clients |-> v]

Start == [
    link    |-> Each("NIL LINK"), \* linklist[id].state
    pending |-> Each(FALSE),      \* linklist[id].pending
    buf     |-> Each(<<>>),       \* sndpending
    cur     |-> Each(NoItem),     \* sndingitem
    conning |-> Each(FALSE),      \* sckconning
    up      |-> Each(FALSE),      \* sckconnected
    session |-> Each(FALSE),      \* mqttconnected
    discing |-> Each(FALSE),
    usertag |-> Each(FALSE),      \* discause is "USER"
    errcb   |-> Each(FALSE),      \* there is a sckerrcb
    cnt     |-> Each(0),          \* sckreconncnt
    cyc     |-> Each(0),          \* sckreconncyclecnt
    treconn |-> Each(FALSE), tping |-> Each(FALSE), tdisc |-> Each(FALSE),
    tlist   |-> <<>>,             \* packets to be retransmitted
    msgs    |-> <<>>,             \* internal messages
    cmds    |-> <<>>,             \* AT commands without an answer
    ip      |-> FALSE,            \* ipstatus is "IP STATUS"
    shuting |-> FALSE,
    restart |-> FALSE,            \* sys.restart has been called
    wants   |-> Each(FALSE),      \* the program asked for a connection and
                                  \* has not been told that there is none
    dropped |-> Each(FALSE),      \* the server closed the connection while
                                  \* discing was set: reconn is passed over
    pubs    |-> <<>> ]            \* the publishes: client and result

Init ==
    /\ m = Start /\ conn = Each("free") /\ gone = FALSE /\ srv = Each({})
    /\ calls = 0 /\ events = 0

----------------------------------------------------------------------------
(* The functions of link.lua and socket.lua that the clients use.  No voice *)
(* call is made, and no upgrade holds back a shut.                         *)

Cmd(v, i) == [verb |-> v, id |-> i, item |-> NoItem]
SendCmd(i, p) == [verb |-> "CIPSEND", id |-> i, item |-> p]
SHUT == Cmd("CIPSHUT", 0)

Req(t, c) == [t EXCEPT !.cmds = Append(@, c)]
Pending(t, c) == c \in ToSet(t.cmds)

(* A send of socket i is without an answer.                                *)
SendUnderWay(t, i) == \E c \in ToSet(t.cmds) : c.verb = "CIPSEND" /\ c.id = i

Shut(t) == [Req(t, SHUT) EXCEPT !.shuting = TRUE]

CanConnect(t, i) == t.link[i] \in {"INITIAL", "CLOSED"}

LinkConnect(t, i) ==
    LET u == [t EXCEPT !.link[i] = "CONNECTING"]
    IN  IF t.ip /\ ~t.shuting THEN Req(u, Cmd("CIPSTART", i))
        ELSE [u EXCEPT !.pending[i] = TRUE]

LinkDisconnect(t, i) ==
    LET u == [t EXCEPT !.link[i] = "DISCONNECTING", !.pending[i] = FALSE]
    IN  CASE t.link[i] \in {"NIL LINK", "DISCONNECTING"} -> t
          [] t.link[i] = "CONNECTING" /\ t.pending[i] /\ ~t.ip ->
                [u EXCEPT !.msgs = Append(@, <<"DISCONNECT", i, NoItem>>)]
          [] OTHER -> Req(u, Cmd("CIPCLOSE", i))

(* connect of socket.lua to the same address *)
SocketConnect(t, i) ==
    LET u == IF t.link[i] = "NIL LINK" THEN [t EXCEPT !.link[i] = "INITIAL"] ELSE t
    IN  IF CanConnect(u, i)
        THEN [LinkConnect(u, i) EXCEPT !.buf[i] = <<>>, !.cur[i] = NoItem,
                                       !.usertag[i] = FALSE]
        ELSE t

(* send of socket.lua: a link that is not connected is connected first *)
Accepts(t, i) == CanConnect(t, i) \/ t.link[i] = "CONNECTED"

Send(t, i, p) ==
    CASE CanConnect(t, i) -> [LinkConnect(t, i) EXCEPT !.buf[i] = Append(@, p)]
      [] t.link[i] = "CONNECTED" /\ t.cur[i] = NoItem ->
            Req([t EXCEPT !.cur[i] = p], SendCmd(i, p))
      [] t.link[i] = "CONNECTED" /\ t.cur[i] # NoItem ->
            [t EXCEPT !.buf[i] = Append(@, p)]
      [] OTHER -> t

Buffered(t, i) == ToSet(t.buf[i]) \union {t.cur[i]}

SndNxt(t, i) ==
    IF t.link[i] = "CONNECTED" /\ t.buf[i] # <<>> /\ t.cur[i] = NoItem
    THEN Req([t EXCEPT !.cur[i] = Head(t.buf[i]), !.buf[i] = Tail(@)],
             SendCmd(i, Head(t.buf[i])))
    ELSE t

Disconnect(t, i, user) == LinkDisconnect([t EXCEPT !.usertag[i] = user], i)

----------------------------------------------------------------------------
(* mqttdup.lua *)

Entry(i, p) == [client |-> i, packet |-> p, due |-> FALSE, cnt |-> DupCnt]

Ins(t, i, p) == [t EXCEPT !.tlist = Append(@, Entry(i, p))]

IsFor(e, i, p) == e.client = i /\ e.packet = p

Rmv(t, i, p) ==
    [t EXCEPT !.tlist = RemoveFirstMatch(@, LAMBDA e : IsFor(e, i, p))]

(* rmvall: the packets of the other clients go as well *)
RmvAll(t) == [t EXCEPT !.tlist = <<>>]

(* rsm: a retransmission has been sent, or refused *)
Rsm(t, i, p) ==
    LET k == SelectInSeq(t.tlist, LAMBDA e : IsFor(e, i, p))
        u == [t EXCEPT !.tlist[k].cnt = @ - 1]
    IN  CASE k = 0 -> t
          [] k # 0 /\ t.tlist[k].cnt = 1 ->
                Rmv([u EXCEPT !.msgs = Append(@, <<"MQTT_DUP_FAIL", i, p>>)], i, p)
          [] k # 0 /\ t.tlist[k].cnt # 1 -> [u EXCEPT !.tlist[k].due = FALSE]

----------------------------------------------------------------------------
(* mqtt.lua *)

(* The program is told the result of publish n, if p is one. *)
Tell(t, p, suc) ==
    IF p.kind \notin {"PUB0", "PUB1"} THEN t
    ELSE [t EXCEPT !.pubs[p.n].told =
            IF @ \in {"ok", "failed"} THEN "again"
            ELSE IF suc THEN "ok" ELSE "failed"]

(* connect: sckconning is set whatever the socket does *)
Connect(t, i) ==
    [SocketConnect(t, i) EXCEPT !.conning[i] = TRUE, !.dropped[i] = FALSE]

(* mqttdiscb *)
DiscCb(t, i, user) == Disconnect([t EXCEPT !.discing[i] = TRUE], i, user)

(* mqttsnd; the tag of a disconnect is kept only if the send is refused *)
SndConnect(t, i) ==
    LET u == Rmv(t, i, CONNECT)
    IN  IF Accepts(u, i) THEN Send(u, i, CONNECT) ELSE Ins(u, i, CONNECT)

SndPingReq(t, i) == Send(t, i, PINGREQ)

SndDisconnect(t, i, user) ==
    IF Accepts(t, i) THEN Send(t, i, DISCONNECT) ELSE DiscCb(t, i, user)

(* The program creates a client when it connects it first. *)
ConnectLinked(t, i) == IF t.link[i] = "NIL LINK" THEN t ELSE Connect(t, i)

(* slip: the next cycle is not begun *)
ReconnOnce(t, i) ==
    CASE t.conning[i] -> t
      [] ~t.conning[i] /\ t.cnt[i] < ReconnMax ->
            InTurn(ConnectLinked, Shut([t EXCEPT !.cnt[i] = @ + 1]))
      [] OTHER -> [t EXCEPT !.cnt[i] = 0, !.cyc[i] = @ + 1]

(* reconn: every client is connected again; after the last cycle the       *)
(* program is told, or the software restarts                               *)
Reconn(t, i) ==
    LET u == [t EXCEPT !.cnt[i] = 0, !.cyc[i] = @ + 1]
    IN  CASE t.conning[i] -> t
          [] ~t.conning[i] /\ t.cnt[i] < ReconnMax ->
                InTurn(ConnectLinked, Shut([t EXCEPT !.cnt[i] = @ + 1]))
          [] ~t.conning[i] /\ t.cnt[i] >= ReconnMax /\ u.cyc[i] < CycleMax ->
                [u EXCEPT !.treconn[i] = TRUE]
          [] ~t.conning[i] /\ t.cnt[i] >= ReconnMax /\ u.cyc[i] >= CycleMax ->
                IF t.errcb[i] THEN [u EXCEPT !.cyc[i] = 0, !.wants[i] = FALSE]
                ELSE [u EXCEPT !.restart = TRUE]

(* ntfy, event SEND, for a packet that was sent *)
Sent(t, i, p) ==
    CASE p.kind = "PUB0" -> Tell(t, p, TRUE)
      [] p.kind = "PUB1" -> Ins(t, i, p)
      [] p.kind = "CONNECT" -> Ins(t, i, CONNECT)
      [] p.kind = "DISCONNECT" -> DiscCb(t, i, FALSE)
      [] p.kind = "DUP" -> Rsm(t, i, IF p.n = 0 THEN CONNECT ELSE Packet("PUB1", p.n))
      [] OTHER -> t

(* ntfy, event SEND, for a packet that was not: whatever it is, the network *)
(* is shut.  So it is for every packet that waits in the buffer when the   *)
(* connection fails.                                                       *)
NotSent(t) == Shut(t)

Flush(t, i) ==
    IF t.buf[i] = <<>> THEN t
    ELSE [t EXCEPT !.cmds = @ \o [k \in DOMAIN t.buf[i] |-> SHUT],
                   !.shuting = TRUE, !.buf[i] = <<>>]

(* ntfy, the connection is gone: the publishes of this connection that are *)
(* not told now never will be                                              *)
Down(t, i) ==
    [RmvAll(t) EXCEPT
        !.tping[i] = FALSE, !.up[i] = FALSE, !.session[i] = FALSE,
        !.pubs = [n \in DOMAIN @ |->
            IF @[n].client = i /\ @[n].told = "no"
            THEN [@[n] EXCEPT !.told = "lost"] ELSE @[n]]]

(* A close is taken for the end of a disconnect if discing is set, as it   *)
(* still is when the last disconnect, for which the program gave no tag,   *)
(* was followed by a new connection: it is not connected again then.       *)
NtfyClosed(t, i) ==
    LET u == Down(t, i)
    IN  IF t.discing[i] THEN [u EXCEPT !.discing[i] = FALSE, !.dropped[i] = TRUE]
        ELSE Reconn(u, i)

NtfyShuted(t, i) == Reconn(Down(t, i), i)

NtfyDisconnect(t, i, user) ==
    LET u == Down(t, i)
    IN  IF user THEN [u EXCEPT !.discing[i] = FALSE] ELSE Reconn(u, i)

NtfyConnectFail(t, i) == [t EXCEPT !.conning[i] = FALSE, !.treconn[i] = TRUE]

NtfyConnect(t, i) ==
    SndConnect([t EXCEPT !.conning[i] = FALSE, !.up[i] = TRUE, !.cnt[i] = 0,
                         !.cyc[i] = 0, !.treconn[i] = FALSE], i)

(* datinactive is started with the first connect and never stopped.        *)
Watched(t, i) == t.link[i] # "NIL LINK"

----------------------------------------------------------------------------
(* The events of link.lua, through sckrsp of socket.lua                    *)

StatusInd(t, i, v) ==
    LET u == [t EXCEPT !.link[i] = "CLOSED"]
    IN  CASE t.link[i] = "NIL LINK" -> t
          [] t.link[i] # "NIL LINK" /\ v = "CONNECT OK" ->
                SndNxt(NtfyConnect([t EXCEPT !.link[i] = "CONNECTED"], i), i)
          [] t.link[i] = "CONNECTING" /\ v # "CONNECT OK" ->
                [NtfyConnectFail(Flush(u, i), i) EXCEPT !.cur[i] = NoItem]
          [] t.link[i] \notin {"NIL LINK", "CONNECTING"} /\ v = "CLOSED" ->
                NtfyClosed(Flush(u, i), i)
          [] t.link[i] \notin {"NIL LINK", "CONNECTING"} /\ v = "ERROR" -> Shut(u)
          [] OTHER -> u

CloseCnf(t, i) ==
    IF t.link[i] = "DISCONNECTING"
    THEN NtfyDisconnect([t EXCEPT !.link[i] = "CLOSED", !.usertag[i] = FALSE],
                        i, t.usertag[i])
    ELSE t

SendCnf(t, i, suc) ==
    LET u == [t EXCEPT !.cur[i] = NoItem]
    IN  IF suc THEN SndNxt(Sent(u, i, t.cur[i]), i) ELSE Flush(NotSent(u), i)

ShutOne(t, i) ==
    IF \/ t.link[i] \in {"NIL LINK", "INITIAL"}
       \/ t.link[i] = "CONNECTING" /\ t.pending[i]
    THEN t ELSE NtfyShuted([t EXCEPT !.link[i] = "CLOSED"], i)

ShutCnf(t) ==
    InTurn(ShutOne, [t EXCEPT !.shuting = FALSE, !.ip = FALSE])

ConnPendOne(t, i) ==
    IF t.pending[i] THEN Req([t EXCEPT !.pending[i] = FALSE], Cmd("CIPSTART", i))
    ELSE t

ConnPend(t) == InTurn(ConnPendOne, [t EXCEPT !.ip = TRUE])

----------------------------------------------------------------------------
(* Data of the server: rcv, before the handler of the packet               *)

Rcv(t, i) == [t EXCEPT !.tping[i] = TRUE]

ConnAck(t, i, suc) ==
    IF suc THEN Rmv([t EXCEPT !.session[i] = TRUE], i, CONNECT) ELSE t

(* slip: the packet is retransmitted although it was acknowledged          *)
PubAckKeeps(t, i, p) ==
    IF \E k \in DOMAIN t.tlist : IsFor(t.tlist[k], i, p) THEN Tell(t, p, TRUE) ELSE t

PubAck(t, i, p) ==
    IF \E k \in DOMAIN t.tlist : IsFor(t.tlist[k], i, p)
    THEN Rmv(Tell(t, p, TRUE), i, p) ELSE t

PingRsp(t, i) == [t EXCEPT !.tdisc[i] = FALSE]

SvrPublish(t, i) == Send(t, i, PUBACK)

----------------------------------------------------------------------------
(* Actions *)

Idle == m.msgs = <<>> /\ ~m.restart

Event == events < MaxEvents /\ events' = events + 1

(* create and connect of the program, with or without a sckerrcb *)
ProgramConnects ==
    /\ ~m.restart /\ calls < MaxCalls /\ calls' = calls + 1
    /\ \E i \in Clients, e \in BOOLEAN :
         /\ m.link[i] # "DISCONNECTING" \/ "redo" \in Cases
         /\ LET t == [m EXCEPT !.errcb[i] = e, !.wants[i] = TRUE]
            IN  m' = CASE m.session[i] -> t
                       [] ~m.session[i] /\ ~m.up[i] -> Connect(t, i)
                       [] ~m.session[i] /\ m.up[i] -> SndConnect(t, i)
         /\ m' # m
    /\ UNCHANGED <<conn, gone, srv, events>>

(* The disconnect of the program; of a client without a session its        *)
(* sckconning may stay.                                                    *)
ProgramDisconnects ==
    /\ ~m.restart /\ Event
    /\ \E i \in Clients :
         /\ m.session[i] \/ (m.link[i] # "NIL LINK" /\ "early" \in Cases)
         /\ m' = SndDisconnect([m EXCEPT !.wants[i] = FALSE], i, TRUE)
    /\ UNCHANGED <<conn, gone, srv, calls>>

(* A publish, or a subscribe: without a session it is refused at once.     *)
Publish ==
    /\ ~m.restart /\ Len(m.pubs) < MaxPubs
    /\ \E i \in Clients, k \in {"PUB0", "PUB1"} :
         LET p == Packet(k, Len(m.pubs) + 1)
             t == [m EXCEPT !.pubs = Append(@, [client |-> i, told |-> "no"])]
         IN  m' = CASE ~m.session[i] \/ (~Accepts(t, i) /\ k = "PUB0") ->
                          Tell(t, p, FALSE)
                    [] m.session[i] /\ Accepts(t, i) -> Send(t, i, p)
                    [] OTHER -> Ins(t, i, p)
    /\ UNCHANGED <<conn, gone, srv, calls, events>>

(* Internal messages come before any other. *)
Message ==
    /\ ~m.restart /\ m.msgs # <<>>
    /\ LET e == Head(m.msgs)
           i == e[2]
           p == e[3]
           t == [m EXCEPT !.msgs = Tail(@)]
           n == IF p = CONNECT THEN 0 ELSE p.n
       IN  m' = CASE e[1] = "DISCONNECT" -> CloseCnf(t, i)
                  [] e[1] = "MQTT_DUP_IND" ->
                        IF Accepts(t, i) THEN Send(t, i, Packet("DUP", n))
                        ELSE Rsm(t, i, p)
                  [] e[1] = "MQTT_DUP_FAIL" -> Tell(t, p, FALSE)
    /\ UNCHANGED <<conn, gone, srv, calls, events>>

(* timerfnc of mqttdup: the time of an entry has come *)
DupTimer ==
    /\ Idle
    /\ \E k \in DOMAIN m.tlist :
         /\ ~m.tlist[k].due
         /\ m' = [m EXCEPT !.tlist[k].due = TRUE,
                           !.msgs = Append(@, <<"MQTT_DUP_IND",
                                m.tlist[k].client, m.tlist[k].packet>>)]
    /\ UNCHANGED <<conn, gone, srv, calls, events>>

ReconnTimer ==
    /\ Idle
    /\ \E i \in Clients :
         m.treconn[i] /\ m' = Reconn([m EXCEPT !.treconn[i] = FALSE], i)
    /\ UNCHANGED <<conn, gone, srv, calls, events>>

(* Half the time of keepalive is longer than a send takes: the last ping   *)
(* has been sent.                                                          *)
PingTimer ==
    /\ Idle
    /\ \E i \in Clients :
         /\ m.tping[i] /\ PINGREQ \notin Buffered(m, i)
         /\ m' = [SndPingReq([m EXCEPT !.tping[i] = FALSE], i)
                    EXCEPT !.tdisc[i] = TRUE]
    /\ UNCHANGED <<conn, gone, srv, calls, events>>

(* The server has not answered a ping; the connection may be another now.  *)
DiscTimer ==
    /\ Idle
    /\ \E i \in Clients :
         /\ m.tdisc[i] /\ (m.link[i] = "CONNECTED" \/ "lateping" \in Cases)
         /\ m' = SndDisconnect([m EXCEPT !.tdisc[i] = FALSE], i, FALSE)
    /\ UNCHANGED <<conn, gone, srv, calls, events>>

(* Nothing has come from the server for three times keepalive.             *)
DatInactive ==
    /\ Idle /\ Event /\ \E i \in Clients : Watched(m, i)
    /\ m' = [m EXCEPT !.restart = TRUE]
    /\ UNCHANGED <<conn, gone, srv, calls>>

Restart ==
    /\ m.restart
    /\ m' = Start /\ conn' = Each("free") /\ gone' = FALSE /\ srv' = Each({})
    /\ UNCHANGED <<calls, events>>

(* The network is set up, when a shut is not under way. *)
NetworkReady ==
    /\ Idle /\ ~m.ip /\ ~Pending(m, SHUT)
    /\ \E i \in Clients : m.link[i] # "NIL LINK"
    /\ m' = ConnPend(m)
    /\ UNCHANGED <<conn, gone, srv, calls, events>>

Executing(v) == Idle /\ m.cmds # <<>> /\ Head(m.cmds).verb = v

Done == [m EXCEPT !.cmds = Tail(@)]

(* What a retransmission is to the server *)
Seen(p) == CASE p.kind # "DUP" -> p
             [] p = Packet("DUP", 0) -> CONNECT
             [] p.kind = "DUP" /\ p.n # 0 -> Packet("PUB1", p.n)

Answered == {"CONNECT", "PINGREQ", "PUB1"}

Receives(c) ==
    srv' = [srv EXCEPT ![c.id] =
        @ \union {q \in {Seen(c.item)} : q.kind \in Answered}]

(* The data are with the server before the modem answers, so that what the *)
(* server does may come first.                                             *)
Transmit ==
    /\ Executing("CIPSEND") /\ ~gone /\ gone' = TRUE /\ Event
    /\ conn[Head(m.cmds).id] = "open" /\ Receives(Head(m.cmds))
    /\ UNCHANGED <<m, conn, calls>>

(* The modem answers its oldest command. *)
AnswerStart ==
    /\ Executing("CIPSTART")
    /\ LET i == Head(m.cmds).id IN
         \/ conn[i] = "free" /\ conn' = [conn EXCEPT ![i] = "opening"] /\ m' = Done
         \/ m' = StatusInd(Done, i, "ERROR") /\ UNCHANGED conn
    /\ UNCHANGED <<gone, srv, calls, events>>

AnswerSend ==
    /\ Executing("CIPSEND") /\ gone' = FALSE
    /\ LET c == Head(m.cmds) IN
         \/ /\ gone /\ UNCHANGED <<srv, events>>
            /\ m' = SendCnf(Done, c.id, TRUE)
         \/ /\ ~gone /\ conn[c.id] = "open" /\ Receives(c) /\ UNCHANGED events
            /\ m' = SendCnf(Done, c.id, TRUE)
         \/ /\ IF conn[c.id] = "open" THEN Event ELSE UNCHANGED events
            /\ m' = SendCnf(Done, c.id, FALSE) /\ UNCHANGED srv
    /\ UNCHANGED <<conn, calls>>

AnswerClose ==
    /\ Executing("CIPCLOSE")
    /\ LET i == Head(m.cmds).id IN
         /\ m' = CloseCnf(Done, i)
         /\ conn' = [conn EXCEPT ![i] = "free"] /\ srv' = [srv EXCEPT ![i] = {}]
    /\ UNCHANGED <<gone, calls, events>>

AnswerShut ==
    /\ Executing("CIPSHUT")
    /\ m' = ShutCnf(Done) /\ conn' = Each("free") /\ srv' = Each({})
    /\ UNCHANGED <<gone, calls, events>>

Connects ==
    /\ Idle
    /\ \E i \in Clients, ok \in BOOLEAN :
         /\ conn[i] = "opening"
         /\ conn' = [conn EXCEPT ![i] = IF ok THEN "open" ELSE "free"]
         /\ m' = StatusInd(m, i, IF ok THEN "CONNECT OK" ELSE "CONNECT FAIL")
    /\ UNCHANGED <<gone, srv, calls, events>>

(* The server closes a connection, also one that is being closed.          *)
PeerCloses ==
    /\ Idle /\ Event
    /\ \E i \in Clients :
         /\ conn[i] = "open"
         /\ m.discing[i] /\ SendUnderWay(m, i) => "midsend" \in Cases
         /\ conn' = [conn EXCEPT ![i] = "free"] /\ srv' = [srv EXCEPT ![i] = {}]
         /\ m' = StatusInd(m, i, "CLOSED")
    /\ UNCHANGED <<gone, calls>>

(* +PDP: DEACT, upon which link shuts the network *)
NetworkLost ==
    /\ Idle /\ Event /\ m.ip
    /\ \/ "deact" \in Cases
       \/ \A i \in Clients : m.link[i] = "CONNECTING" => m.pending[i]
    /\ conn' = Each("free") /\ srv' = Each({}) /\ m' = Shut(m)
    /\ UNCHANGED <<gone, calls>>

(* The server answers a packet, in any order, or not at all.  To refuse a  *)
(* CONNECT counts as an event.                                             *)
ServerAnswers ==
    /\ Idle
    /\ \E i \in Clients : conn[i] = "open" /\ \E p \in srv[i], suc \in BOOLEAN :
         /\ srv' = [srv EXCEPT ![i] = @ \ {p}]
         /\ IF suc THEN UNCHANGED events ELSE Event
         /\ \/ p = CONNECT /\ m' = ConnAck(Rcv(m, i), i, suc)
            \/ p = PINGREQ /\ suc /\ m' = PingRsp(Rcv(m, i), i)
            \/ p.kind = "PUB1" /\ suc /\ m' = PubAck(Rcv(m, i), i, p)
    /\ UNCHANGED <<conn, gone, calls>>

ServerPublishes ==
    /\ Idle /\ Event
    /\ \E i \in Clients :
         conn[i] = "open" /\ m.session[i] /\ m' = SvrPublish(Rcv(m, i), i)
    /\ UNCHANGED <<conn, gone, srv, calls>>

Next ==
    \/ ProgramConnects \/ ProgramDisconnects \/ Publish \/ Message
    \/ DupTimer \/ ReconnTimer \/ PingTimer \/ DiscTimer
    \/ DatInactive \/ Restart \/ NetworkReady
    \/ Transmit \/ AnswerStart \/ AnswerSend \/ AnswerClose \/ AnswerShut
    \/ Connects \/ PeerCloses \/ NetworkLost
    \/ ServerAnswers \/ ServerPublishes

Spec == Init /\ [][Next]_vars

(* Internal messages are handled, the modem answers and ends what it has   *)
(* begun, the network can be set up, and the timers of reconn and mqttdup  *)
(* expire.  The server need not answer.                                    *)
FairSpec ==
    /\ Spec /\ WF_vars(Message) /\ WF_vars(Restart) /\ WF_vars(NetworkReady)
    /\ WF_vars(AnswerStart \/ AnswerSend \/ AnswerClose \/ AnswerShut)
    /\ WF_vars(Connects) /\ WF_vars(ReconnTimer) /\ WF_vars(DupTimer)

----------------------------------------------------------------------------
(* Properties *)

LinkStates == {"NIL LINK", "INITIAL", "CONNECTING", "CONNECTED",
               "DISCONNECTING", "CLOSED"}

(* The links are in states of link.lua, what is buffered and retransmitted *)
(* is known, and no attempt is counted beyond the limits.                  *)
TypeOK ==
    /\ m.link \in [Clients -> LinkStates]
    /\ m.cnt \in [Clients -> 0..ReconnMax] /\ m.cyc \in [Clients -> 0..CycleMax]
    /\ \A e \in ToSet(m.tlist) : e.client \in Clients /\ e.cnt \in 1..DupCnt
    /\ conn \in [Clients -> {"free", "opening", "open"}]

(* A client that says that it is connected has a socket that is: getstatus *)
(* and publish go by mqttconnected alone.                                  *)
SessionHasLink ==
    \A i \in Clients : m.session[i] =>
        m.up[i] /\ m.link[i] \in {"CONNECTED", "DISCONNECTING"}

(* sckconning says that a connect is being tried: the link does try, and   *)
(* will tell the client how it ended.  It keeps reconn from connecting.    *)
ConningIsTrue ==
    \A i \in Clients : m.conning[i] => m.link[i] = "CONNECTING"

(* The attempt to connect of client i is under way. *)
Trying(i) ==
    /\ m.link[i] = "CONNECTING"
    /\ m.pending[i] \/ Pending(m, Cmd("CIPSTART", i)) \/ conn[i] = "opening"

(* The close of a connection was taken for the end of a disconnect.        *)
Dropped(i) == m.link[i] = "CLOSED" /\ m.dropped[i]

(* A client that the program wants connected is, or something is to happen *)
(* that connects it, or restarts the software - or the server closed its   *)
(* connection while discing was set, the one way in which it is dropped.   *)
NeverStuck ==
    \A i \in Clients : m.wants[i] =>
        \/ Dropped(i) \/ m.restart \/ m.treconn[i] \/ Trying(i)
        \/ m.link[i] = "CONNECTED"
        \/ m.link[i] = "DISCONNECTING" /\ Pending(m, Cmd("CIPCLOSE", i))

(* A publish without a result, whose connection is still there, is in the  *)
(* buffer of the socket, among the packets to be retransmitted, or on its  *)
(* way back to the program; or the connection is being cut.                *)
PublishIsHeld ==
    \A n \in DOMAIN m.pubs : m.pubs[n].told = "no" =>
        \/ Pending(m, SHUT)
        \/ \E p \in Buffered(m, m.pubs[n].client) : p.kind \in {"PUB0", "PUB1"} /\ p.n = n
        \/ \E e \in ToSet(m.tlist) : e.packet = Packet("PUB1", n)
        \/ \E e \in ToSet(m.msgs) :
              e[1] = "MQTT_DUP_FAIL" /\ e[3] = Packet("PUB1", n)

(* The result of a publish is told once. *)
ToldOnce == \A n \in DOMAIN m.pubs : m.pubs[n].told # "again"

(* While there is a session a timer or a disconnect under way will notice  *)
(* that the server is dead.                                                *)
DeadIsNoticed ==
    \A i \in Clients : m.session[i] =>
        \/ m.tping[i] \/ m.tdisc[i] \/ DISCONNECT \in Buffered(m, i)
        \/ m.link[i] = "DISCONNECTING" \/ Pending(m, SHUT)

(* The clients know their sockets, lose no publish and will reconnect.     *)
Inv ==
    /\ TypeOK /\ SessionHasLink /\ ConningIsTrue /\ NeverStuck
    /\ PublishIsHeld /\ ToldOnce /\ DeadIsNoticed

(* Client i is to be connected and is not; publish n has no result. *)
Waits(i) == m.wants[i] /\ m.link[i] # "CONNECTED" /\ ~Dropped(i)
Untold(n) == m.pubs[n].told = "no"

(* Nobody waits for ever: a client that is to be connected is connected,   *)
(* or its program is told that there is no connection, or the software     *)
(* restarts, for reconn's cycles end; and a publish gets its result though *)
(* the server never answer, for its retransmissions end, unless its        *)
(* connection is lost.  As publishes and faults are bounded this is to say *)
(* that again and again nobody waits.                                      *)
NobodyWaitsForEver ==
    []<>(~(\E i \in Clients : Waits(i)) /\ ~(\E n \in DOMAIN m.pubs : Untold(n)))
=============================================================================
