-------------------------------- MODULE Link -------------------------------
(***************************************************************************)
(* The sockets of script/new/lib/link.lua above the AT channel.            *)
(*                                                                         *)
(* A handler may call back into the module: the owner of a socket, told of *)
(* an event, connects, disconnects or closes at once.  So what a function  *)
(* of link.lua does is an operator from the state l of the module to its   *)
(* next state, and a handler is a composition of such operators.           *)
(*                                                                         *)
(* Of the AT channel this module keeps what Ril and AtChannel establish:   *)
(* commands are executed in the order of the requests, the next is written *)
(* when the reader has left its loop and nothing is in execution.  The     *)
(* modem is external and answers in its own time.                          *)
(***************************************************************************)
EXTENDS Naturals, FiniteSets, Sequences, SequencesExt

CONSTANTS
    MaxLinks,    \* MAXLINKS, the largest number of a socket
    Holders,     \* what may hold back a shut: update, dbg, ntp
    Calls,       \* the calls that owners make between events
    Reactions,   \* the calls that owners make while they are told of one
    Habits,      \* what owners and the network may do besides, see below
    CloseAnswers,\* what the modem answers to CIPCLOSE
    Crosses,     \* whether a report may be taken for an answer
    ShutFails,   \* whether the modem may refuse CIPSHUT
    MaxCalls,    \* bound: calls of the owners
    MaxEvents,   \* bound: connections and networks lost, flight mode, holds
    MaxQueue,    \* bound: commands queued when an owner calls
    MaxOut       \* bound: unread lines of the modem

ASSUME LinkAssumption ==
    /\ MaxLinks \in Nat /\ Habits \subseteq {"late", "hasty", "deact"}
    /\ Calls \subseteq {"open", "connect", "call", "disconnect", "close",
                        "send", "shut"}
    /\ Reactions \subseteq Calls \ {"send"}
    /\ CloseAnswers \subseteq {"CLOSE_OK", "ERROR"} /\ CloseAnswers # {}
    /\ Crosses \in BOOLEAN /\ ShutFails \in BOOLEAN
    /\ MaxCalls \in Nat /\ MaxEvents \in Nat /\ MaxQueue \in Nat
    /\ MaxOut \in Nat

VARIABLES
    l,       \* the state of link.lua, a record
    reading, \* atcreader is in its loop
    wire,    \* commands the modem has and has not answered
    out,     \* lines of the modem, not read yet
    mip,     \* the state of the modem's IP network
    conn,    \* the modem's connections
    calls, events \* counted for the bounds

vars == <<l, reading, wire, out, mip, conn, calls, events>>

LinkIds == 0..MaxLinks

LinkStates == {"NIL", "INITIAL", "CONNECTING", "CONNECTED",
               "DISCONNECTING", "CLOSING", "CLOSED"}
IpStates == {"INITIAL", "START", "GPRSACT", "STATUS", "PROCESSING", "DEACT"}
Verbs == {"CIPSTART", "CIPSEND", "CIPCLOSE", "CIPSHUT", "CIPSTATUS",
          "CIICR", "CIFSR"}

NoCmd == [verb |-> "none", id |-> 0]
Has(q, e) == \E k \in 1..Len(q) : q[k] = e

Cmd(v, i) == [verb |-> v, id |-> i]
Plain(v) == [verb |-> v, id |-> 0]

Start == [
    state   |-> [i \in LinkIds |-> "NIL"],
    pending |-> [i \in LinkIds |-> FALSE], \* a connect waits for the network
    guard   |-> [i \in LinkIds |-> FALSE], \* the connectingtimerfunc timer
    ip      |-> "INITIAL",
    shuting |-> FALSE,
    cgatt   |-> FALSE,                     \* cgatt == "1"
    flymode |-> FALSE,
    holders |-> {},                        \* updating, dbging, ntping
    shutpending |-> FALSE,
    tsetup  |-> FALSE,                     \* the timer that calls setupIP
    tstatus |-> FALSE,                     \* the timer that asks CIPSTATUS
    tciicr  |-> FALSE,                     \* the checkciicr restart timer
    local   |-> <<>>,                      \* LINK_ASYNC_LOCAL_EVENTs
    queue   |-> <<>>,                      \* commands not yet written
    curr    |-> NoCmd ]                    \* the command in execution

Init ==
    /\ l = Start /\ reading = FALSE
    /\ wire = <<>> /\ out = <<>> /\ mip = "INITIAL"
    /\ conn = [i \in LinkIds |-> "free"]
    /\ calls = 0 /\ events = 0

----------------------------------------------------------------------------
(* The IP network *)

Req(s, c) == [s EXCEPT !.queue = Append(@, c)]

IpReady(s) == s.ip \in {"STATUS", "PROCESSING"}

SetupIP(s) ==
    IF s.ip = "INITIAL" /\ ~s.flymode /\ s.cgatt
    THEN [Req(Req(s, Plain("CIICR")), Plain("CIPSTATUS"))
            EXCEPT !.ip = "START"]
    ELSE s

(* slip: a shut that was put off stays so when it is carried out *)
ShutStaysPutOff(s) ==
    IF s.holders # {}
    THEN [s EXCEPT !.shutpending = TRUE]
    ELSE [Req(s, Plain("CIPSHUT")) EXCEPT !.shuting = TRUE]

Shut(s) ==
    IF s.holders # {}
    THEN [s EXCEPT !.shutpending = TRUE]
    ELSE [Req(s, Plain("CIPSHUT")) EXCEPT !.shuting = TRUE,
                                           !.shutpending = FALSE]

(* slip: the timer is only started by connect *)
ConnPendUnguarded(s, i) ==
    IF s.state[i] # "NIL" /\ s.pending[i]
    THEN [Req(s, Cmd("CIPSTART", i)) EXCEPT !.pending[i] = FALSE]
    ELSE s

(* connpend: the connects that waited for the network are requested *)
ConnPendOne(s, i) ==
    IF s.state[i] # "NIL" /\ s.pending[i]
    THEN [Req(s, Cmd("CIPSTART", i)) EXCEPT !.guard[i] = TRUE,
                                             !.pending[i] = FALSE]
    ELSE s

ConnPend(s) ==
    LET below[n \in 0..(MaxLinks + 1)] ==
            IF n = 0 THEN s ELSE ConnPendOne(below[n - 1], n - 1)
    IN  below[MaxLinks + 1]

SetIPStatus(s, status) ==
    LET t == [s EXCEPT !.ip = status,
                       !.tciicr = @ /\ status # "GPRSACT"]
    IN  CASE s.ip = status /\ status \in {"INITIAL", "STATUS", "PROCESSING"}
               -> s
          [] s.ip # status /\ status = "INITIAL"
               -> [t EXCEPT !.tsetup = TRUE]
          [] s.ip # status /\ status = "STATUS" -> ConnPend(t)
          [] s.ip # status /\ status = "PROCESSING" -> t
          [] status = "START" -> [t EXCEPT !.tstatus = TRUE]
          [] status = "GPRSACT"
               -> Req(Req(t, Plain("CIFSR")), Plain("CIPSTATUS"))
          [] status = "DEACT" -> [Shut(t) EXCEPT !.tstatus = FALSE]

----------------------------------------------------------------------------
(* The calls of an owner *)

Free(s) == {i \in LinkIds : s.state[i] = "NIL"}

(* open: the lowest free socket *)
Open(s, i) ==
    LET t == [s EXCEPT !.state[i] = "INITIAL", !.pending[i] = FALSE]
    IN  IF IpReady(s) THEN t ELSE SetupIP(t)

CanOpen(s, i) == i \in Free(s) /\ \A j \in Free(s) : i <= j

CanConnect(s, i) == s.state[i] \in {"INITIAL", "CLOSED"}

(* During a voice call the failure is reported by an asynchronous event.   *)
Connect(s, i, call) ==
    LET t == [s EXCEPT !.state[i] = "CONNECTING"]
    IN  IF call THEN [t EXCEPT !.local = Append(@, <<"CONNECT_FAIL", i>>)]
        ELSE IF ~IpReady(s) \/ s.shuting THEN [t EXCEPT !.pending[i] = TRUE]
        ELSE [Req(t, Cmd("CIPSTART", i)) EXCEPT !.guard[i] = TRUE]

(* slip: disconnect drops a waiting connect and is done *)
DisconnectSilent(s, i) ==
    LET t == [s EXCEPT !.state[i] = "DISCONNECTING", !.pending[i] = FALSE]
    IN  IF s.pending[i] THEN t ELSE Req(t, Cmd("CIPCLOSE", i))

CanDisconnect(s, i) == s.state[i] \notin {"NIL", "DISCONNECTING"}

Disconnect(s, i) ==
    LET t == [s EXCEPT !.state[i] = "DISCONNECTING", !.pending[i] = FALSE]
    IN  IF s.pending[i] /\ ~IpReady(s) /\ s.state[i] = "CONNECTING"
        THEN [t EXCEPT !.local = Append(@, <<"DISCONNECT", i>>)]
        ELSE Req(t, Cmd("CIPCLOSE", i))

(* validaction looks for the state "CLOSEING", which no socket is in: a     *)
(* close is not refused while the socket is being closed.                  *)
CanClose(s, i) == s.state[i] # "NIL"

Awaits(s, v, i) == s.curr = Cmd(v, i) \/ Has(s.queue, Cmd(v, i))

(* "hasty": a socket is closed before the event that ends its disconnect,  *)
(* in the same handler or in the same loop of the reader.                  *)
Hasty(s, i) == Has(s.local, <<"DISCONNECT", i>>)

Close(s, i) ==
    Req([s EXCEPT !.state[i] = "CLOSING"], Cmd("CIPCLOSE", i))

(* A call of the owner of socket i, without effect when it is refused.     *)
Call(s, i, c) ==
    CASE c = "open" /\ CanOpen(s, i) -> Open(s, i)
      [] c = "connect" /\ CanConnect(s, i) -> Connect(s, i, FALSE)
      [] c = "call" /\ CanConnect(s, i) -> Connect(s, i, TRUE)
      [] c = "disconnect" /\ CanDisconnect(s, i) -> Disconnect(s, i)
      [] /\ c = "close" /\ CanClose(s, i)
         /\ "hasty" \in Habits \/ ~Hasty(s, i) -> Close(s, i)
      [] c = "send" /\ s.state[i] = "CONNECTED" -> Req(s, Cmd("CIPSEND", i))
      [] c = "shut" -> Shut(s)
      [] OTHER -> s

(* The owner of socket i is told of an event and reacts with r[i].         *)
Notify(s, i, r) == Call(s, i, r[i])

StopGuard(s, i) == [s EXCEPT !.guard[i] = FALSE]

----------------------------------------------------------------------------
(* The results and reports of the modem, each with the owners' reactions r *)

StatusInd(s, i, v, r) ==
    CASE s.state[i] = "NIL" -> s
      [] s.state[i] # "NIL" /\ v = "SEND_FAIL" ->
           IF s.state[i] = "CONNECTED" THEN Notify(s, i, r) ELSE s
      [] s.state[i] # "NIL" /\ v # "SEND_FAIL" ->
           LET t == IF v = "CONNECT_OK" THEN "CONNECTED" ELSE "CLOSED"
           IN  StopGuard(Notify([s EXCEPT !.state[i] = t], i, r), i)

CloseCnf(s, i, r) ==
    CASE s.state[i] = "DISCONNECTING" ->
           StopGuard(Notify([s EXCEPT !.state[i] = "CLOSED"], i, r), i)
      [] s.state[i] = "CLOSING" ->
           StopGuard(Notify([s EXCEPT !.state[i] = "NIL",
                                      !.pending[i] = FALSE], i, r), i)
      [] OTHER -> s

SendCnf(s, i, r) == Notify(s, i, r)

(* slip: the sockets are left as they are *)
ShutLeaves(s, i, r) == StopGuard(s, i)

(* shutcnf for one socket *)
ShutOne(s, i, r) ==
    CASE s.state[i] = "NIL" -> s
      [] \/ s.state[i] = "CONNECTING" /\ s.pending[i]
         \/ s.state[i] = "INITIAL" -> StopGuard(s, i)
      [] OTHER -> StopGuard(Notify([s EXCEPT !.state[i] = "CLOSED"], i, r), i)

ShutAll(s, r) ==
    LET below[n \in 0..(MaxLinks + 1)] ==
            IF n = 0 THEN s ELSE ShutOne(below[n - 1], n - 1, r)
    IN  below[MaxLinks + 1]

ShutCnf(s, ok, r) ==
    LET t == [s EXCEPT !.shuting = FALSE]
    IN  IF ok
        THEN [ShutAll(SetIPStatus(t, "INITIAL"), r) EXCEPT !.tciicr = FALSE]
        ELSE [t EXCEPT !.tstatus = TRUE, !.tciicr = FALSE]

(* rsp: command c ends with result v *)
Rsp(s, c, v, r) ==
    CASE c.verb = "CIPSEND" /\ v = "PDP_DEACT" ->
           SendCnf(Req(s, Plain("CIPSTATUS")), c.id, r)
      [] c.verb = "CIPSEND" /\ v # "PDP_DEACT" -> SendCnf(s, c.id, r)
      [] c.verb = "CIPCLOSE" -> CloseCnf(s, c.id, r)
      [] c.verb = "CIPSHUT" -> ShutCnf(s, v = "SHUT_OK", r)
      [] c.verb = "CIPSTART" /\ v = "ERROR" -> StatusInd(s, c.id, v, r)
      [] c.verb = "CIICR" /\ v = "OK" -> [s EXCEPT !.tciicr = TRUE]
      [] c.verb = "CIICR" /\ v # "OK" -> [Shut(s) EXCEPT !.tstatus = FALSE]
      [] OTHER -> s

----------------------------------------------------------------------------
(* The lines of the modem.  t: "ANS" a final answer without a socket       *)
(* number, "LINK" a line about socket id, "STATE" the state of the IP      *)
(* network, "PDP" the report that the network was lost.  That line has the *)
(* same text when it is the answer of a send or a close.                   *)

Ln(t, i, v) == [t |-> t, id |-> i, v |-> v]

(* procatc: the line is the final answer of the command in execution *)
IsFinal(s, line) ==
    /\ s.curr # NoCmd
    /\ \/ line.t = "ANS" /\ line.v # "PDP_DEACT"
       \/ line.v = "PDP_DEACT" /\ s.curr.verb \in {"CIPSEND", "CIPCLOSE"}
       \/ /\ line.t = "LINK" /\ line.id = s.curr.id
          /\ \/ s.curr.verb = "CIPSEND" /\ line.v \in {"SEND_OK", "SEND_FAIL"}
             \/ s.curr.verb = "CIPCLOSE" /\ line.v \in {"CLOSE_OK", "CLOSED"}

(* urc of link.lua; a final answer nobody waits for is ignored *)
Urc(s, line, r) ==
    CASE line.t = "STATE" -> SetIPStatus(s, line.v)
      [] line.v = "PDP_DEACT" -> [Shut(s) EXCEPT !.tstatus = FALSE]
      [] line.t = "LINK" -> StatusInd(s, line.id, line.v, r)
      [] line.t = "ANS" /\ line.v # "PDP_DEACT" -> s

Process(s, line, r) ==
    IF IsFinal(s, line)
    THEN [Rsp(s, s.curr, line.v, r) EXCEPT !.curr = NoCmd]
    ELSE Urc(s, line, r)

(* A report that nothing asked for is taken for an answer. *)
Crossing(s, line) ==
    /\ IsFinal(s, line)
    /\ line.t = "PDP" \/ line.v = "CLOSED"

(* "late": a socket is connected after it has been disconnected or closed  *)
(* and before the modem has heard of it.                                   *)
Late(s, line) ==
    line.v = "CONNECT_OK" /\ Awaits(s, "CIPCLOSE", line.id)

(* sendat, which ends every handler that is not inside atcreader *)
Sends(s) == s.curr = NoCmd /\ s.queue # <<>>

SendAt(s) ==
    IF Sends(s)
    THEN [s EXCEPT !.curr = Head(s.queue), !.queue = Tail(@)]
    ELSE s

Handle(s) ==
    /\ l' = SendAt(s)
    /\ wire' = IF Sends(s) THEN Append(wire, Head(s.queue)) ELSE wire

----------------------------------------------------------------------------
(* Actions of the Lua task *)

Idle == ~reading /\ l.local = <<>>

(* What the owners do when they are told of an event: nothing, or one of   *)
(* them makes a call.                                                      *)
Quiet == [i \in LinkIds |-> "none"]

Replies ==
    {Quiet} \union
    IF calls < MaxCalls
    THEN {[Quiet EXCEPT ![i] = c] : i \in LinkIds, c \in Reactions}
    ELSE {}

Count(r) == calls' = IF r = Quiet THEN calls ELSE calls + 1

(* A call of an owner: between messages, or in the handler that has just   *)
(* caused a local event.                                                   *)
OwnerCalls ==
    /\ ~reading
    /\ calls < MaxCalls /\ calls' = calls + 1
    /\ Len(l.queue) < MaxQueue
    /\ \E i \in LinkIds, c \in Calls :
         LET s == Call(l, i, c) IN s # l /\ Handle(s)
    /\ UNCHANGED <<reading, out, mip, conn, events>>

(* asyncLocalEvent: internal messages come before any other *)
LocalEvent ==
    /\ ~reading /\ l.local # <<>>
    /\ \E r \in Replies :
         /\ Count(r)
         /\ LET e == Head(l.local)
                s == [l EXCEPT !.local = Tail(@)]
            IN  Handle(IF e[1] = "DISCONNECT"
                       THEN CloseCnf(s, e[2], r)
                       ELSE StatusInd(s, e[2], e[1], r))
    /\ UNCHANGED <<reading, out, mip, conn, events>>

(* atcreader takes a line and, as long as there are more, the next; only   *)
(* then is a command written.  A line that arrives just before the loop    *)
(* ends is one that arrived before the last line was taken.                *)
ReadLine ==
    /\ reading \/ Idle
    /\ out # <<>> /\ out' = Tail(out)
    /\ Crosses \/ ~Crossing(l, Head(out))
    /\ "late" \in Habits \/ ~Late(l, Head(out))
    /\ reading' = (out' # <<>>)
    /\ \E r \in Replies :
         /\ Count(r)
         /\ LET s == Process(l, Head(out), r)
            IN  IF reading' THEN l' = s /\ wire' = wire ELSE Handle(s)
    /\ UNCHANGED <<mip, conn, events>>

SetupTimer ==
    /\ Idle /\ l.tsetup /\ Len(l.queue) < MaxQueue
    /\ Handle(SetupIP([l EXCEPT !.tsetup = FALSE]))
    /\ UNCHANGED <<reading, out, mip, conn, calls, events>>

StatusTimer ==
    /\ Idle /\ l.tstatus /\ Len(l.queue) < MaxQueue
    /\ Handle(Req([l EXCEPT !.tstatus = FALSE], Plain("CIPSTATUS")))
    /\ UNCHANGED <<reading, out, mip, conn, calls, events>>

(* connectingtimerfunc and checkciicr restart the system *)
Restart ==
    /\ Idle
    /\ l.tciicr \/ \E i \in LinkIds : l.guard[i]
    /\ l' = Start /\ reading' = FALSE
    /\ wire' = <<>> /\ out' = <<>> /\ mip' = "INITIAL"
    /\ conn' = [i \in LinkIds |-> "free"]
    /\ UNCHANGED <<calls, events>>

(* slip: the network is left to the timers *)
CgattForgets(s, attached) == [s EXCEPT !.cgatt = attached]

(* cgattrsp: the modem says whether it is attached to the network *)
Cgatt(s, attached) ==
    LET t == [s EXCEPT !.cgatt = attached]
    IN  CASE ~attached \/ Free(s) = LinkIds -> t
          [] attached /\ Free(s) # LinkIds /\ s.ip = "INITIAL" -> SetupIP(t)
          [] OTHER -> Req(t, Plain("CIPSTATUS"))

(* A modem that is not attached is asked again until it is; one that is    *)
(* attached is asked when it registers anew.                               *)
CgattRsp ==
    /\ Idle /\ ~l.flymode
    /\ \/ ~l.cgatt /\ events' = events /\ Handle(Cgatt(l, TRUE))
       \/ /\ l.cgatt /\ events < MaxEvents /\ events' = events + 1
          /\ \E a \in BOOLEAN : Handle(Cgatt(l, a))
    /\ UNCHANGED <<reading, out, mip, conn, calls>>

(* proc: flight mode, after which the modem is asked, and what holds back  *)
(* a shut                                                                  *)
FlyMode ==
    /\ Idle
    /\ \/ /\ ~l.flymode /\ events < MaxEvents /\ events' = events + 1
          /\ Handle([l EXCEPT !.flymode = TRUE, !.tstatus = FALSE])
       \/ /\ l.flymode /\ events' = events
          /\ \E a \in BOOLEAN : Handle(Cgatt([l EXCEPT !.flymode = FALSE], a))
    /\ UNCHANGED <<reading, out, mip, conn, calls>>

Hold ==
    /\ Idle
    /\ events < MaxEvents /\ events' = events + 1
    /\ \E h \in Holders \ l.holders :
         Handle([l EXCEPT !.holders = @ \union {h}])
    /\ UNCHANGED <<reading, out, mip, conn, calls>>

Release ==
    /\ Idle
    /\ \E h \in l.holders :
         LET s == [l EXCEPT !.holders = @ \ {h}]
         IN  Handle(IF s.shutpending THEN Shut(s) ELSE s)
    /\ UNCHANGED <<reading, out, mip, conn, calls, events>>

----------------------------------------------------------------------------
(* The modem *)

Say(lines) == Len(out) + Len(lines) <= MaxOut /\ out' = out \o lines

Report ==
    IF mip' = "STATUS" /\ \E i \in LinkIds : conn[i] # "free"
    THEN "PROCESSING" ELSE mip'

AllFree == [i \in LinkIds |-> "free"]

(* The modem executes its oldest command. *)
Execute ==
    /\ wire # <<>> /\ wire' = Tail(wire)
    /\ LET c == Head(wire)
           i == c.id
           OK == Ln("ANS", i, "OK")
           ERROR == Ln("ANS", i, "ERROR")
       IN  \/ /\ c.verb = "CIPSTART" /\ mip = "STATUS" /\ conn[i] = "free"
              /\ Say(<<OK>>) /\ conn' = [conn EXCEPT ![i] = "opening"]
              /\ UNCHANGED mip
           \/ /\ \/ c.verb \in {"CIPSTART", "CIICR"}
                 \/ c.verb = "CIPSEND" /\ conn[i] # "open"
              /\ Say(<<ERROR>>) /\ UNCHANGED <<mip, conn>>
           \/ /\ c.verb = "CIPSEND" /\ conn[i] = "open"
              /\ \E v \in {"SEND_OK", "SEND_FAIL"} : Say(<<Ln("LINK", i, v)>>)
              /\ UNCHANGED <<mip, conn>>
           \/ /\ c.verb = "CIPCLOSE"
              /\ \/ "CLOSE_OK" \in CloseAnswers
                      /\ Say(<<Ln("LINK", i, "CLOSE_OK")>>)
                 \/ "ERROR" \in CloseAnswers /\ conn[i] = "free"
                      /\ Say(<<ERROR>>)
              /\ conn' = [conn EXCEPT ![i] = "free"] /\ UNCHANGED mip
           \/ /\ c.verb = "CIPSHUT"
              /\ Say(<<Ln("ANS", i, "SHUT_OK")>>)
              /\ mip' = "INITIAL" /\ conn' = AllFree
           \/ /\ c.verb = "CIPSHUT" /\ ShutFails
              /\ Say(<<ERROR>>) /\ UNCHANGED <<mip, conn>>
           \/ /\ c.verb = "CIPSTATUS"
              /\ mip' \in {mip} \union (IF mip = "START" THEN {"GPRSACT"} ELSE {})
              /\ Say(<<OK, Ln("STATE", i, Report)>>) /\ UNCHANGED conn
           \/ /\ c.verb = "CIICR" /\ mip = "INITIAL"
              /\ Say(<<OK>>) /\ mip' = "START" /\ UNCHANGED conn
           \/ /\ c.verb = "CIFSR"
              /\ Say(<<OK>>) /\ UNCHANGED conn
              /\ mip' = IF mip = "GPRSACT" THEN "STATUS" ELSE mip
    /\ UNCHANGED <<l, reading, calls, events>>

Connects ==
    /\ \E i \in LinkIds :
         /\ conn[i] = "opening"
         /\ \/ Say(<<Ln("LINK", i, "CONNECT_OK")>>)
                 /\ conn' = [conn EXCEPT ![i] = "open"]
            \/ Say(<<Ln("LINK", i, "CONNECT_FAIL")>>)
                 /\ conn' = [conn EXCEPT ![i] = "free"]
    /\ UNCHANGED <<l, reading, wire, mip, calls, events>>

PeerCloses ==
    /\ events < MaxEvents /\ events' = events + 1
    /\ \E i \in LinkIds :
         /\ conn[i] = "open" /\ conn' = [conn EXCEPT ![i] = "free"]
         /\ Say(<<Ln("LINK", i, "CLOSED")>>)
    /\ UNCHANGED <<l, reading, wire, mip, calls>>

(* The network is lost: the connections are gone.  The report may be the   *)
(* answer of a send or, "deact", a close.                                  *)
PdpDeact ==
    /\ events < MaxEvents /\ events' = events + 1
    /\ mip \in {"GPRSACT", "STATUS"} /\ mip' = "DEACT"
    /\ conn' = AllFree
    /\ \/ Say(<<Ln("PDP", 0, "PDP_DEACT")>>) /\ UNCHANGED wire
       \/ /\ wire # <<>>
          /\ Head(wire).verb \in {"CIPSEND"} \union
                               IF "deact" \in Habits THEN {"CIPCLOSE"} ELSE {}
          /\ Say(<<Ln("ANS", 0, "PDP_DEACT")>>) /\ wire' = Tail(wire)
    /\ UNCHANGED <<l, reading, calls>>

Next ==
    \/ OwnerCalls \/ LocalEvent \/ ReadLine
    \/ SetupTimer \/ StatusTimer \/ Restart
    \/ CgattRsp \/ FlyMode \/ Hold \/ Release
    \/ Execute \/ Connects \/ PeerCloses \/ PdpDeact

Spec == Init /\ [][Next]_vars

----------------------------------------------------------------------------
(* Properties *)

(* Every socket is in one of the states of linklist, the network in one of *)
(* the states of AT+CIPSTATUS, and only commands of this module are queued.*)
TypeOK ==
    /\ l.state \in [LinkIds -> LinkStates]
    /\ l.pending \in [LinkIds -> BOOLEAN] /\ l.guard \in [LinkIds -> BOOLEAN]
    /\ l.ip \in IpStates /\ l.holders \subseteq Holders
    /\ l.queue \in Seq([verb : Verbs, id : LinkIds \union {0}])
    /\ conn \in [LinkIds -> {"free", "opening", "open"}]
    /\ mip \in IpStates

(* Command v of socket i is queued, in execution or with the modem. *)
Underway(v, i) ==
    LET c == Cmd(v, i)
    IN  l.curr = c \/ c \in ToSet(l.queue) \/ c \in ToSet(wire)

Local(e, i) == <<e, i>> \in ToSet(l.local)

Unread(P(_)) == \E line \in ToSet(out) : P(line)

(* A line about socket i, and one about the network, are still to be read. *)
ToldOf(i) == Unread(LAMBDA line : line.t = "LINK" /\ line.id = i)
ToldOfLoss == Unread(LAMBDA line : line.v = "PDP_DEACT")

(* The state of the network is being found out. *)
Asked ==
    \/ l.tstatus \/ Unread(LAMBDA line : line.t = "STATE")
    \/ Underway("CIPSTATUS", 0)

(* The network is about to be shut. *)
WillShut == Underway("CIPSHUT", 0) \/ l.shutpending

(* A socket with a send under way is still in linklist: sendcnf indexes    *)
(* linklist[id] without a check, and a socket removed by close, by another *)
(* owner's call or by an early answer would stop the program.              *)
SendHasLink ==
    \A i \in LinkIds : Awaits(l, "CIPSEND", i) => l.state[i] # "NIL"

(* A socket is DISCONNECTING or CLOSING only as long as the AT+CIPCLOSE or *)
(* the local event that ends it is under way, whatever else happens to the *)
(* socket meanwhile: closecnf finds it or it is past that state.           *)
CloseHasOutcome ==
    \A i \in LinkIds : l.state[i] \in {"DISCONNECTING", "CLOSING"} =>
        Awaits(l, "CIPCLOSE", i) \/ Local("DISCONNECT", i)

(* shuting is raised only while an AT+CIPSHUT is under way, and a shut put *)
(* off by update, dbg or ntp is put off only as long as one of them works. *)
ShutIsCarriedOut ==
    /\ l.shuting => Awaits(l, "CIPSHUT", 0)
    /\ l.shutpending => l.holders # {}

(* What link expects of the modem is on its way, for each socket with a    *)
(* send, each that is closed, and for the network.                         *)
Inv == TypeOK /\ SendHasLink /\ CloseHasOutcome /\ ShutIsCarriedOut

(* A connecting socket waits for the network, or the timer that restarts a *)
(* system whose connect is not answered runs, or its failure is under way. *)
(* So setconnectnoretrestart promises.                                     *)
ConnectIsGuarded ==
    \A i \in LinkIds : l.state[i] = "CONNECTING" =>
        l.pending[i] \/ l.guard[i] \/ Local("CONNECT_FAIL", i)

(* A connect that waits for the network is not forgotten: something that   *)
(* is still to happen makes the network ready, or restarts the system.     *)
PendingWillGo ==
    (\E i \in LinkIds : l.state[i] = "CONNECTING" /\ l.pending[i]) =>
        \/ l.flymode \/ ~l.cgatt
        \/ l.tsetup \/ l.tciicr \/ Asked \/ WillShut

(* getstate says CONNECTED only of a socket that the modem has connected,  *)
(* unless the line or the answer that will correct it is under way.        *)
ConnectedIsReal ==
    \A i \in LinkIds : l.state[i] = "CONNECTED" =>
        \/ conn[i] = "open" \/ ToldOf(i) \/ ToldOfLoss
        \/ Asked \/ WillShut

============================================================================
