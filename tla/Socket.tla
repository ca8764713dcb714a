-------------------------------- MODULE Socket ------------------------------
(***************************************************************************)
(* The send buffer of one user socket (socket.lua) over one link.          *)
(*                                                                         *)
(* Items are numbered in the order in which programs send them.  One is    *)
(* given to the link at a time; its result belongs to sndingitem, whatever *)
(* has become of that since.  The program is told of events by rsp and may *)
(* call back at once, so that, as in Link, what a function does is an      *)
(* operator from the state s of the module to the next.                    *)
(*                                                                         *)
(* Of Link this module keeps the states of one link, what its functions    *)
(* accept, and the order of its commands; each answer is handled at once.  *)
(* Habits names what programs do that loses the result of an item.         *)
(***************************************************************************)
EXTENDS Naturals, Sequences, FiniteSets, SequencesExt

CONSTANTS
    MaxItems,  \* bound: items sent
    MaxCalls,  \* bound: connects, disconnects and closes
    MaxEvents, \* bound: connections lost, voice calls
    Habits     \* a subset of {"redo", "close", "answer", "cross", "call"}

ASSUME SocketAssumption ==
    /\ MaxItems \in Nat /\ MaxCalls \in Nat /\ MaxEvents \in Nat
    /\ Habits \subseteq {"redo",   \* connect while items have no result
                         "close",  \* close while items have no result
                         "answer", \* send when told that a connect failed
                         "cross",  \* connect while being disconnected
                         "call"}   \* send during a voice call

VARIABLES
    s,      \* the state of the module and of the link below, a record
    conn,   \* the modem's connection: "free", "opening" or "open"
    calls, events \* counted for the bounds

vars == <<s, conn, calls, events>>

NoItem == 0

Start == [
    exists     |-> FALSE,  \* scks[idx] is there
    state      |-> "NIL_LINK",
    sndpending |-> <<>>,
    sndingitem |-> NoItem,
    local      |-> FALSE,  \* a LINK_ASYNC_LOCAL_EVENT: the connect failed
    cmds       |-> <<>>,   \* AT commands without an answer
    sent       |-> 0,      \* items sent by the program, all accepted
    told       |-> [i \in 1..MaxItems |-> "no"],
    taken      |-> [i \in 1..MaxItems |-> FALSE] ] \* the modem said SEND OK

Init == s = Start /\ conn = "free" /\ calls = 0 /\ events = 0

Cmd(v, i) == [verb |-> v, item |-> i]
Req(t, v, i) == [t EXCEPT !.cmds = Append(@, Cmd(v, i))]

Buffered(t) == ToSet(t.sndpending) \union ({t.sndingitem} \ {NoItem})

----------------------------------------------------------------------------
(* The functions of link.lua, its names without their blanks.              *)
(* c: a voice call exists                                                  *)

LinkRefuses(t) == t.state \notin {"INITIAL", "CLOSED"}

LinkConnect(t, c) ==
    LET u == [t EXCEPT !.state = "CONNECTING"]
    IN  IF c THEN [u EXCEPT !.local = TRUE] ELSE Req(u, "CIPSTART", NoItem)

LinkDisconnect(t) ==
    IF t.state \in {"NIL_LINK", "DISCONNECTING"} THEN t
    ELSE Req([t EXCEPT !.state = "DISCONNECTING"], "CIPCLOSE", NoItem)

LinkClose(t) ==
    IF t.state = "NIL_LINK" THEN t
    ELSE Req([t EXCEPT !.state = "CLOSING"], "CIPCLOSE", NoItem)

LinkSends(t, c) == t.state = "CONNECTED" /\ ~c

----------------------------------------------------------------------------
(* The functions of socket.lua that programs call *)

Fresh(t) ==
    [t EXCEPT !.exists = TRUE, !.sndpending = <<>>, !.sndingitem = NoItem]

(* The items that are there when connect sets the socket up anew are gone. *)
Connect(t, change, c) ==
    LET u == IF t.exists THEN t ELSE [t EXCEPT !.state = "INITIAL"]
    IN  CASE u.state = "CONNECTED" /\ ~change -> t
          [] u.state = "CONNECTED" /\ change -> Fresh(LinkDisconnect(u))
          [] u.state # "CONNECTED" /\ LinkRefuses(u) -> t
          [] OTHER -> Fresh(LinkConnect(u, c))

Queue(t, i) == [t EXCEPT !.sndpending = Append(@, i)]

(* ins: the item is buffered though the link refuses to connect.  A link   *)
(* that refuses the item itself, in a voice call, loses it: true is        *)
(* returned all the same.                                                  *)
Send(t, ins, c) ==
    LET i == t.sent + 1
        u == [t EXCEPT !.sent = i]
    IN  IF ~t.exists \/ t.sent = MaxItems THEN t
        ELSE CASE t.state # "CONNECTED" /\ LinkRefuses(t) ->
                    IF ins THEN Queue(u, i) ELSE t
               [] t.state # "CONNECTED" /\ ~LinkRefuses(t) ->
                    Queue(LinkConnect(u, c), i)
               [] t.state = "CONNECTED" /\ t.sndingitem # NoItem -> Queue(u, i)
               [] t.state = "CONNECTED" /\ t.sndingitem = NoItem ->
                    IF LinkSends(t, c)
                    THEN Req([u EXCEPT !.sndingitem = i], "CIPSEND", i) ELSE u

Patient(t) == Buffered(t) = {}

(* A call that connects again while the link is still to be closed *)
Crosses(t, r) ==
    /\ r \in {"connect", "change", "send", "insert"} /\ t.state # "CONNECTED"
    /\ Cmd("CIPCLOSE", NoItem) \in ToSet(t.cmds) /\ "cross" \notin Habits

(* A call r of the program.  What it may not do is without effect.         *)
Call(t, r, c) ==
    CASE Crosses(t, r) -> t
      [] ~Crosses(t, r) /\ r \in {"connect", "change"}
            /\ (Patient(t) \/ t.state \in {"CONNECTING", "NIL_LINK"}
                           \/ "redo" \in Habits) -> Connect(t, r = "change", c)
      [] ~Crosses(t, r) /\ r = "send" /\ (~c \/ "call" \in Habits) -> Send(t, FALSE, c)
      [] ~Crosses(t, r) /\ r = "insert" /\ (~c \/ "call" \in Habits)
            /\ (t.state \notin {"CLOSING", "NIL_LINK"} \/ "close" \in Habits) -> Send(t, TRUE, c)
      [] r = "disconnect" /\ t.exists -> LinkDisconnect(t)
      [] r = "close" /\ t.exists /\ (Patient(t) \/ "close" \in Habits) ->
            LinkClose(t)
      [] OTHER -> t

Callable == {"connect", "change", "send", "insert", "disconnect", "close"}

----------------------------------------------------------------------------
(* The events of the link.  r: the program's reaction to rsp               *)

React(t, r) == Call(t, r, FALSE)

Tell(t, i, suc) ==
    IF i = NoItem THEN t
    ELSE [t EXCEPT !.told[i] = IF suc THEN "ok" ELSE "failed"]

(* All that wait are told that they have failed. *)
Flush(t) ==
    [t EXCEPT !.told = [i \in 1..MaxItems |->
                          IF i \in ToSet(t.sndpending) THEN "failed" ELSE @[i]],
              !.sndpending = <<>>]

(* slip: the items that wait are left to the reset of the buffer *)
ConAckForgets(t, suc, r) ==
    LET v == React(t, r)
    IN  IF suc THEN v ELSE [v EXCEPT !.sndpending = <<>>, !.sndingitem = NoItem]

(* conack and conrstpara: what the program sends when it is told that the  *)
(* connect failed is reset with the rest.                                  *)
ConAck(t, suc, r) ==
    LET u == IF suc THEN t ELSE Flush(t)
        v == React(u, IF ~suc /\ r \in {"send", "insert"}
                         /\ "answer" \notin Habits THEN "none" ELSE r)
    IN  IF suc THEN v ELSE [v EXCEPT !.sndpending = <<>>, !.sndingitem = NoItem]

SndAck(t, suc, r) ==
    LET u == React([Tell(t, t.sndingitem, suc) EXCEPT !.sndingitem = NoItem], r)
    IN  IF suc THEN u ELSE Flush(u)

(* slip: the next item waits for another call *)
SndNxtNever(t) == t

(* slip: an item that the program sent in rsp is not looked for *)
SndNxtUnchecked(t) ==
    IF t.sndpending # <<>> /\ LinkSends(t, FALSE)
    THEN Req([t EXCEPT !.sndingitem = Head(t.sndpending),
                       !.sndpending = Tail(@)], "CIPSEND", Head(t.sndpending))
    ELSE t

(* sndnxt, when an item waits and none is under way *)
SndNxt(t) ==
    IF t.sndpending # <<>> /\ t.sndingitem = NoItem /\ LinkSends(t, FALSE)
    THEN Req([t EXCEPT !.sndingitem = Head(t.sndpending),
                       !.sndpending = Tail(@)], "CIPSEND", Head(t.sndpending))
    ELSE t

(* statusind of link.lua, and the CONNECT and STATE events.  A connect is  *)
(* tried once: sckrsp gives up at the first failure, as for a send.        *)
StatusInd(t, v, r) ==
    LET suc == v = "CONNECT_OK"
        u == [t EXCEPT !.state = IF suc THEN "CONNECTED" ELSE "CLOSED"]
    IN  CASE t.state = "NIL_LINK" -> t
          [] t.state # "NIL_LINK" /\ (suc \/ t.state = "CONNECTING") ->
                IF suc THEN SndNxt(ConAck(u, TRUE, r)) ELSE ConAck(u, FALSE, r)
          [] OTHER -> React(IF v = "CLOSED" THEN Flush(u) ELSE u, r)

(* closecnf of link.lua, and the DISCONNECT and CLOSE events *)
CloseCnf(t, r) ==
    CASE t.state = "DISCONNECTING" -> React([t EXCEPT !.state = "CLOSED"], r)
      [] t.state = "CLOSING" ->
            [React([t EXCEPT !.state = "NIL_LINK"], r)
                EXCEPT !.exists = FALSE, !.sndpending = <<>>,
                       !.sndingitem = NoItem]
      [] OTHER -> t

(* shutcnf of link.lua: the network was shut *)
ShutCnf(t, r) ==
    IF t.state \in {"NIL_LINK", "INITIAL"} THEN t
    ELSE React([t EXCEPT !.state = "CLOSED"], r)

SendCnf(t, suc, r) == LET u == SndAck(t, suc, r) IN IF suc THEN SndNxt(u) ELSE u

----------------------------------------------------------------------------
(* Actions *)

(* A reaction counts as a call; one that has no effect is none.            *)
Reactions == IF calls < MaxCalls THEN Callable \union {"none"} ELSE {"none"}

Handle(r, t) == s' = t /\ calls' = IF r = "none" THEN calls ELSE calls + 1

Calls_ ==
    /\ calls < MaxCalls
    /\ \E r \in Callable, c \in BOOLEAN :
         LET t == Call(s, r, c) IN t # s /\ Handle(r, t)
    /\ UNCHANGED <<conn, events>>

LocalEvent ==
    /\ s.local
    /\ \E r \in Reactions :
         Handle(r, StatusInd([s EXCEPT !.local = FALSE], "CONNECT_FAIL", r))
    /\ UNCHANGED <<conn, events>>

(* Internal messages come before any other. *)
Idle == ~s.local

(* The modem answers its oldest command. *)
Answer ==
    /\ Idle /\ s.cmds # <<>>
    /\ LET c == Head(s.cmds)
           t == [s EXCEPT !.cmds = Tail(@)]
       IN \E r \in Reactions :
            \/ /\ c.verb = "CIPSTART" /\ conn = "free" /\ conn' = "opening"
               /\ r = "none" /\ Handle(r, t)
            \/ /\ c.verb = "CIPSTART" /\ UNCHANGED conn
               /\ Handle(r, StatusInd(t, "ERROR", r))
            \/ /\ c.verb = "CIPSEND" /\ conn = "open" /\ UNCHANGED conn
               /\ Handle(r, SendCnf([t EXCEPT !.taken[c.item] = TRUE], TRUE, r))
            \/ /\ c.verb = "CIPSEND" /\ UNCHANGED conn
               /\ Handle(r, SendCnf(t, FALSE, r))
            \/ /\ c.verb = "CIPCLOSE" /\ conn' = "free"
               /\ Handle(r, CloseCnf(t, r))
    /\ UNCHANGED events

Connects ==
    /\ Idle /\ conn = "opening"
    /\ \E r \in Reactions, ok \in BOOLEAN :
         /\ conn' = IF ok THEN "open" ELSE "free"
         /\ Handle(r, StatusInd(s, IF ok THEN "CONNECT_OK" ELSE "CONNECT_FAIL", r))
    /\ UNCHANGED events

PeerCloses ==
    /\ Idle /\ conn = "open" /\ conn' = "free"
    /\ events < MaxEvents /\ events' = events + 1
    /\ \E r \in Reactions : Handle(r, StatusInd(s, "CLOSED", r))

(* Link puts off the connects that are made while the network is shut.     *)
NetworkShuts ==
    /\ Idle /\ Cmd("CIPSTART", NoItem) \notin ToSet(s.cmds) /\ conn' = "free"
    /\ events < MaxEvents /\ events' = events + 1
    /\ \E r \in Reactions : Handle(r, ShutCnf(s, r))

Next ==
    Calls_ \/ LocalEvent \/ Answer \/ Connects \/ PeerCloses \/ NetworkShuts

Spec == Init /\ [][Next]_vars

(* The AT channel answers (QueuedIsServed of Ril), local events are        *)
(* handled, and the modem ends every attempt to connect.                   *)
FairSpec ==
    Spec /\ WF_vars(Answer) /\ WF_vars(LocalEvent) /\ WF_vars(Connects)

----------------------------------------------------------------------------
(* Properties *)

LinkStates == {"NIL_LINK", "INITIAL", "CONNECTING", "CONNECTED",
               "DISCONNECTING", "CLOSING", "CLOSED"}

(* The link is one of link.lua's, and exists as long as the socket.        *)
TypeOK ==
    /\ s.state \in LinkStates /\ s.exists \in BOOLEAN
    /\ s.exists = (s.state # "NIL_LINK")
    /\ s.sent \in 0..MaxItems /\ Buffered(s) \subseteq 1..s.sent
    /\ conn \in {"free", "opening", "open"}

Sending == {i \in 1..s.sent : Cmd("CIPSEND", i) \in ToSet(s.cmds)}

(* The item whose AT+CIPSEND has no answer is sndingitem, so that what the *)
(* answer says is told of it; and there is one at a time.                  *)
AnswerIsForItem ==
    /\ Cardinality(Sending) <= 1
    /\ Sending \subseteq {s.sndingitem}

(* An item that send has accepted is in the buffer until the program is    *)
(* told its result, through lost connections, failures and callbacks.      *)
NoneIsLost ==
    \A i \in 1..s.sent : s.told[i] = "no" => i \in Buffered(s)

(* The buffer holds what has no result yet, and the modem works on the     *)
(* item that its answer will be told of.                                   *)
Inv == TypeOK /\ AnswerIsForItem /\ NoneIsLost

(* The result of an item is told once, and is what the modem said of it.   *)
ResultIsTrue ==
    [][\A i \in 1..MaxItems :
         s'.told[i] # s.told[i] =>
             s.told[i] = "no" /\ (s'.told[i] = "ok" <=> s'.taken[i])]_vars

(* An accepted item gets its result, or waits for the program to connect   *)
(* again after the connection was ended without an error.                  *)
EverySendIsTold ==
    \A i \in 1..MaxItems :
        (s.sent >= i) ~>
            \/ s.told[i] # "no"
            \/ s.state = "CLOSED" /\ i \in ToSet(s.sndpending)
=============================================================================
