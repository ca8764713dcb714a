--------------------------------- MODULE Sms --------------------------------
(***************************************************************************)
(* Short messages (sms.lua).  Programs put messages in a buffer; the first *)
(* is sent, one AT command per part, and its result, put together from the *)
(* answers, comes back as a message of the script's own queue, after which *)
(* a timer sends the next.  New messages are reported by their position in *)
(* the SIM card, read one after the other, handed over and deleted.        *)
(*                                                                         *)
(* Nothing in the code ties an answer to a message but the order in which  *)
(* things happen: the results belong to the first of tsend and of tsmsnd,  *)
(* the message read to the first of tnewsms.  Habits names what programs   *)
(* and the network may do that the code is not proof against.              *)
(***************************************************************************)
EXTENDS Naturals, FiniteSets, Sequences, SequencesExt

CONSTANTS
    Positions,  \* of the SIM card
    Full,       \* SMS_SEND_BUF_MAX_CNT
    MaxParts,   \* bound: parts of a message
    MaxSends,   \* bound: messages that programs send
    MaxNews,    \* bound: messages that arrive
    Habits      \* a subset of {"first", "chain", "early", "again", "noread"}

ASSUME SmsAssumption ==
    /\ Full \in Nat \ {0} /\ MaxParts \in Nat \ {0}
    /\ MaxSends \in Nat /\ MaxNews \in Nat
    /\ Habits \subseteq {"first",   \* a message is put before one being sent
                         "chain",   \* a callback sends when the buffer is empty
                         "early",   \* ... or a program before SMS_READY is seen
                         "again",   \* SMS READY is reported twice
                         "noread"}  \* a message cannot be read

VARIABLES
    ready,    \* the modem can handle short messages
    tsmsnd,   \* messages to send: [id, cnt]
    tsend,    \* sendings under way: [sval, rval, flg], and id, the message
    timer,    \* sndnxt is due
    tnewsms,  \* positions of new messages
    reqs,     \* AT commands without an answer
    qmsg,     \* the script's own messages
    sim,      \* the message in each position of the SIM card, or 0
    log,      \* what happened to each message that programs sent
    arrived,  \* how many messages have arrived
    shown     \* those that the program has been given

sending == <<tsmsnd, tsend, timer, log>>
reading == <<tnewsms, sim, arrived, shown>>
vars == <<ready, sending, reading, reqs, qmsg>>

Init ==
    /\ ready = FALSE /\ timer = FALSE
    /\ tsmsnd = <<>> /\ tsend = <<>> /\ tnewsms = <<>>
    /\ reqs = <<>> /\ qmsg = <<>>
    /\ sim = [p \in Positions |-> 0]
    /\ log = <<>> /\ arrived = 0 /\ shown = <<>>

Dispatch(e) == qmsg' = Append(qmsg, e)

SmsReadyMsg == [kind |-> "SMS_READY"]

----------------------------------------------------------------------------
(* Sending *)

(* _send, of a message m, with lg the log of before *)
_send(m, lg) ==
    IF ready
    THEN /\ tsend' = Append(tsend,
                [sval |-> m.cnt, rval |-> 0, flg |-> TRUE, id |-> m.id])
         /\ reqs' = reqs \o [i \in 1..m.cnt |-> [op |-> "CMGS", id |-> m.id]]
         /\ log' = [lg EXCEPT ![m.id].sent = @ + 1]
    ELSE log' = lg /\ UNCHANGED <<tsend, reqs>>

InFlight == tsend # <<>> \/ \E i \in DOMAIN qmsg : qmsg[i].kind = "SMS_SEND_CNF"

(* What only a habit allows: a message in front of the one being sent, and *)
(* a message that finds the buffer empty while SMS_READY is on its way.    *)
MayInsert(idx) ==
    /\ (idx = 1 /\ InFlight) => "first" \in Habits
    /\ (ready /\ tsmsnd = <<>> /\ Contains(qmsg, SmsReadyMsg))
           => "early" \in Habits

NewMessage == [sent |-> 0, answers |-> 0, ok |-> TRUE, told |-> "no"]

HasRoom == Len(tsmsnd) < Full

(* slip: a message is sent at once when no other is under way *)
IsSentWhenIdle == tsend = <<>>
IsSentAtOnce == tsmsnd = <<>>

Send(cnt, idx) ==
    LET m == [id |-> Len(log) + 1, cnt |-> cnt]
        lg == Append(log, NewMessage)
    IN /\ Len(log) < MaxSends /\ HasRoom
       /\ idx \in 1..Len(tsmsnd) + 1 /\ MayInsert(idx)
       /\ tsmsnd' = InsertAt(tsmsnd, idx, m)
       /\ IF IsSentAtOnce THEN _send(m, lg)
                          ELSE log' = lg /\ UNCHANGED <<tsend, reqs>>
       /\ UNCHANGED <<ready, timer, reading, qmsg>>

(* sndnxt: of a timer, or of SMS_READY *)
SndNxt ==
    IF tsmsnd # <<>> THEN _send(Head(tsmsnd), log)
                     ELSE UNCHANGED <<tsend, reqs, log>>

Timer ==
    /\ timer /\ timer' = FALSE /\ SndNxt
    /\ UNCHANGED <<ready, tsmsnd, reading, qmsg>>

(* slip: a failure is forgotten when a later part succeeds *)
AnsweredLast(t, ok) == [t EXCEPT !.rval = @ + 1, !.flg = ok]
Answered(t, ok) == [t EXCEPT !.rval = @ + 1, !.flg = @ /\ ok]

(* The answer to one AT+CMGS, of the message id: rsp has only tsend.       *)
RspCmgs(id, ok) ==
    LET t == Answered(Head(tsend), ok)
    IN /\ log' = [log EXCEPT ![id].answers = @ + 1, ![id].ok = @ /\ ok]
       /\ IF t.rval = t.sval
          THEN /\ tsend' = Tail(tsend)
               /\ Dispatch([kind |-> "SMS_SEND_CNF", result |-> t.flg])
          ELSE tsend' = [tsend EXCEPT ![1] = t] /\ UNCHANGED qmsg
       /\ UNCHANGED <<tsmsnd, timer, reading>>

(* slip: the last message of the buffer waits for another *)
NextIsDueLate(t) == Len(t) > 1
NextIsDue(t) == t # <<>>

(* The callback of the message that is first in the buffer is called; it   *)
(* may send another, at the end of the buffer.                             *)
SendCnf(e, chained, cnt) ==
    LET next == [id |-> Len(log) + 1, cnt |-> cnt]
        told == [log EXCEPT ![Head(tsmsnd).id].told =
                     IF e.result THEN "ok" ELSE "error"]
        lg == IF chained THEN Append(told, NewMessage) ELSE told
        empty == Len(tsmsnd) = 1
    IN /\ e.kind = "SMS_SEND_CNF" /\ tsmsnd # <<>>
       /\ chained => Len(log) < MaxSends /\ (empty => "chain" \in Habits)
       /\ tsmsnd' = Tail(tsmsnd) \o (IF chained THEN <<next>> ELSE <<>>)
       /\ IF chained /\ empty THEN _send(next, lg)
                              ELSE log' = lg /\ UNCHANGED <<tsend, reqs>>
       /\ timer' = (timer \/ NextIsDue(tsmsnd'))
       /\ UNCHANGED reading

----------------------------------------------------------------------------
(* Reading *)

Request(op, p) == [op |-> op, pos |-> p]

(* slip: off by one, the only message of the list is not read *)
ReadFirstOfMany(t) ==
    IF Len(t) > 1 /\ ready THEN <<Request("CMGR", Head(t))>> ELSE <<>>

(* readsms with the list t: a read of its first position, once ready *)
ReadFirst(t) ==
    IF t # <<>> /\ ready THEN <<Request("CMGR", Head(t))>> ELSE <<>>

NewSms(e) ==
    /\ e.kind = "SMS_NEW_MSG_IND"
    /\ tnewsms' = Append(tnewsms, e.pos)
    /\ reqs' = reqs \o (IF tnewsms = <<>> THEN ReadFirst(tnewsms') ELSE <<>>)
    /\ UNCHANGED <<sending, sim, arrived, shown>>

ReadCnf(e) ==
    /\ e.kind = "SMS_READ_CNF"
    /\ tnewsms' = Tail(tnewsms) /\ shown' = Append(shown, e.data)
    /\ reqs' = reqs \o <<Request("CMGD", Head(tnewsms))>> \o ReadFirst(tnewsms')
    /\ UNCHANGED <<sending, sim, arrived>>

(* A failure to read is told to nobody. *)
RspCmgr(p, ok) ==
    /\ ok \/ "noread" \in Habits
    /\ IF ok THEN Dispatch([kind |-> "SMS_READ_CNF", data |-> sim[p]])
             ELSE UNCHANGED qmsg
    /\ UNCHANGED <<sending, reading>>

RspCmgd(p) ==
    /\ sim' = [sim EXCEPT ![p] = 0]
    /\ UNCHANGED <<sending, tnewsms, arrived, shown, qmsg>>

----------------------------------------------------------------------------
(* What comes from the modem, and the loop of the script *)

(* urc; AT+CMGF and AT+CSCS are left out, as nothing depends on them.      *)
SmsReady ==
    /\ (ready => "again" \in Habits /\ ~Contains(qmsg, SmsReadyMsg))
    /\ ready' = TRUE /\ Dispatch(SmsReadyMsg)
    /\ UNCHANGED <<sending, reading, reqs>>

Cmti(p) ==
    /\ ready /\ arrived < MaxNews /\ sim[p] = 0
    /\ arrived' = arrived + 1 /\ sim' = [sim EXCEPT ![p] = arrived + 1]
    /\ Dispatch([kind |-> "SMS_NEW_MSG_IND", pos |-> p])
    /\ UNCHANGED <<ready, sending, tnewsms, shown, reqs>>

Rsp(ok) ==
    /\ reqs # <<>> /\ reqs' = Tail(reqs) /\ UNCHANGED ready
    /\ LET r == Head(reqs) IN
         \/ r.op = "CMGS" /\ RspCmgs(r.id, ok)
         \/ r.op = "CMGR" /\ RspCmgr(r.pos, ok)
         \/ r.op = "CMGD" /\ ok /\ RspCmgd(r.pos)

(* runqmsg hands the first message to smsapp. *)
RunQmsg ==
    /\ qmsg # <<>> /\ qmsg' = Tail(qmsg) /\ UNCHANGED ready
    /\ LET e == Head(qmsg) IN
         \/ e.kind = "SMS_READY" /\ SndNxt /\ UNCHANGED <<tsmsnd, timer, reading>>
         \/ NewSms(e)
         \/ ReadCnf(e)
         \/ \E chained \in BOOLEAN, cnt \in 1..MaxParts :
                SendCnf(e, chained, cnt)

Next ==
    \/ \E cnt \in 1..MaxParts, idx \in 1..Full : Send(cnt, idx)
    \/ Timer \/ SmsReady \/ RunQmsg
    \/ \E ok \in BOOLEAN : Rsp(ok)
    \/ \E p \in Positions : Cmti(p)

Spec == Init /\ [][Next]_vars

(* Commands are answered, messages handled, timers expire; the modem gets  *)
(* ready.                                                                  *)
FairSpec ==
    /\ Spec /\ WF_vars(Timer) /\ WF_vars(RunQmsg)
    /\ WF_vars(\E ok \in BOOLEAN : Rsp(ok)) /\ WF_vars(~ready /\ SmsReady)

----------------------------------------------------------------------------
(* Properties *)

Range_(f) == {f[i] : i \in DOMAIN f}

TypeOK ==
    /\ ready \in BOOLEAN /\ timer \in BOOLEAN
    /\ tsmsnd \in Seq([id : 1..MaxSends, cnt : 1..MaxParts])
    /\ Len(tsmsnd) <= Full
    /\ \A i \in DOMAIN tsend :
         tsend[i].id \in 1..MaxSends /\ tsend[i].rval < tsend[i].sval
    /\ tnewsms \in Seq(Positions)
    /\ sim \in [Positions -> 0..MaxNews]
    /\ Len(log) <= MaxSends /\ arrived \in 0..MaxNews
    /\ shown \in Seq(0..MaxNews)

Confirmations == {i \in DOMAIN qmsg : qmsg[i].kind = "SMS_SEND_CNF"}

(* One message at a time is under way, from _send to sendcnf, and it is    *)
(* the first of the buffer: sendcnf removes the first, whatever it is, and *)
(* fails when there is none.                                               *)
OneIsSent ==
    /\ Len(tsend) + Cardinality(Confirmations) <= 1
    /\ InFlight => /\ tsmsnd # <<>> /\ ~timer
                   /\ log[Head(tsmsnd).id].sent = 1
    /\ tsend # <<>> => tsend[1].id = Head(tsmsnd).id

(* A message is told a result once, when all of its parts were answered,   *)
(* and the result is whether all of them were sent.                        *)
ResultIsOwn ==
    [][\A i \in DOMAIN log :
         log'[i].told # log[i].told =>
           /\ log[i].told = "no" /\ log[i].sent = 1
           /\ \A m \in Range_(tsmsnd) : m.id = i => log[i].answers = m.cnt
           /\ (log'[i].told = "ok") = log[i].ok]_vars

(* Messages that arrive are given to the program in their order, none      *)
(* twice, and none is deleted before.                                      *)
NewInOrder ==
    /\ shown = [i \in DOMAIN shown |-> i]
    /\ \A i \in 1..arrived : i \in Range_(shown) \/ i \in Range_(sim)

(* The first of the buffer is the message under way, and arriving messages *)
(* go from the SIM to the program in order.                                *)
Inv == TypeOK /\ OneIsSent /\ NewInOrder

(* Every message that a program was allowed to send gets its result.       *)
EverySendIsTold ==
    \A i \in 1..MaxSends :
        (Len(log) >= i) ~> (Len(log) >= i /\ log[i].told # "no")

(* Every message that arrives is given to the program. *)
NewIsShown == \A i \in 1..MaxNews : (arrived >= i) ~> (Len(shown) >= i)
=============================================================================
