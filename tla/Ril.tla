-------------------------------- MODULE Ril --------------------------------
(***************************************************************************)
(* The AT command channel, script/new/lib/ril.lua.                         *)
(*                                                                         *)
(* Lua runs one message handler at a time, so a handler is one step; the   *)
(* exception is atcreader, which reads lines in a loop while the modem,    *)
(* another task, goes on writing them: each line it takes is a step, and   *)
(* readat holds from its first step to its last.  Between readat and the   *)
(* end of the loop no other Lua handler runs.                              *)
(*                                                                         *)
(* The modem is external.  It executes one command at a time; the lines it *)
(* sends are abstracted to what procatc tells apart.  Its multi-line       *)
(* answers, and a received payload with its header, are not interrupted by *)
(* other lines, and it may leave any command unanswered.  With ClosedUrc   *)
(* it may report that the peer closed a connection while CIPCLOSE for the  *)
(* same connection is on its way.                                          *)
(***************************************************************************)
EXTENDS Naturals, Sequences

CONSTANTS
    Last,       \* bound: requests per boot, the two boot commands included
    MaxRx,      \* bound: lines waiting in the virtual UART
    MaxUrc,     \* bound: unsolicited lines per boot
    MaxPayload, \* bound: lines of one received payload
    ClosedUrc   \* the modem may send "n, CLOSED" while CIPCLOSE=n is pending

ASSUME RilAssumption ==
    /\ Last \in Nat /\ Last >= 2
    /\ MaxRx \in Nat /\ MaxUrc \in Nat /\ MaxPayload \in Nat
    /\ ClosedUrc \in BOOLEAN

VARIABLES
    radioready,      \* the modem has said RDY
    delaying,        \* the delayfunc timer runs, nothing may be issued
    cmdqueue,        \* commands requested and not yet issued
    currcmd,         \* the command in execution, or NoCmd
    interdata,       \* intermediate data of currcmd has been seen
    urcfilter,       \* payload lines that the URC filter still expects
    readat,          \* atcreader is in its loop
    transparentmode, \* the channel is a transparent pipe
    atimer,          \* the response time-out is running
    nreq,            \* requests so far: a request is named by its number
    rx,              \* lines from the modem, not read yet
    wake,            \* "atc" messages that wait in the message queue
    wire,            \* commands written to the modem, not yet answered
    booted,          \* the modem has sent RDY
    nurc             \* unsolicited lines so far

lua == <<radioready, delaying, cmdqueue, currcmd, interdata, urcfilter,
         readat, transparentmode, atimer, nreq>>
modem == <<wire, booted, nurc>>
uart == <<rx, wake>>
vars == <<lua, uart, modem>>

(* How procatc will treat the response: "bad" commands are refused by      *)
(* getcmd; "plain" is NORESULT; "info" is SLINE, NUMBERIC or STRING;       *)
(* "multi" is MLINE; "sms" (CMGS) and "send" (CIPSEND) take an argument    *)
(* after a prompt; "send" and "close" (CIPCLOSE, CIFSR, the SSL commands)  *)
(* end with a result line of their own.                                    *)
Kinds == {"bad", "plain", "info", "multi", "sms", "send", "close"}

Item == [n : 1..Last, kind : Kinds, delay : BOOLEAN]

NoCmd == [n |-> 0, kind |-> "none", delay |-> FALSE]

Boot == << [n |-> 1, kind |-> "plain", delay |-> FALSE],
           [n |-> 2, kind |-> "plain", delay |-> FALSE] >>

Tags == {"RDY", "OK", "ERROR", "PROMPT", "INFO", "BODY", "RESULT",
         "CLOSED", "URC", "RECEIVE", "PAYLOAD"}

(* arg: the command answered, or the length of the payload that follows.   *)
Line == [tag : Tags, arg : Nat]
Ln(t, a) == [tag |-> t, arg |-> a]

Sent == [n : 1..Last, kind : Kinds, phase : {"cmd", "info", "prompt", "arg"}]

Init ==
    /\ radioready = FALSE /\ delaying = FALSE
    /\ cmdqueue = Boot /\ currcmd = NoCmd
    /\ interdata = FALSE /\ urcfilter = 0
    /\ readat = FALSE /\ transparentmode = FALSE /\ atimer = FALSE
    /\ nreq = Len(Boot)
    /\ rx = <<>> /\ wake = 0 /\ wire = <<>> /\ booted = FALSE /\ nurc = 0

----------------------------------------------------------------------------
(* Issuing commands *)

FirstGood(q, k) ==
    /\ k \in 1..Len(q)
    /\ q[k].kind # "bad"
    /\ \A i \in 1..(k - 1) : q[i].kind = "bad"

BlockedNotByCommand(reading, waiting) == ~radioready \/ reading \/ waiting

BlockedNotByDelay(reading, waiting) ==
    ~radioready \/ reading \/ currcmd # NoCmd

Blocked(reading, waiting) ==
    ~radioready \/ reading \/ currcmd # NoCmd \/ waiting

(* A delayed command goes back to the head of the queue, without its delay *)
PutBackLast(item, q) == Append(q, [item EXCEPT !.delay = FALSE])

PutBack(item, q) == <<[item EXCEPT !.delay = FALSE]>> \o q

(* sendat with queue q, at a point where readat and delaying have the      *)
(* given values: commands getcmd refuses are skipped, a command with a     *)
(* delay is put back at the head and the timer is started, any other       *)
(* command is written to the modem.                                        *)
SendAt(q, reading, waiting) ==
    \/ /\ \/ Blocked(reading, waiting)
          \/ q = <<>>
       /\ cmdqueue' = q /\ delaying' = waiting
       /\ UNCHANGED <<currcmd, atimer, wire>>
    \/ /\ ~Blocked(reading, waiting)
       /\ q # <<>> /\ \A i \in 1..Len(q) : q[i].kind = "bad"
       /\ cmdqueue' = <<>> /\ delaying' = waiting
       /\ UNCHANGED <<currcmd, atimer, wire>>
    \/ /\ ~Blocked(reading, waiting)
       /\ \E k \in 1..Len(q) :
            /\ FirstGood(q, k)
            /\ q[k].delay
            /\ cmdqueue' = PutBack(q[k], SubSeq(q, k + 1, Len(q)))
            /\ delaying' = TRUE
       /\ UNCHANGED <<currcmd, atimer, wire>>
    \/ /\ ~Blocked(reading, waiting)
       /\ \E k \in 1..Len(q) :
            /\ FirstGood(q, k)
            /\ ~q[k].delay
            /\ cmdqueue' = SubSeq(q, k + 1, Len(q))
            /\ currcmd' = q[k]
            /\ wire' = Append(wire, [n |-> q[k].n, kind |-> q[k].kind,
                                     phase |-> "cmd"])
       /\ delaying' = waiting /\ atimer' = TRUE

NewItem(k, d) == [n |-> nreq + 1, kind |-> k, delay |-> d]

(* request, called between messages: a timer or another module's handler *)
Request ==
    /\ ~readat /\ nreq < Last /\ ~transparentmode
    /\ nreq' = nreq + 1
    /\ \E k \in Kinds, d \in BOOLEAN :
         SendAt(Append(cmdqueue, NewItem(k, d)), readat, delaying)
    /\ UNCHANGED <<radioready, interdata, urcfilter, readat,
                   transparentmode, uart, booted, nurc>>

(* request, called by a handler that atcreader runs: sendat does nothing,  *)
(* because readat is set                                                   *)
CallbackRequest ==
    \/ UNCHANGED <<cmdqueue, nreq>>
    \/ /\ nreq < Last /\ nreq' = nreq + 1
       /\ \E k \in Kinds, d \in BOOLEAN :
            cmdqueue' = Append(cmdqueue, NewItem(k, d))

DelayFuncForgets ==
    /\ delaying /\ ~readat
    /\ delaying' = FALSE
    /\ UNCHANGED <<radioready, cmdqueue, currcmd, interdata, urcfilter,
                   readat, transparentmode, atimer, nreq, uart, modem>>

DelayFunc ==
    /\ delaying /\ ~readat
    /\ SendAt(cmdqueue, readat, FALSE)
    /\ UNCHANGED <<radioready, interdata, urcfilter, readat,
                   transparentmode, nreq, uart, booted, nurc>>

(* setransparentmode is for start-up only *)
SetTransparentMode ==
    /\ ~radioready /\ ~readat /\ ~transparentmode /\ nreq = Len(Boot)
    /\ transparentmode' = TRUE
    /\ UNCHANGED <<radioready, delaying, cmdqueue, currcmd, interdata,
                   urcfilter, readat, atimer, nreq, uart, modem>>

----------------------------------------------------------------------------
(* atcreader and procatc *)

AtcBegin ==
    /\ wake > 0 /\ ~readat /\ ~transparentmode
    /\ wake' = wake - 1
    /\ readat' = TRUE
    /\ UNCHANGED <<radioready, delaying, cmdqueue, currcmd, interdata,
                   urcfilter, transparentmode, atimer, nreq, rx, modem>>

AtcEndEarly ==
    /\ readat /\ readat' = FALSE
    /\ SendAt(cmdqueue, FALSE, delaying)
    /\ UNCHANGED <<radioready, interdata, urcfilter, transparentmode,
                   nreq, uart, booted, nurc>>

AtcEndForgets ==
    /\ readat /\ rx = <<>>
    /\ readat' = FALSE
    /\ UNCHANGED <<radioready, delaying, cmdqueue, currcmd, interdata,
                   urcfilter, transparentmode, atimer, nreq, uart, modem>>

AtcEnd ==
    /\ readat /\ rx = <<>>
    /\ readat' = FALSE
    /\ SendAt(cmdqueue, FALSE, delaying)
    /\ UNCHANGED <<radioready, interdata, urcfilter, transparentmode,
                   nreq, uart, booted, nurc>>

(* transparent mode: every line goes to rcvfunc *)
AtcTransparent ==
    /\ wake > 0 /\ transparentmode
    /\ wake' = wake - 1
    /\ rx' = <<>>
    /\ UNCHANGED <<lua, modem>>

Swallows == interdata /\ currcmd.kind = "multi" /\ Head(rx).tag # "OK"

(* procatc reaches the dispatch on the text of the line *)
Dispatches == urcfilter = 0 /\ ~Swallows

TakeLine ==
    /\ readat /\ rx # <<>>
    /\ rx' = Tail(rx)
    /\ UNCHANGED <<readat, delaying, transparentmode, wake, booted, nurc>>

(* another line of a multi-line answer *)
LineSwallowed ==
    /\ TakeLine /\ Swallows
    /\ UNCHANGED <<radioready, cmdqueue, currcmd, interdata, urcfilter,
                   atimer, nreq, wire>>

(* a line of a received payload *)
LineFiltered ==
    /\ TakeLine /\ ~Swallows /\ urcfilter > 0
    /\ urcfilter' = urcfilter - 1
    /\ UNCHANGED <<radioready, cmdqueue, currcmd, interdata, atimer, nreq,
                   wire>>

(* Only these tags can be read by procatc as part of currcmd's response.   *)
(* An unsolicited line may look like the line of an SLINE, NUMBERIC or     *)
(* STRING answer, and an answer line that does not fit is a URC.           *)
Fits(tag) ==
    \/ currcmd.kind = "info" /\ tag \in {"INFO", "URC"}
    \/ currcmd.kind \in {"multi", "sms"} /\ tag = "INFO" /\ ~interdata

(* "CLOSED" begins with "CLOSE", as the result of CIPCLOSE does. *)
IsResult(tag) ==
    \/ currcmd.kind \in {"send", "close"} /\ tag = "RESULT"
    \/ currcmd.kind = "close" /\ tag = "CLOSED"

IsUrc(tag) ==
    \/ currcmd = NoCmd
    \/ tag \in {"RDY", "URC", "RECEIVE", "PAYLOAD", "BODY"}
    \/ tag = "INFO" /\ (~Fits("INFO") \/ interdata)
    \/ tag \in {"RESULT", "CLOSED"} /\ ~IsResult(tag)

(* the filter that the handler of a URC returns *)
FilterTooShort(line) == IF line.tag = "RECEIVE" THEN line.arg - 1 ELSE 0

FilterOf(line) == IF line.tag = "RECEIVE" THEN line.arg ELSE 0

(* urc: RDY opens the channel, a +RECEIVE header installs the filter, any  *)
(* other handler may make a request                                        *)
LineUrc ==
    /\ TakeLine /\ Dispatches /\ IsUrc(Head(rx).tag)
    /\ radioready' = (radioready \/ Head(rx).tag = "RDY")
    /\ urcfilter' = FilterOf(Head(rx))
    /\ IF Head(rx).tag = "RDY" THEN UNCHANGED <<cmdqueue, nreq>>
                               ELSE CallbackRequest
    /\ UNCHANGED <<currcmd, interdata, atimer, wire>>

LineInfo ==
    /\ TakeLine /\ Dispatches /\ currcmd # NoCmd
    /\ Fits(Head(rx).tag)
    /\ interdata' = TRUE
    /\ UNCHANGED <<radioready, cmdqueue, currcmd, urcfilter, atimer, nreq,
                   wire>>

(* the argument of the command follows its prompt *)
LinePrompt ==
    /\ TakeLine /\ Dispatches /\ currcmd # NoCmd
    /\ Head(rx).tag = "PROMPT"
    /\ wire' = IF currcmd.kind \in {"sms", "send"}
               THEN [i \in DOMAIN wire |-> [wire[i] EXCEPT !.phase = "arg"]]
               ELSE wire
    /\ UNCHANGED <<radioready, cmdqueue, currcmd, interdata, urcfilter,
                   atimer, nreq>>

(* rsp: stops the time-out and forgets the command and its data *)
Respond == atimer' = FALSE /\ currcmd' = NoCmd /\ interdata' = FALSE

(* The response is complete; its handler may make a request. *)
LineFinal ==
    /\ TakeLine /\ Dispatches /\ currcmd # NoCmd
    /\ Head(rx).tag \in {"OK", "ERROR"} \/ IsResult(Head(rx).tag)
    /\ Respond
    /\ CallbackRequest
    /\ UNCHANGED <<radioready, urcfilter, wire>>

ReadLine ==
    \/ LineSwallowed \/ LineFiltered \/ LineUrc \/ LineInfo
    \/ LinePrompt \/ LineFinal

(* atimeout: no answer in TIMEOUT ms, sys.restart restarts the system *)
Atimeout ==
    /\ atimer /\ ~readat
    /\ radioready' = FALSE /\ delaying' = FALSE
    /\ cmdqueue' = Boot /\ currcmd' = NoCmd
    /\ interdata' = FALSE /\ urcfilter' = 0
    /\ readat' = FALSE /\ transparentmode' = FALSE /\ atimer' = FALSE
    /\ nreq' = Len(Boot)
    /\ rx' = <<>> /\ wake' = 0 /\ wire' = <<>> /\ booted' = FALSE /\ nurc' = 0

----------------------------------------------------------------------------
(* The modem.  A line that finds the virtual UART empty sends an "atc"     *)
(* message to the Lua task.                                                *)

Say(lines) ==
    /\ Len(rx) + Len(lines) <= MaxRx
    /\ rx' = rx \o lines
    /\ wake' = IF rx = <<>> THEN wake + 1 ELSE wake
    /\ UNCHANGED lua

ModemReady ==
    /\ ~booted /\ booted' = TRUE
    /\ Say(<<Ln("RDY", 0)>>)
    /\ UNCHANGED <<wire, nurc>>

ModemUrc ==
    /\ nurc < MaxUrc /\ nurc' = nurc + 1
    /\ \/ Say(<<Ln("URC", 0)>>)
       \/ ClosedUrc /\ Say(<<Ln("CLOSED", 0)>>)
       \/ \E k \in 1..MaxPayload :
            Say(<<Ln("RECEIVE", k)>>
                \o [i \in 1..k |-> Ln("PAYLOAD", 0)])
    /\ UNCHANGED <<wire, booted>>

(* what may precede the end of the response of command c *)
ModemPrepares ==
    /\ wire # <<>>
    /\ LET c == Head(wire)
           To(phase) == wire' = <<[c EXCEPT !.phase = phase]>> \o Tail(wire)
       IN  \/ /\ c.kind = "info" /\ c.phase = "cmd"
              /\ Say(<<Ln("INFO", c.n)>>) /\ To("info")
           \/ /\ c.kind \in {"sms", "send"} /\ c.phase = "cmd"
              /\ Say(<<Ln("PROMPT", c.n)>>) /\ To("prompt")
    /\ UNCHANGED <<booted, nurc>>

Answers(c) ==
    IF c.phase = "prompt" THEN {}
    ELSE {<<Ln("ERROR", c.n)>>} \union
         CASE c.kind = "multi" ->
                {<<Ln("OK", c.n)>>,
                 <<Ln("INFO", c.n), Ln("BODY", c.n), Ln("OK", c.n)>>}
           [] c.kind = "sms" /\ c.phase = "cmd" -> {}
           [] c.kind = "sms" /\ c.phase = "arg" ->
                {<<Ln("INFO", c.n), Ln("OK", c.n)>>}
           [] c.kind = "send" /\ c.phase = "cmd" -> {}
           [] c.kind = "send" /\ c.phase = "arg" -> {<<Ln("RESULT", c.n)>>}
           [] c.kind = "close" -> {<<Ln("RESULT", c.n)>>}
           [] OTHER -> {<<Ln("OK", c.n)>>}

ModemAnswers ==
    /\ wire # <<>>
    /\ \E a \in Answers(Head(wire)) : Say(a)
    /\ wire' = Tail(wire)
    /\ UNCHANGED <<booted, nurc>>

Next ==
    \/ Request \/ DelayFunc \/ SetTransparentMode
    \/ AtcBegin \/ AtcEnd \/ AtcTransparent \/ ReadLine
    \/ Atimeout
    \/ ModemReady \/ ModemUrc \/ ModemPrepares \/ ModemAnswers

Spec == Init /\ [][Next]_vars

(* Every message in the queue of the Lua task is handled in its turn; the  *)
(* reader loop goes on while there are lines; both timers expire if they   *)
(* are left running; the modem starts.  The modem need not answer.         *)
Fairness ==
    /\ WF_vars(AtcBegin) /\ WF_vars(AtcEnd) /\ WF_vars(AtcTransparent)
    /\ WF_vars(ReadLine)
    /\ WF_vars(DelayFunc) /\ WF_vars(Atimeout)
    /\ WF_vars(ModemReady)

FairSpec == Spec /\ Fairness

----------------------------------------------------------------------------
(* Properties *)

(* Types: every variable of the channel keeps the values the code gives it *)
TypeOK ==
    /\ radioready \in BOOLEAN /\ delaying \in BOOLEAN
    /\ cmdqueue \in Seq(Item) /\ currcmd \in Item \union {NoCmd}
    /\ interdata \in BOOLEAN /\ urcfilter \in Nat
    /\ readat \in BOOLEAN /\ transparentmode \in BOOLEAN
    /\ atimer \in BOOLEAN
    /\ nreq \in 2..Last
    /\ rx \in Seq(Line) /\ wake \in Nat
    /\ wire \in Seq(Sent) /\ booted \in BOOLEAN /\ nurc \in Nat

(* Commands are executed in the order of their requests, and none twice:   *)
(* what is in execution is older than everything queued, also after a      *)
(* delayed command was put back.                                           *)
InOrder ==
    /\ \A i, j \in 1..Len(cmdqueue) :
         i < j => cmdqueue[i].n < cmdqueue[j].n
    /\ \A i \in 1..Len(cmdqueue) :
         /\ currcmd.n < cmdqueue[i].n
         /\ cmdqueue[i].n <= nreq

IsAnswer(line) == line.tag \in {"OK", "ERROR", "RESULT"}

(* The answers on their way to procatc *)
Answered == {i \in 1..Len(rx) : IsAnswer(rx[i])}

(* The channel and the modem agree on the command in execution: as long as *)
(* there is one, either the modem still has it or its one answer is still  *)
(* to be read; otherwise the modem has no command and no answer is under   *)
(* way.  So no answer is taken for that of another command, and none is    *)
(* swallowed as part of a multi-line answer or of a payload.               *)
OneInFlight ==
    /\ \/ currcmd = NoCmd /\ wire = <<>> /\ Answered = {}
       \/ currcmd # NoCmd /\ Len(wire) = 1 /\ Answered = {}
       \/ currcmd # NoCmd /\ wire = <<>> /\ \E i \in Answered : Answered = {i}
    /\ \A i \in 1..Len(wire) : wire[i].n = currcmd.n
    /\ \A i \in Answered : rx[i].arg = currcmd.n

(* A command in execution is guarded by the response time-out, and the     *)
(* time-out never restarts a system in which nothing is in execution.      *)
TimerGuardsCommand == atimer <=> currcmd # NoCmd

(* The lines of a received payload, and no others, go to the filter that   *)
(* the header installed: payload is never parsed as an answer.             *)
PayloadIsFiltered ==
    ~transparentmode /\ rx # <<>> =>
        (urcfilter > 0 <=> Head(rx).tag = "PAYLOAD")

(* Between messages a ready channel with commands waiting is executing one *)
(* or is inside the delay of the first: no request is forgotten.           *)
NoStall ==
    radioready /\ ~readat /\ cmdqueue # <<>> => currcmd # NoCmd \/ delaying

(* The delay is that of the oldest command: nothing runs during it, and    *)
(* its expiry issues a command that has no delay left.                     *)
DelayIsForHead ==
    delaying =>
        /\ currcmd = NoCmd /\ cmdqueue # <<>>
        /\ Head(cmdqueue).kind # "bad" /\ ~Head(cmdqueue).delay

(* The timers of the channel and the queue agree: no command hangs, no     *)
(* idle system is restarted, no request is forgotten, and a delay holds up *)
(* only its own command.                                                   *)
Inv == TypeOK /\ TimerGuardsCommand /\ NoStall /\ DelayIsForHead

(* Lines that wait outside the reader loop have a message on the way: the  *)
(* UART sends one only when its queue was empty.                           *)
NoLostWakeup == rx # <<>> /\ ~readat => wake > 0

Queued(k) == \E i \in 1..Len(cmdqueue) : cmdqueue[i].n = k

(* With a modem that is up, every queued command is eventually executed,   *)
(* refused, or lost in a restart, although the modem may never answer.     *)
QueuedIsServed ==
    \A k \in 1..Last : (Queued(k) /\ radioready) ~> ~(Queued(k) /\ radioready)

(* The channel implements AtChannel: the malformed commands are never in   *)
(* its queue, and the command in execution is its current command.         *)
Tickets(q) ==
    LET good[i \in 0..Len(q)] ==
          IF i = 0 THEN <<>>
          ELSE IF q[i].kind = "bad" THEN good[i - 1]
          ELSE Append(good[i - 1], q[i].n)
    IN  good[Len(q)]

Channel == INSTANCE AtChannel
    WITH Boot <- <<1, 2>>,
         queue <- Tickets(cmdqueue),
         current <- IF currcmd = NoCmd THEN <<>> ELSE <<currcmd.n>>,
         ticket <- nreq

ImplementsChannel == Channel!Spec
============================================================================
