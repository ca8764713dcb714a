----------------------------- MODULE LinkProofs -----------------------------
(***************************************************************************)
(* Proofs about the sockets above the AT channel, for any number of        *)
(* sockets, calls, events and holders.                                     *)
(*                                                                         *)
(* A handler of link.lua is a chain of functions on the record l, some of  *)
(* them after an answer has been taken and before the command in execution *)
(* is forgotten.  So the invariant is a predicate Fits(s, x, c) of a       *)
(* record s, of the command x that is still to be answered and of the one, *)
(* c, that the record says is in execution.                                *)
(*                                                                         *)
(* What the sockets say of the modem rests on more: RealInv follows each   *)
(* answer and each line that ends a connection from the modem to the       *)
(* reader.  And that a connect which waits for the network is not          *)
(* forgotten rests on what is under way for the network: NetInv says of    *)
(* every state of the network which command, answer or timer leads on.     *)
(***************************************************************************)
EXTENDS Link, SequenceTheorems, WellFoundedInduction, TLAPS

(* The commands that are about one socket; the others have no number. *)
SocketVerbs == {"CIPSTART", "CIPSEND", "CIPCLOSE"}
Command ==
    {c \in [verb : Verbs, id : LinkIds] : c.verb \in SocketVerbs \/ c.id = 0}
LocalEvents == {"CONNECT_FAIL", "DISCONNECT"} \X LinkIds

LinkRecord == [
    state : [LinkIds -> LinkStates], pending : [LinkIds -> BOOLEAN],
    guard : [LinkIds -> BOOLEAN], ip : IpStates, shuting : BOOLEAN,
    cgatt : BOOLEAN, flymode : BOOLEAN, holders : SUBSET Holders,
    shutpending : BOOLEAN, tsetup : BOOLEAN, tstatus : BOOLEAN,
    tciicr : BOOLEAN, local : Seq(LocalEvents), queue : Seq(Command),
    curr : Command \union {NoCmd} ]

Line ==
    {a \in [t : {"ANS", "LINK", "STATE", "PDP"}, id : LinkIds,
            v : IpStates \union
                {"OK", "ERROR", "SEND_OK", "SEND_FAIL", "CLOSE_OK", "SHUT_OK",
                 "CONNECT_OK", "CONNECT_FAIL", "CLOSED", "PDP_DEACT"}] :
        /\ a.t = "ANS" => a.v \in {"OK", "ERROR", "SHUT_OK", "PDP_DEACT"}
        /\ a.t = "LINK" => a.v \in {"SEND_OK", "SEND_FAIL", "CLOSE_OK",
                                   "CONNECT_OK", "CONNECT_FAIL", "CLOSED"}
        /\ a.t = "STATE" => a.v \in IpStates
        /\ a.t = "PDP" => a.v = "PDP_DEACT" }

(* Nothing happens that the module is not proof against. *)
Careful == Habits \subseteq {"deact"}

(* No owner connects while it is told of an event. *)
Patient == Reactions \intersect {"connect", "call"} = {}

(* Command e is in the queue q or is x, the one to be answered.            *)
Waits(q, x, e) == x = e \/ Has(q, e)

(* Behind the AT+CIPCLOSE of a socket there is no AT+CIPSEND of it.        *)
Ordered(q, x, i) ==
    LET close == Cmd("CIPCLOSE", i)
        send  == Cmd("CIPSEND", i)
    IN  /\ x = close => ~Has(q, send)
        /\ \A j, k \in 1..Len(q) : j < k /\ q[j] = close => q[k] # send

(* What a state of socket i promises *)
CloseFits(v, q, lo, x, i) ==
    v \in {"DISCONNECTING", "CLOSING"} =>
        Waits(q, x, Cmd("CIPCLOSE", i)) \/ Has(lo, <<"DISCONNECT", i>>)

(* ... and what commands and events that wait promise of its state         *)
SendFits(v, q, lo, x, i) ==
    /\ v = "CONNECTED" => ~Waits(q, x, Cmd("CIPCLOSE", i))
    /\ v = "CLOSING" => ~Has(lo, <<"DISCONNECT", i>>)
    /\ v = "NIL" => ~Waits(q, x, Cmd("CIPSEND", i))

SocketFits(s, x, i) ==
    /\ CloseFits(s.state[i], s.queue, s.local, x, i)
    /\ Careful => SendFits(s.state[i], s.queue, s.local, x, i)
    /\ Patient /\ s.state[i] = "CONNECTING" =>
           s.pending[i] \/ s.guard[i] \/ Has(s.local, <<"CONNECT_FAIL", i>>)

ShutFits(s, x) ==
    /\ s.shuting => Waits(s.queue, x, Plain("CIPSHUT"))
    /\ s.shutpending => s.holders # {}

(* All of it but what the state of socket i promises *)
FitsBut(s, x, c, i) ==
    /\ s \in LinkRecord /\ s.curr = c
    /\ ShutFits(s, x)
    /\ Careful => \A j \in LinkIds : Ordered(s.queue, x, j)
    /\ \A j \in LinkIds \ {i} : SocketFits(s, x, j)

Fits(s, x, c) ==
    /\ s \in LinkRecord /\ s.curr = c
    /\ ShutFits(s, x)
    /\ Careful => \A j \in LinkIds : Ordered(s.queue, x, j)
    /\ \A j \in LinkIds : SocketFits(s, x, j)

IInv ==
    /\ Fits(l, l.curr, l.curr)
    /\ reading \in BOOLEAN
    /\ wire \in Seq(Command) /\ out \in Seq(Line)
    /\ mip \in IpStates /\ conn \in [LinkIds -> {"free", "opening", "open"}]
----------------------------------------------------------------------------
(* Commands and queues *)

LEMMA LinkZero == 0 \in LinkIds /\ LinkIds \subseteq Nat
BY LinkAssumption DEF LinkIds

LEMMA CmdType ==
    \A v \in SocketVerbs, i \in LinkIds : Cmd(v, i) \in Command
BY DEF Cmd, Command, SocketVerbs, Verbs

LEMMA PlainType == \A v \in Verbs : Plain(v) \in Command
BY LinkZero DEF Plain, Command, SocketVerbs

LEMMA CmdEqual ==
    ASSUME NEW v, NEW w, NEW i, NEW j
    PROVE  /\ Cmd(v, i) = Cmd(w, j) <=> v = w /\ i = j
           /\ Cmd(v, i) = Plain(w) <=> v = w /\ i = 0
           /\ Cmd(v, i) = NoCmd <=> v = "none" /\ i = 0
BY DEF Cmd, Plain, NoCmd

LEMMA CmdDistinct ==
    /\ \A i, j : Cmd("CIPCLOSE", i) # Cmd("CIPSEND", j)
    /\ \A i : Cmd("CIPCLOSE", i) # NoCmd /\ Cmd("CIPSEND", i) # NoCmd
    /\ Plain("CIPSHUT") # NoCmd
BY DEF Cmd, NoCmd, Plain

LEMMA AppendHas ==
    ASSUME NEW S, NEW q \in Seq(S), NEW d \in S, NEW e
    PROVE  Has(Append(q, d), e) <=> Has(q, e) \/ d = e
<1>1. Len(Append(q, d)) = Len(q) + 1 /\ Append(q, d)[Len(q) + 1] = d
  BY AppendProperties
<1>2. \A k \in 1..Len(q) : Append(q, d)[k] = q[k]
  BY AppendProperties
<1>3. Len(q) \in Nat
  BY LenProperties
<1> HIDE DEF Has
<1>4. ASSUME Has(Append(q, d), e) PROVE Has(q, e) \/ d = e
  <2>1. PICK k \in 1..Len(q) + 1 : Append(q, d)[k] = e
    BY <1>1, <1>4 DEF Has
  <2> QED
    BY <2>1, <1>1, <1>2, <1>3 DEF Has
<1>5. ASSUME Has(q, e) \/ d = e PROVE Has(Append(q, d), e)
  <2>1. CASE d = e
    <3>1. Len(q) + 1 \in 1..Len(q) + 1
      BY <1>3
    <3> QED
      BY <2>1, <3>1, <1>1 DEF Has
  <2>2. CASE Has(q, e)
    <3>1. PICK k \in 1..Len(q) : q[k] = e
      BY <2>2 DEF Has
    <3>2. k \in 1..Len(q) + 1
      BY <1>3
    <3> QED
      BY <3>1, <3>2, <1>1, <1>2 DEF Has
  <2> QED
    BY <2>1, <2>2, <1>5
<1> QED
  BY <1>4, <1>5

LEMMA TailHas ==
    ASSUME NEW S, NEW q \in Seq(S), q # <<>>, NEW e
    PROVE  Has(q, e) <=> Head(q) = e \/ Has(Tail(q), e)
<1>1. /\ Len(Tail(q)) = Len(q) - 1 /\ Len(q) \in Nat \ {0}
      /\ \A k \in 1..Len(Tail(q)) : Tail(q)[k] = q[k + 1]
  BY HeadTailProperties, EmptySeq, LenProperties
<1>2. Head(q) = q[1]
  BY HeadTailProperties
<1>3. ASSUME Has(q, e) PROVE Head(q) = e \/ Has(Tail(q), e)
  <2>1. PICK k \in 1..Len(q) : q[k] = e
    BY <1>3 DEF Has
  <2>2. CASE k = 1
    BY <2>1, <2>2, <1>2
  <2>3. CASE k # 1
    <3>1. k - 1 \in 1..Len(Tail(q)) /\ (k - 1) + 1 = k
      BY <2>3, <1>1
    <3> QED
      BY <3>1, <2>1, <1>1 DEF Has
  <2> QED
    BY <2>2, <2>3
<1>4. ASSUME Head(q) = e \/ Has(Tail(q), e) PROVE Has(q, e)
  <2>1. CASE Head(q) = e
    <3>1. 1 \in 1..Len(q)
      BY <1>1
    <3> QED
      BY <3>1, <2>1, <1>2 DEF Has
  <2>2. CASE Has(Tail(q), e)
    <3>1. PICK k \in 1..Len(Tail(q)) : Tail(q)[k] = e
      BY <2>2 DEF Has
    <3>2. k + 1 \in 1..Len(q)
      BY <1>1
    <3> QED
      BY <3>1, <3>2, <1>1 DEF Has
  <2> QED
    BY <2>1, <2>2, <1>4
<1> QED
  BY <1>3, <1>4

LEMMA AppendOrdered ==
    ASSUME NEW q \in Seq(Command), NEW d \in Command, NEW x, NEW i,
           Ordered(q, x, i),
           d = Cmd("CIPSEND", i) => ~Waits(q, x, Cmd("CIPCLOSE", i))
    PROVE  Ordered(Append(q, d), x, i)
<1> DEFINE p == Append(q, d)
           close == Cmd("CIPCLOSE", i)
           send == Cmd("CIPSEND", i)
<1>1. Len(p) = Len(q) + 1 /\ p[Len(q) + 1] = d
  BY AppendProperties
<1>2. \A k \in 1..Len(q) : p[k] = q[k]
  BY AppendProperties
<1>3. Len(q) \in Nat
  BY LenProperties
<1>4. Has(p, send) <=> Has(q, send) \/ d = send
  BY AppendHas
<1>5. x = close => ~Has(p, send)
  BY <1>4 DEF Ordered, Waits
<1> HIDE DEF p
<1>6. ASSUME NEW j \in 1..Len(p), NEW k \in 1..Len(p), j < k, p[j] = close
      PROVE  p[k] # send
  <2>1. j \in 1..Len(q) /\ q[j] = close
    BY <1>1, <1>2, <1>3, <1>6
  <2>2. CASE k \in 1..Len(q)
    BY <2>1, <2>2, <1>2, <1>6 DEF Ordered
  <2>3. CASE k = Len(q) + 1
    <3>1. Has(q, close)
      BY <2>1 DEF Has
    <3> QED
      BY <3>1, <2>3, <1>1 DEF Waits
  <2> QED
    BY <2>2, <2>3, <1>1, <1>3
<1> QED
  BY <1>5, <1>6 DEF Ordered, p

LEMMA TailOrdered ==
    ASSUME NEW q \in Seq(Command), q # <<>>, NEW x, NEW i, Ordered(q, x, i)
    PROVE  Ordered(Tail(q), Head(q), i)
<1>1. /\ Len(Tail(q)) = Len(q) - 1 /\ Len(q) \in Nat \ {0}
      /\ \A k \in 1..Len(Tail(q)) : Tail(q)[k] = q[k + 1]
  BY HeadTailProperties, EmptySeq, LenProperties
<1>2. Head(q) = q[1]
  BY HeadTailProperties
<1>3. ASSUME NEW k \in 1..Len(Tail(q))
      PROVE  k + 1 \in 1..Len(q) /\ 1 < k + 1 /\ Tail(q)[k] = q[k + 1]
  BY <1>1
<1>4. 1 \in 1..Len(q)
  BY <1>1
<1>5. Head(q) = Cmd("CIPCLOSE", i) => ~Has(Tail(q), Cmd("CIPSEND", i))
  BY <1>2, <1>3, <1>4 DEF Ordered, Has
<1>6. \A j, k \in 1..Len(Tail(q)) : j < k => j + 1 < k + 1
  BY <1>1
<1> QED
  BY <1>3, <1>5, <1>6 DEF Ordered

LEMMA UnaskedOrdered == \A q, x, i : Ordered(q, x, i) => Ordered(q, NoCmd, i)
BY CmdDistinct DEF Ordered
----------------------------------------------------------------------------
(* What leaves Fits alone, and what restores it *)

LEMMA FitsIsBut ==
    ASSUME NEW s, NEW x, NEW c, NEW i
    PROVE  /\ Fits(s, x, c) => FitsBut(s, x, c, i)
           /\ FitsBut(s, x, c, i) /\ SocketFits(s, x, i) => Fits(s, x, c)
BY DEF Fits, FitsBut

(* The state of the network and the timers of the module do not matter.    *)
Alike(s, t) ==
    /\ t.state = s.state /\ t.pending = s.pending /\ t.guard = s.guard
    /\ t.shuting = s.shuting /\ t.holders = s.holders
    /\ t.shutpending = s.shutpending /\ t.local = s.local
    /\ t.queue = s.queue /\ t.curr = s.curr

LEMMA AlikeFits ==
    ASSUME NEW s, NEW x, NEW c, Fits(s, x, c), NEW t \in LinkRecord, Alike(s, t)
    PROVE  Fits(t, x, c)
<1>1. t.curr = c /\ ShutFits(t, x)
  BY DEF Fits, Alike, ShutFits
<1>2. \A j \in LinkIds : SocketFits(t, x, j)
  BY DEF Fits, Alike, SocketFits
<1>3. Careful => \A j \in LinkIds : Ordered(t.queue, x, j)
  BY DEF Fits, Alike
<1> QED
  BY <1>1, <1>2, <1>3 DEF Fits

(* A request of anything but an AT+CIPSEND or an AT+CIPCLOSE, or of one    *)
(* that the states of the sockets allow                                    *)
Allowed(s, d) ==
    Careful =>
        \A i \in LinkIds :
            /\ d = Cmd("CIPCLOSE", i) => s.state[i] # "CONNECTED"
            /\ d = Cmd("CIPSEND", i) => s.state[i] = "CONNECTED"

LEMMA ReqType ==
    ASSUME NEW s \in LinkRecord, NEW d \in Command
    PROVE  /\ Req(s, d) \in LinkRecord
           /\ Req(s, d).queue = Append(s.queue, d)
           /\ Req(s, d).state = s.state /\ Req(s, d).pending = s.pending
           /\ Req(s, d).guard = s.guard /\ Req(s, d).shuting = s.shuting
           /\ Req(s, d).holders = s.holders
           /\ Req(s, d).shutpending = s.shutpending
           /\ Req(s, d).local = s.local /\ Req(s, d).curr = s.curr
           /\ Req(s, d).ip = s.ip
<1>1. s.queue \in Seq(Command)
  BY DEF LinkRecord
<1>2. Append(s.queue, d) \in Seq(Command)
  BY <1>1
<1> QED
  BY <1>2 DEF Req, LinkRecord

LEMMA ReqFits ==
    ASSUME NEW s, NEW x, NEW c, Fits(s, x, c), NEW d \in Command, Allowed(s, d)
    PROVE  Fits(Req(s, d), x, c)
<1> PICK t : t = Req(s, d)
  OBVIOUS
<1>1. s \in LinkRecord /\ s.queue \in Seq(Command)
  BY DEF Fits, LinkRecord
<1>2. /\ t \in LinkRecord /\ t.queue = Append(s.queue, d)
      /\ t.state = s.state /\ t.pending = s.pending /\ t.guard = s.guard
      /\ t.shuting = s.shuting /\ t.holders = s.holders
      /\ t.shutpending = s.shutpending /\ t.local = s.local
      /\ t.curr = s.curr
  BY <1>1, ReqType
<1>3. ASSUME NEW e PROVE Has(t.queue, e) <=> Has(s.queue, e) \/ d = e
  <2>1. Has(Append(s.queue, d), e) <=> Has(s.queue, e) \/ d = e
    BY <1>1, AppendHas
  <2> QED
    BY <2>1, <1>2
<1>4. \A e : Waits(t.queue, x, e) <=> Waits(s.queue, x, e) \/ d = e
  BY <1>3 DEF Waits
<1>5. t.curr = c /\ ShutFits(t, x)
  BY <1>2, <1>4 DEF Fits, ShutFits
<1>6. ASSUME NEW j \in LinkIds PROVE SocketFits(t, x, j)
  <2>1. SocketFits(s, x, j)
    BY DEF Fits
  <2>2. CloseFits(t.state[j], t.queue, t.local, x, j)
    BY <2>1, <1>2, <1>4 DEF SocketFits, CloseFits
  <2>3. ASSUME Careful PROVE SendFits(t.state[j], t.queue, t.local, x, j)
    BY <2>1, <2>3, <1>2, <1>4 DEF SocketFits, SendFits, Allowed
  <2> QED
    BY <2>1, <2>2, <2>3, <1>2 DEF SocketFits
<1>7. ASSUME Careful, NEW j \in LinkIds PROVE Ordered(t.queue, x, j)
  <2>1. SendFits(s.state[j], s.queue, s.local, x, j) /\ Ordered(s.queue, x, j)
    BY <1>7 DEF Fits, SocketFits
  <2>2. d = Cmd("CIPSEND", j) => ~Waits(s.queue, x, Cmd("CIPCLOSE", j))
    BY <1>7, <2>1 DEF Allowed, SendFits
  <2> QED
    BY <1>1, <1>2, <2>1, <2>2, AppendOrdered
<1> QED
  BY <1>2, <1>5, <1>6, <1>7 DEF Fits

(* A socket that is being closed waits for its AT+CIPCLOSE. *)
LEMMA ClosingFits ==
    ASSUME NEW s, NEW x, NEW c, NEW i \in LinkIds, FitsBut(s, x, c, i),
           s.state[i] \in {"DISCONNECTING", "CLOSING"},
           Careful => (s.state[i] = "CLOSING" => ~Has(s.local, <<"DISCONNECT", i>>))
    PROVE  Fits(Req(s, Cmd("CIPCLOSE", i)), x, c)
<1> PICK d : d = Cmd("CIPCLOSE", i)
  OBVIOUS
<1> PICK t : t = Req(s, d)
  OBVIOUS
<1>1. s \in LinkRecord /\ s.queue \in Seq(Command) /\ d \in Command
  BY CmdType DEF FitsBut, LinkRecord, Verbs, SocketVerbs
<1>2. /\ t \in LinkRecord /\ t.queue = Append(s.queue, d)
      /\ t.state = s.state /\ t.pending = s.pending /\ t.guard = s.guard
      /\ t.shuting = s.shuting /\ t.holders = s.holders
      /\ t.shutpending = s.shutpending /\ t.local = s.local
      /\ t.curr = s.curr
  BY <1>1, ReqType
<1>3. ASSUME NEW e PROVE Has(t.queue, e) <=> Has(s.queue, e) \/ d = e
  <2>1. Has(Append(s.queue, d), e) <=> Has(s.queue, e) \/ d = e
    BY <1>1, AppendHas
  <2> QED
    BY <2>1, <1>2
<1>4. \A e : Waits(t.queue, x, e) <=> Waits(s.queue, x, e) \/ d = e
  BY <1>3 DEF Waits
<1>5. t.curr = c /\ ShutFits(t, x)
  BY <1>2, <1>4 DEF FitsBut, ShutFits
<1>6. \A j : j # i => d # Cmd("CIPCLOSE", j)
  BY CmdEqual
<1>7. \A j : d # Cmd("CIPSEND", j)
  BY CmdDistinct
<1>8. ASSUME NEW j \in LinkIds PROVE SocketFits(t, x, j)
  <2>1. CASE j # i
    <3>1. SocketFits(s, x, j)
      BY <2>1 DEF FitsBut
    <3>2. CloseFits(t.state[j], t.queue, t.local, x, j)
      BY <3>1, <1>2, <1>4 DEF SocketFits, CloseFits
    <3>3. ASSUME Careful PROVE SendFits(t.state[j], t.queue, t.local, x, j)
      BY <3>1, <3>3, <2>1, <1>2, <1>4, <1>6, <1>7 DEF SocketFits, SendFits
    <3> QED
      BY <3>1, <3>2, <3>3, <1>2 DEF SocketFits
  <2>2. CASE j = i
    <3>1. CloseFits(t.state[j], t.queue, t.local, x, j)
      BY <2>2, <1>4 DEF CloseFits
    <3>2. Careful => SendFits(t.state[j], t.queue, t.local, x, j)
      BY <2>2, <1>2 DEF SendFits
    <3> QED
      BY <3>1, <3>2, <2>2, <1>2 DEF SocketFits
  <2> QED
    BY <2>1, <2>2
<1>9. ASSUME Careful, NEW j \in LinkIds PROVE Ordered(t.queue, x, j)
  <2>1. Ordered(s.queue, x, j)
    BY <1>9 DEF FitsBut
  <2> QED
    BY <1>1, <1>2, <2>1, <1>7, AppendOrdered
<1> QED
  BY <1>2, <1>5, <1>8, <1>9 DEF Fits

(* The state of one socket may be anything, as far as the others go.       *)
LEMMA StateFitsBut ==
    ASSUME NEW s, NEW x, NEW c, NEW i \in LinkIds, FitsBut(s, x, c, i),
           NEW t \in LinkRecord,
           \A j \in LinkIds \ {i} :
               /\ t.state[j] = s.state[j] /\ t.pending[j] = s.pending[j]
               /\ t.guard[j] = s.guard[j],
           t.shuting = s.shuting, t.holders = s.holders,
           t.shutpending = s.shutpending, t.local = s.local,
           t.queue = s.queue, t.curr = s.curr
    PROVE  FitsBut(t, x, c, i)
<1>1. t.curr = c /\ ShutFits(t, x)
  BY DEF FitsBut, ShutFits
<1>2. ASSUME NEW j \in LinkIds \ {i} PROVE SocketFits(t, x, j)
  BY DEF FitsBut, SocketFits
<1> QED
  BY <1>1, <1>2 DEF FitsBut
LEMMA ShutFitsAnew ==
    ASSUME NEW s, NEW x, NEW c, Fits(s, x, c), NEW t \in LinkRecord,
           t.state = s.state, t.pending = s.pending, t.guard = s.guard,
           t.local = s.local, t.queue = s.queue, t.curr = s.curr,
           ShutFits(t, x)
    PROVE  Fits(t, x, c)
<1>1. t.curr = c
  BY DEF Fits
<1>2. \A j \in LinkIds : SocketFits(t, x, j)
  BY DEF Fits, SocketFits
<1>3. Careful => \A j \in LinkIds : Ordered(t.queue, x, j)
  BY DEF Fits
<1> QED
  BY <1>1, <1>2, <1>3 DEF Fits

----------------------------------------------------------------------------
(* The IP network *)

LEMMA PlainAllowed ==
    ASSUME NEW s, NEW v, v \notin {"CIPCLOSE", "CIPSEND"}
    PROVE  Allowed(s, Plain(v)) /\ \A i : Allowed(s, Cmd(v, i))
BY CmdEqual DEF Allowed

LEMMA PlainFits ==
    ASSUME NEW s, NEW x, NEW c, Fits(s, x, c),
           NEW v \in Verbs \ {"CIPCLOSE", "CIPSEND"}
    PROVE  Fits(Req(s, Plain(v)), x, c)
<1>1. Plain(v) \in Command /\ Allowed(s, Plain(v))
  BY PlainType, PlainAllowed
<1> PICK d : d = Plain(v)
  OBVIOUS
<1> QED
  BY <1>1, ReqFits

LEMMA SetupIPFits ==
    ASSUME NEW s, NEW x, NEW c, Fits(s, x, c)
    PROVE  Fits(SetupIP(s), x, c)
<1> PICK r : r = Req(Req(s, Plain("CIICR")), Plain("CIPSTATUS"))
  OBVIOUS
<1>1. Fits(Req(s, Plain("CIICR")), x, c)
  BY PlainFits DEF Verbs
<1>2. Fits(r, x, c)
  BY <1>1, PlainFits DEF Verbs
<1> PICK t : t = [r EXCEPT !.ip = "START"]
  OBVIOUS
<1>3. r \in LinkRecord
  BY <1>2 DEF Fits
<1>4. t \in LinkRecord /\ Alike(r, t)
  BY <1>3 DEF LinkRecord, Alike, IpStates
<1>5. Fits(t, x, c)
  BY <1>2, <1>4, AlikeFits
<1> QED
  BY <1>5 DEF SetupIP

LEMMA ShutKeeps ==
    ASSUME NEW s, NEW x, NEW c, Fits(s, x, c)
    PROVE  /\ Fits(Shut(s), x, c)
           /\ Shut(s).state = s.state /\ Shut(s).pending = s.pending
           /\ Shut(s).ip = s.ip
<1>1. s \in LinkRecord
  BY DEF Fits
<1>2. CASE s.holders # {}
  <2> PICK t : t = [s EXCEPT !.shutpending = TRUE]
    OBVIOUS
  <2>1. /\ t \in LinkRecord /\ t.shutpending = TRUE /\ t.holders = s.holders
        /\ t.state = s.state /\ t.pending = s.pending /\ t.guard = s.guard
        /\ t.local = s.local /\ t.queue = s.queue /\ t.curr = s.curr
        /\ t.shuting = s.shuting /\ t.ip = s.ip
    BY <1>1 DEF LinkRecord
  <2>2. ShutFits(t, x)
    BY <2>1, <1>2 DEF ShutFits, Fits
  <2>3. Fits(t, x, c)
    BY <2>1, <2>2, ShutFitsAnew
  <2> QED
    BY <2>1, <2>3, <1>2 DEF Shut
<1>3. CASE s.holders = {}
  <2> PICK d : d = Plain("CIPSHUT")
    OBVIOUS
  <2> PICK r : r = Req(s, d)
    OBVIOUS
  <2> PICK t : t = [r EXCEPT !.shuting = TRUE, !.shutpending = FALSE]
    OBVIOUS
  <2>1. Fits(r, x, c) /\ d \in Command
    BY PlainFits, PlainType DEF Verbs
  <2>2. r \in LinkRecord /\ r.queue = Append(s.queue, d)
        /\ r.state = s.state /\ r.pending = s.pending /\ r.ip = s.ip
    BY <1>1, <2>1, ReqType
  <2>3. /\ t \in LinkRecord /\ t.shutpending = FALSE
        /\ t.state = r.state /\ t.pending = r.pending /\ t.guard = r.guard
        /\ t.local = r.local /\ t.queue = r.queue /\ t.curr = r.curr
        /\ t.ip = r.ip
    BY <2>2 DEF LinkRecord
  <2>4. Has(Append(s.queue, d), d)
    <3>1. s.queue \in Seq(Command)
      BY <1>1 DEF LinkRecord
    <3> QED
      BY <3>1, <2>1, AppendHas
  <2>5. ShutFits(t, x)
    BY <2>2, <2>3, <2>4 DEF ShutFits, Waits
  <2>6. Fits(t, x, c)
    BY <2>1, <2>3, <2>5, ShutFitsAnew
  <2>7. t = Shut(s)
    BY <1>3 DEF Shut
  <2> QED
    BY <2>2, <2>3, <2>6, <2>7
<1> QED
  BY <1>2, <1>3

----------------------------------------------------------------------------
(* The calls of an owner *)

LEMMA OpenFits ==
    ASSUME NEW s, NEW x, NEW c, Fits(s, x, c), NEW i \in LinkIds
    PROVE  Fits(Open(s, i), x, c)
<1> PICK t : t = [s EXCEPT !.state[i] = "INITIAL", !.pending[i] = FALSE]
  OBVIOUS
<1>1. s \in LinkRecord /\ FitsBut(s, x, c, i)
  BY FitsIsBut DEF Fits
<1>2. /\ t \in LinkRecord /\ t.state[i] = "INITIAL"
      /\ \A j \in LinkIds \ {i} :
             /\ t.state[j] = s.state[j] /\ t.pending[j] = s.pending[j]
             /\ t.guard[j] = s.guard[j]
      /\ t.shuting = s.shuting /\ t.holders = s.holders
      /\ t.shutpending = s.shutpending /\ t.local = s.local
      /\ t.queue = s.queue /\ t.curr = s.curr
  BY <1>1 DEF LinkRecord, LinkStates
<1>3. FitsBut(t, x, c, i)
  BY <1>1, <1>2, StateFitsBut
<1>4. SocketFits(t, x, i)
  BY <1>2 DEF SocketFits, CloseFits, SendFits
<1>5. Fits(t, x, c)
  BY <1>3, <1>4, FitsIsBut
<1>6. Fits(SetupIP(t), x, c)
  BY <1>5, SetupIPFits
<1> QED
  BY <1>5, <1>6 DEF Open

LEMMA AppendLocal ==
    ASSUME NEW s \in LinkRecord, NEW e \in LocalEvents
    PROVE  /\ Append(s.local, e) \in Seq(LocalEvents)
           /\ \A d : Has(Append(s.local, e), d) <=> Has(s.local, d) \/ e = d
<1>1. s.local \in Seq(LocalEvents)
  BY DEF LinkRecord
<1>2. Append(s.local, e) \in Seq(LocalEvents)
  BY <1>1
<1>3. ASSUME NEW d PROVE Has(Append(s.local, e), d) <=> Has(s.local, d) \/ e = d
  BY <1>1, AppendHas
<1> QED
  BY <1>2, <1>3

(* An event of socket i is no event of another. *)
EventsOf(i) == {<<"CONNECT_FAIL", i>>, <<"DISCONNECT", i>>}

LEMMA LocalFits ==
    ASSUME NEW s, NEW x, NEW c, NEW i \in LinkIds, FitsBut(s, x, c, i),
           NEW e \in EventsOf(i), NEW t \in LinkRecord,
           \A d : Has(t.local, d) <=> Has(s.local, d) \/ d = e,
           t.state = s.state, t.pending = s.pending, t.guard = s.guard,
           t.shuting = s.shuting, t.holders = s.holders,
           t.shutpending = s.shutpending, t.queue = s.queue, t.curr = s.curr
    PROVE  FitsBut(t, x, c, i)
<1>5. t.curr = c /\ ShutFits(t, x)
  BY DEF FitsBut, ShutFits
<1>6. ASSUME NEW j \in LinkIds \ {i} PROVE SocketFits(t, x, j)
  <2>1. \A m : e # <<m, j>>
    BY DEF EventsOf
  <2>2. \A m : Has(t.local, <<m, j>>) <=> Has(s.local, <<m, j>>)
    BY <2>1
  <2>3. SocketFits(s, x, j)
    BY DEF FitsBut
  <2>4. CloseFits(t.state[j], t.queue, t.local, x, j)
    BY <2>2, <2>3 DEF SocketFits, CloseFits
  <2>5. Careful => SendFits(t.state[j], t.queue, t.local, x, j)
    BY <2>2, <2>3 DEF SocketFits, SendFits
  <2> QED
    BY <2>2, <2>3, <2>4, <2>5 DEF SocketFits
<1>7. Careful => \A j \in LinkIds : Ordered(t.queue, x, j)
  BY DEF FitsBut
<1> QED
  BY <1>5, <1>6, <1>7 DEF FitsBut

LEMMA ConnectFits ==
    ASSUME NEW s, NEW x, NEW c, Fits(s, x, c), NEW i \in LinkIds,
           NEW call \in BOOLEAN
    PROVE  Fits(Connect(s, i, call), x, c)
<1> PICK t : t = [s EXCEPT !.state[i] = "CONNECTING"]
  OBVIOUS
<1>1. s \in LinkRecord /\ FitsBut(s, x, c, i)
  BY FitsIsBut DEF Fits
<1>2. /\ t \in LinkRecord /\ t.state[i] = "CONNECTING"
      /\ \A j \in LinkIds \ {i} : t.state[j] = s.state[j]
      /\ t.pending = s.pending /\ t.guard = s.guard
      /\ t.shuting = s.shuting /\ t.holders = s.holders
      /\ t.shutpending = s.shutpending /\ t.local = s.local
      /\ t.queue = s.queue /\ t.curr = s.curr
  BY <1>1 DEF LinkRecord, LinkStates
<1>3. FitsBut(t, x, c, i)
  BY <1>1, <1>2, StateFitsBut
<1>4. CASE call
  <2> PICK u : u = [t EXCEPT !.local = Append(@, <<"CONNECT_FAIL", i>>)]
    OBVIOUS
  <2> PICK e : e = <<"CONNECT_FAIL", i>>
    OBVIOUS
  <2>a. e \in LocalEvents /\ e \in EventsOf(i)
    BY DEF LocalEvents, EventsOf
  <2> PICK q : q = Append(t.local, e)
    OBVIOUS
  <2>b. /\ q \in Seq(LocalEvents)
        /\ \A d : Has(q, d) <=> Has(t.local, d) \/ e = d
    BY <1>2, <2>a, AppendLocal
  <2>c. /\ u \in LinkRecord /\ u.local = q
        /\ u.state = t.state /\ u.pending = t.pending /\ u.guard = t.guard
        /\ u.shuting = t.shuting /\ u.holders = t.holders
        /\ u.shutpending = t.shutpending /\ u.queue = t.queue
        /\ u.curr = t.curr
    BY <1>2, <2>b DEF LinkRecord
  <2>d. \A d : Has(u.local, d) <=> Has(t.local, d) \/ d = e
    BY <2>b, <2>c
  <2>e. FitsBut(u, x, c, i)
    BY ONLY <1>3, <2>a, <2>c, <2>d, i \in LinkIds, LocalFits
  <2>1. /\ FitsBut(u, x, c, i) /\ u.state = t.state
        /\ Has(u.local, <<"CONNECT_FAIL", i>>)
    BY <2>c, <2>d, <2>e
  <2>2. SocketFits(u, x, i)
    BY <2>1, <1>2 DEF SocketFits, CloseFits, SendFits
  <2> QED
    BY <2>1, <2>2, <1>4, FitsIsBut DEF Connect
<1>5. CASE ~call /\ (~IpReady(s) \/ s.shuting)
  <2> PICK u : u = [t EXCEPT !.pending[i] = TRUE]
    OBVIOUS
  <2>1. /\ u \in LinkRecord /\ u.state = t.state /\ u.pending[i] = TRUE
        /\ \A j \in LinkIds \ {i} : u.pending[j] = t.pending[j]
        /\ u.guard = t.guard
        /\ u.shuting = t.shuting /\ u.holders = t.holders
        /\ u.shutpending = t.shutpending /\ u.local = t.local
        /\ u.queue = t.queue /\ u.curr = t.curr
    BY <1>2 DEF LinkRecord
  <2>a. \A j \in LinkIds \ {i} :
            /\ u.state[j] = t.state[j] /\ u.pending[j] = t.pending[j]
            /\ u.guard[j] = t.guard[j]
    BY <2>1
  <2>2. FitsBut(u, x, c, i)
    BY ONLY <1>3, <2>1, <2>a, i \in LinkIds, StateFitsBut
  <2>3. SocketFits(u, x, i)
    BY <2>1, <1>2 DEF SocketFits, CloseFits, SendFits
  <2> QED
    BY <2>2, <2>3, <1>5, FitsIsBut DEF Connect
<1>6. CASE ~call /\ ~(~IpReady(s) \/ s.shuting)
  <2> PICK v : v = [t EXCEPT !.guard[i] = TRUE]
    OBVIOUS
  <2> PICK d : d = Cmd("CIPSTART", i)
    OBVIOUS
  <2>1. /\ v \in LinkRecord /\ v.state = t.state /\ v.guard[i] = TRUE
        /\ \A j \in LinkIds \ {i} : v.guard[j] = t.guard[j]
        /\ v.pending = t.pending
        /\ v.shuting = t.shuting /\ v.holders = t.holders
        /\ v.shutpending = t.shutpending /\ v.local = t.local
        /\ v.queue = t.queue /\ v.curr = t.curr
    BY <1>2 DEF LinkRecord
  <2>a. \A j \in LinkIds \ {i} :
            /\ v.state[j] = t.state[j] /\ v.pending[j] = t.pending[j]
            /\ v.guard[j] = t.guard[j]
    BY <2>1
  <2>2. FitsBut(v, x, c, i)
    BY ONLY <1>3, <2>1, <2>a, i \in LinkIds, StateFitsBut
  <2>3. SocketFits(v, x, i)
    BY <2>1, <1>2 DEF SocketFits, CloseFits, SendFits
  <2>4. Fits(v, x, c)
    BY <2>2, <2>3, FitsIsBut
  <2>5. d \in Command /\ Allowed(v, d)
    BY CmdType, PlainAllowed DEF Verbs, SocketVerbs
  <2>6. Fits(Req(v, d), x, c)
    BY <2>4, <2>5, ReqFits
  <2>7. Req(v, d) = [Req(t, d) EXCEPT !.guard[i] = TRUE]
    BY <1>2 DEF Req, LinkRecord
  <2> QED
    BY <2>6, <2>7, <1>6 DEF Connect
<1> QED
  BY <1>4, <1>5, <1>6

LEMMA DisconnectFits ==
    ASSUME NEW s, NEW x, NEW c, Fits(s, x, c), NEW i \in LinkIds
    PROVE  Fits(Disconnect(s, i), x, c)
<1> PICK t : t = [s EXCEPT !.state[i] = "DISCONNECTING", !.pending[i] = FALSE]
  OBVIOUS
<1>1. s \in LinkRecord /\ FitsBut(s, x, c, i)
  BY FitsIsBut DEF Fits
<1>2. /\ t \in LinkRecord /\ t.state[i] = "DISCONNECTING"
      /\ \A j \in LinkIds \ {i} :
             /\ t.state[j] = s.state[j] /\ t.pending[j] = s.pending[j]
             /\ t.guard[j] = s.guard[j]
      /\ t.shuting = s.shuting /\ t.holders = s.holders
      /\ t.shutpending = s.shutpending /\ t.local = s.local
      /\ t.queue = s.queue /\ t.curr = s.curr
  BY <1>1 DEF LinkRecord, LinkStates
<1>3. FitsBut(t, x, c, i)
  BY <1>1, <1>2, StateFitsBut
<1>u. PICK u : u = [t EXCEPT !.local = Append(@, <<"DISCONNECT", i>>)]
  OBVIOUS
<1>v. PICK e : e = <<"DISCONNECT", i>>
  OBVIOUS
<1>a. e \in LocalEvents /\ e \in EventsOf(i)
  BY <1>v DEF LocalEvents, EventsOf
<1>w. PICK q : q = Append(t.local, e)
  OBVIOUS
<1>b. /\ q \in Seq(LocalEvents)
      /\ \A d : Has(q, d) <=> Has(t.local, d) \/ e = d
  <2>1. t \in LinkRecord
    BY <1>2
  <2> QED
    BY ONLY <2>1, <1>a, <1>w, AppendLocal
<1>c. /\ u \in LinkRecord /\ u.local = q
      /\ u.state = t.state /\ u.pending = t.pending /\ u.guard = t.guard
      /\ u.shuting = t.shuting /\ u.holders = t.holders
      /\ u.shutpending = t.shutpending /\ u.queue = t.queue
      /\ u.curr = t.curr
  <2>1. t \in LinkRecord /\ u = [t EXCEPT !.local = q]
    BY ONLY <1>2, <1>u, <1>v, <1>w DEF LinkRecord
  <2> QED
    BY ONLY <2>1, <1>b DEF LinkRecord
<1>d. \A d : Has(u.local, d) <=> Has(t.local, d) \/ d = e
  BY <1>b, <1>c
<1>e. FitsBut(u, x, c, i)
  BY ONLY <1>3, <1>a, <1>c, <1>d, i \in LinkIds, LocalFits
<1>4. /\ FitsBut(u, x, c, i) /\ u.state = t.state
      /\ Has(u.local, <<"DISCONNECT", i>>)
  BY <1>c, <1>d, <1>e, <1>v
<1>5. SocketFits(u, x, i)
  BY <1>2, <1>4 DEF SocketFits, CloseFits, SendFits
<1>6. Fits(u, x, c)
  BY <1>4, <1>5, FitsIsBut
<1>7. Fits(Req(t, Cmd("CIPCLOSE", i)), x, c)
  BY <1>2, <1>3, ClosingFits
<1> QED
  BY <1>6, <1>7, <1>u DEF Disconnect

LEMMA CloseKeeps ==
    ASSUME NEW s, NEW x, NEW c, Fits(s, x, c), NEW i \in LinkIds,
           Careful => ~Hasty(s, i)
    PROVE  Fits(Close(s, i), x, c)
<1> PICK t : t = [s EXCEPT !.state[i] = "CLOSING"]
  OBVIOUS
<1>1. s \in LinkRecord /\ FitsBut(s, x, c, i)
  BY FitsIsBut DEF Fits
<1>2. /\ t \in LinkRecord /\ t.state[i] = "CLOSING"
      /\ \A j \in LinkIds \ {i} : t.state[j] = s.state[j]
      /\ t.pending = s.pending /\ t.guard = s.guard
      /\ t.shuting = s.shuting /\ t.holders = s.holders
      /\ t.shutpending = s.shutpending /\ t.local = s.local
      /\ t.queue = s.queue /\ t.curr = s.curr
  BY <1>1 DEF LinkRecord, LinkStates
<1>3. FitsBut(t, x, c, i)
  BY <1>1, <1>2, StateFitsBut
<1>4. Careful => ~Has(t.local, <<"DISCONNECT", i>>)
  BY <1>2 DEF Hasty
<1>5. Fits(Req(t, Cmd("CIPCLOSE", i)), x, c)
  BY <1>2, <1>3, <1>4, ClosingFits
<1> QED
  BY <1>5 DEF Close

LEMMA SendKeeps ==
    ASSUME NEW s, NEW x, NEW c, Fits(s, x, c), NEW i \in LinkIds,
           s.state[i] = "CONNECTED"
    PROVE  Fits(Req(s, Cmd("CIPSEND", i)), x, c)
<1> PICK d : d = Cmd("CIPSEND", i)
  OBVIOUS
<1>1. d \in Command
  BY CmdType DEF Verbs, SocketVerbs
<1>2. Allowed(s, d)
  BY CmdEqual DEF Allowed
<1> QED
  BY <1>1, <1>2, ReqFits

LEMMA CallFits ==
    ASSUME NEW s, NEW x, NEW c, Fits(s, x, c), NEW i \in LinkIds, NEW a
    PROVE  Fits(Call(s, i, a), x, c)
<1>1. Careful => "hasty" \notin Habits
  BY DEF Careful
<1>2. CASE a = "open" /\ CanOpen(s, i)
  BY <1>2, OpenFits DEF Call
<1>3. CASE a = "connect" /\ CanConnect(s, i)
  BY <1>3, ConnectFits DEF Call
<1>4. CASE a = "call" /\ CanConnect(s, i)
  BY <1>4, ConnectFits DEF Call
<1>5. CASE a = "disconnect" /\ CanDisconnect(s, i)
  BY <1>5, DisconnectFits DEF Call
<1>6. CASE /\ a = "close" /\ CanClose(s, i)
           /\ "hasty" \in Habits \/ ~Hasty(s, i)
  BY <1>1, <1>6, CloseKeeps DEF Call
<1>7. CASE a = "send" /\ s.state[i] = "CONNECTED"
  BY <1>7, SendKeeps DEF Call
<1>8. CASE a = "shut"
  BY <1>8, ShutKeeps DEF Call
<1>9. CASE /\ ~(a = "open" /\ CanOpen(s, i))
           /\ ~(a = "connect" /\ CanConnect(s, i))
           /\ ~(a = "call" /\ CanConnect(s, i))
           /\ ~(a = "disconnect" /\ CanDisconnect(s, i))
           /\ ~(/\ a = "close" /\ CanClose(s, i)
                /\ "hasty" \in Habits \/ ~Hasty(s, i))
           /\ ~(a = "send" /\ s.state[i] = "CONNECTED")
           /\ a # "shut"
  BY <1>9 DEF Call
<1> QED
  BY <1>2, <1>3, <1>4, <1>5, <1>6, <1>7, <1>8, <1>9

----------------------------------------------------------------------------
(* Owners are told *)

(* What the owners do when they are told, as in Replies *)
Reacts(r) == \A i \in LinkIds : r[i] \in Reactions \union {"none"}

LEMMA CallAtRest ==
    ASSUME NEW s \in LinkRecord, NEW i \in LinkIds, NEW a,
           a \notin {"connect", "call"}, s.state[i] # "CONNECTING"
    PROVE  Call(s, i, a).state[i] # "CONNECTING"
<1>0. s.state \in [LinkIds -> LinkStates]
  BY DEF LinkRecord
<1>1. CASE a = "open" /\ CanOpen(s, i)
  <2> PICK t : t = [s EXCEPT !.state[i] = "INITIAL", !.pending[i] = FALSE]
    OBVIOUS
  <2>1. t \in LinkRecord /\ t.state[i] = "INITIAL"
    BY DEF LinkRecord, LinkStates
  <2>2. SetupIP(t).state = t.state
    BY <2>1 DEF SetupIP, Req, LinkRecord
  <2>3. Open(s, i).state[i] = "INITIAL"
    BY <2>1, <2>2 DEF Open
  <2> QED
    BY <1>1, <2>3 DEF Call
<1>2. CASE a = "disconnect" /\ CanDisconnect(s, i)
  <2>1. Disconnect(s, i).state[i] = "DISCONNECTING"
    BY <1>0 DEF Disconnect, Req, LinkRecord
  <2> QED
    BY <1>2, <2>1 DEF Call
<1>3. CASE /\ a = "close" /\ CanClose(s, i)
           /\ "hasty" \in Habits \/ ~Hasty(s, i)
  <2>1. Close(s, i).state[i] = "CLOSING"
    BY <1>0 DEF Close, Req, LinkRecord
  <2> QED
    BY <1>3, <2>1 DEF Call
<1>4. CASE a = "send" /\ s.state[i] = "CONNECTED"
  <2>1. Req(s, Cmd("CIPSEND", i)).state = s.state
    BY DEF Req, LinkRecord
  <2> QED
    BY <1>4, <2>1 DEF Call
<1>5. CASE a = "shut"
  <2>1. Shut(s).state = s.state
    BY DEF Shut, Req, LinkRecord
  <2> QED
    BY <1>5, <2>1 DEF Call
<1>6. CASE /\ ~(a = "open" /\ CanOpen(s, i))
           /\ ~(a = "disconnect" /\ CanDisconnect(s, i))
           /\ ~(/\ a = "close" /\ CanClose(s, i)
                /\ "hasty" \in Habits \/ ~Hasty(s, i))
           /\ ~(a = "send" /\ s.state[i] = "CONNECTED")
           /\ a # "shut"
  BY <1>6 DEF Call
<1> QED
  BY <1>1, <1>2, <1>3, <1>4, <1>5, <1>6

LEMMA StopGuardFits ==
    ASSUME NEW s, NEW x, NEW c, Fits(s, x, c), NEW i \in LinkIds,
           Patient => s.state[i] # "CONNECTING" \/ s.pending[i]
    PROVE  Fits(StopGuard(s, i), x, c)
<1> PICK t : t = [s EXCEPT !.guard[i] = FALSE]
  OBVIOUS
<1>1. s \in LinkRecord /\ FitsBut(s, x, c, i)
  BY FitsIsBut DEF Fits
<1>2. /\ t \in LinkRecord /\ t.state = s.state /\ t.pending = s.pending
      /\ \A j \in LinkIds \ {i} : t.guard[j] = s.guard[j]
      /\ t.shuting = s.shuting /\ t.holders = s.holders
      /\ t.shutpending = s.shutpending /\ t.local = s.local
      /\ t.queue = s.queue /\ t.curr = s.curr
  BY <1>1 DEF LinkRecord
<1>3. \A j \in LinkIds \ {i} :
          /\ t.state[j] = s.state[j] /\ t.pending[j] = s.pending[j]
          /\ t.guard[j] = s.guard[j]
  BY <1>2
<1>4. FitsBut(t, x, c, i)
  BY ONLY <1>1, <1>2, <1>3, i \in LinkIds, StateFitsBut
<1>5. SocketFits(t, x, i)
  <2>1. SocketFits(s, x, i)
    BY DEF Fits
  <2> QED
    BY <2>1, <1>2 DEF SocketFits
<1> QED
  BY <1>4, <1>5, FitsIsBut DEF StopGuard

LEMMA ToldFits ==
    ASSUME NEW s, NEW x, NEW c, Fits(s, x, c), NEW i \in LinkIds,
           s.state[i] # "CONNECTING", NEW r, Reacts(r)
    PROVE  Fits(StopGuard(Notify(s, i, r), i), x, c)
<1> PICK t : t = Notify(s, i, r)
  OBVIOUS
<1>1. Fits(t, x, c)
  BY CallFits DEF Notify
<1>2. ASSUME Patient PROVE t.state[i] # "CONNECTING"
  <2>1. r[i] \notin {"connect", "call"}
    BY <1>2 DEF Reacts, Patient
  <2>2. s \in LinkRecord
    BY DEF Fits
  <2> QED
    BY <2>1, <2>2, CallAtRest DEF Notify
<1> QED
  BY <1>1, <1>2, StopGuardFits

(* A socket enters a state that promises little.                           *)
CanSettle(q, x, i, v) ==
    /\ Careful /\ v = "NIL" => ~Waits(q, x, Cmd("CIPSEND", i))
    /\ Careful /\ v = "CONNECTED" => ~Waits(q, x, Cmd("CIPCLOSE", i))

(* ... as it is told the outcome of a call, or forgets its socket.         *)
Settled(s, i, v) == [s EXCEPT !.state[i] = v]
Forgotten(s, i, v) == [s EXCEPT !.state[i] = v, !.pending[i] = FALSE]

LEMMA SettledFits ==
    ASSUME NEW s, NEW x, NEW c, NEW i \in LinkIds, FitsBut(s, x, c, i),
           NEW v \in {"NIL", "CONNECTED", "CLOSED"}, CanSettle(s.queue, x, i, v)
    PROVE  /\ Fits(Settled(s, i, v), x, c)
           /\ Fits(Forgotten(s, i, v), x, c)
           /\ Settled(s, i, v).state[i] = v
           /\ Forgotten(s, i, v).state[i] = v
<1>1. s \in LinkRecord
  BY DEF FitsBut
<1>2. ASSUME NEW t \in {[s EXCEPT !.state[i] = v],
                        [s EXCEPT !.state[i] = v, !.pending[i] = FALSE]}
      PROVE  Fits(t, x, c) /\ t.state[i] = v
  <2>a. v \in LinkStates
    BY DEF LinkStates
  <2>b. \/ t = [s EXCEPT !.state[i] = v]
        \/ t = [s EXCEPT !.state[i] = v, !.pending[i] = FALSE]
    BY <1>2
  <2>1. /\ t \in LinkRecord /\ t.state[i] = v
        /\ \A j \in LinkIds \ {i} :
               /\ t.state[j] = s.state[j] /\ t.pending[j] = s.pending[j]
               /\ t.guard[j] = s.guard[j]
        /\ t.shuting = s.shuting /\ t.holders = s.holders
        /\ t.shutpending = s.shutpending /\ t.local = s.local
        /\ t.queue = s.queue /\ t.curr = s.curr
    <3>1. CASE t = [s EXCEPT !.state[i] = v]
      BY ONLY <3>1, <1>1, <2>a, i \in LinkIds DEF LinkRecord
    <3>2. CASE t = [s EXCEPT !.state[i] = v, !.pending[i] = FALSE]
      BY ONLY <3>2, <1>1, <2>a, i \in LinkIds DEF LinkRecord
    <3> QED
      BY <2>b, <3>1, <3>2
  <2>2. FitsBut(t, x, c, i)
    BY ONLY <2>1, FitsBut(s, x, c, i), i \in LinkIds, StateFitsBut
  <2>3. CloseFits(t.state[i], t.queue, t.local, x, i)
    BY <2>1 DEF CloseFits
  <2>4. Careful => SendFits(t.state[i], t.queue, t.local, x, i)
    BY <2>1 DEF SendFits, CanSettle
  <2>5. SocketFits(t, x, i)
    BY <2>1, <2>3, <2>4 DEF SocketFits
  <2> QED
    BY <2>1, <2>2, <2>5, FitsIsBut
<1> QED
  BY <1>2 DEF Settled, Forgotten

LEMMA StatusIndFits ==
    ASSUME NEW s, NEW x, NEW c, NEW i \in LinkIds, NEW v, NEW r, Reacts(r),
           FitsBut(s, x, c, i), s.state[i] = "NIL" => Fits(s, x, c),
           v = "SEND_FAIL" => Fits(s, x, c),
           Careful /\ v = "CONNECT_OK" => ~Waits(s.queue, x, Cmd("CIPCLOSE", i))
    PROVE  Fits(StatusInd(s, i, v, r), x, c)
<1>1. CASE s.state[i] = "NIL"
  BY <1>1 DEF StatusInd
<1>2. CASE s.state[i] # "NIL" /\ v = "SEND_FAIL"
  <2>1. Fits(Notify(s, i, r), x, c)
    BY <1>2, CallFits DEF Notify
  <2> QED
    BY <2>1, <1>2 DEF StatusInd
<1>3. CASE s.state[i] # "NIL" /\ v # "SEND_FAIL"
  <2>1. CASE v = "CONNECT_OK"
    <3> PICK t : t = [s EXCEPT !.state[i] = "CONNECTED"]
      OBVIOUS
    <3>a. CanSettle(s.queue, x, i, "CONNECTED")
      BY <2>1 DEF CanSettle
    <3>b. "CONNECTED" \in {"NIL", "CONNECTED", "CLOSED"}
      OBVIOUS
    <3>c. /\ Fits(Settled(s, i, "CONNECTED"), x, c)
          /\ Settled(s, i, "CONNECTED").state[i] = "CONNECTED"
      BY ONLY <3>a, <3>b, i \in LinkIds, FitsBut(s, x, c, i), SettledFits
    <3>1. Fits(t, x, c) /\ t.state[i] = "CONNECTED"
      BY ONLY <3>c, t = [s EXCEPT !.state[i] = "CONNECTED"] DEF Settled
    <3>2. Fits(StopGuard(Notify(t, i, r), i), x, c)
      BY <3>1, ToldFits
    <3> QED
      BY <3>2, <2>1, <1>3 DEF StatusInd
  <2>2. CASE v # "CONNECT_OK"
    <3> PICK t : t = [s EXCEPT !.state[i] = "CLOSED"]
      OBVIOUS
    <3>a. CanSettle(s.queue, x, i, "CLOSED")
      BY DEF CanSettle
    <3>b. "CLOSED" \in {"NIL", "CONNECTED", "CLOSED"}
      OBVIOUS
    <3>c. /\ Fits(Settled(s, i, "CLOSED"), x, c)
          /\ Settled(s, i, "CLOSED").state[i] = "CLOSED"
      BY ONLY <3>a, <3>b, i \in LinkIds, FitsBut(s, x, c, i), SettledFits
    <3>1. Fits(t, x, c) /\ t.state[i] = "CLOSED"
      BY ONLY <3>c, t = [s EXCEPT !.state[i] = "CLOSED"] DEF Settled
    <3>2. Fits(StopGuard(Notify(t, i, r), i), x, c)
      BY <3>1, ToldFits
    <3> QED
      BY <3>2, <2>2, <1>3 DEF StatusInd
  <2> QED
    BY <2>1, <2>2
<1> QED
  BY <1>1, <1>2, <1>3

LEMMA CloseCnfFits ==
    ASSUME NEW s, NEW x, NEW c, NEW i \in LinkIds, NEW r, Reacts(r),
           FitsBut(s, x, c, i),
           s.state[i] \notin {"DISCONNECTING", "CLOSING"} => Fits(s, x, c),
           Careful /\ s.state[i] = "CLOSING" =>
               ~Waits(s.queue, x, Cmd("CIPSEND", i))
    PROVE  Fits(CloseCnf(s, i, r), x, c)
<1>1. CASE s.state[i] = "DISCONNECTING"
  <2> PICK t : t = [s EXCEPT !.state[i] = "CLOSED"]
    OBVIOUS
  <2>a. CanSettle(s.queue, x, i, "CLOSED")
    BY DEF CanSettle
  <2>b. "CLOSED" \in {"NIL", "CONNECTED", "CLOSED"}
    OBVIOUS
  <2>c. /\ Fits(Settled(s, i, "CLOSED"), x, c)
        /\ Settled(s, i, "CLOSED").state[i] = "CLOSED"
    BY ONLY <2>a, <2>b, i \in LinkIds, FitsBut(s, x, c, i), SettledFits
  <2>1. Fits(t, x, c) /\ t.state[i] = "CLOSED"
    BY ONLY <2>c, t = [s EXCEPT !.state[i] = "CLOSED"] DEF Settled
  <2>2. Fits(StopGuard(Notify(t, i, r), i), x, c)
    BY <2>1, ToldFits
  <2> QED
    BY <2>2, <1>1 DEF CloseCnf
<1>2. CASE s.state[i] = "CLOSING"
  <2> PICK t : t = [s EXCEPT !.state[i] = "NIL", !.pending[i] = FALSE]
    OBVIOUS
  <2>a. CanSettle(s.queue, x, i, "NIL")
    BY <1>2 DEF CanSettle
  <2>b. "NIL" \in {"NIL", "CONNECTED", "CLOSED"}
    OBVIOUS
  <2>c. Fits(Forgotten(s, i, "NIL"), x, c)
    BY ONLY <2>a, <2>b, i \in LinkIds, FitsBut(s, x, c, i), SettledFits
  <2>d. s \in LinkRecord
    BY DEF FitsBut
  <2>1. Fits(t, x, c) /\ t.state[i] = "NIL"
    BY <2>c, <2>d DEF LinkRecord, Forgotten
  <2>2. Fits(StopGuard(Notify(t, i, r), i), x, c)
    BY <2>1, ToldFits
  <2> QED
    BY <2>2, <1>2 DEF CloseCnf
<1>3. CASE s.state[i] \notin {"DISCONNECTING", "CLOSING"}
  BY <1>3 DEF CloseCnf
<1> QED
  BY <1>1, <1>2, <1>3

----------------------------------------------------------------------------
(* What a function does to every socket in turn, a recursive function of   *)
(* the numbers of the sockets                                              *)

LEMMA SmallestOfSet ==
    ASSUME NEW T, T \subseteq Nat, T # {}
    PROVE  \E m \in T : \A n \in T : m <= n
<1> DEFINE R == OpToRel(<, Nat)
<1>1. IsWellFoundedOn(R, Nat)
  BY NatLessThanWellFounded
<1>2. \A m, n \in Nat : m < n => <<m, n>> \in R
  BY DEF OpToRel
<1> HIDE DEF R
<1>3. PICK m \in T : \A n \in T : ~(<<n, m>> \in R)
  BY <1>1, WFMin
<1>4. ASSUME NEW n \in T PROVE m <= n
  <2>1. m \in Nat /\ n \in Nat /\ ~(n < m)
    BY <1>2, <1>3
  <2> QED
    BY <2>1
<1> QED
  BY <1>3, <1>4

LEMMA UpToLinks ==
    ASSUME NEW T, 0 \in T, \A n \in LinkIds : n \in T => n + 1 \in T
    PROVE  \A n \in 0..(MaxLinks + 1) : n \in T
<1> DEFINE U == (0..(MaxLinks + 1)) \ T
<1> SUFFICES ASSUME U # {} PROVE FALSE
  OBVIOUS
<1>1. U \subseteq Nat
  BY LinkAssumption
<1> HIDE DEF U
<1>2. PICK m \in U : \A n \in U : m <= n
  BY <1>1, SmallestOfSet
<1>3. m \in 0..(MaxLinks + 1) /\ m # 0 /\ m \notin T
  BY <1>2 DEF U
<1>4. m - 1 \in LinkIds /\ m - 1 \in 0..(MaxLinks + 1) /\ (m - 1) + 1 = m
  BY <1>3, LinkAssumption DEF LinkIds
<1>5. m - 1 \notin U
  BY <1>2, <1>3, LinkAssumption
<1>6. m - 1 \in T
  BY <1>4, <1>5 DEF U
<1> QED
  BY <1>3, <1>4, <1>6

Turn(F, f, s, n) == IF n = 0 THEN s ELSE F[<<f[n - 1], n - 1>>]

IsChain(f, F, s) == f = [n \in 0..(MaxLinks + 1) |-> Turn(F, f, s, n)]

LEMMA ChainExists ==
    ASSUME NEW R, NEW s \in R, NEW F \in [R \X LinkIds -> R]
    PROVE  \E f \in [0..(MaxLinks + 1) -> R] : IsChain(f, F, s)
<1> DEFINE Solves(f, m) == f \in [0..m -> R] /\ f = [n \in 0..m |-> Turn(F, f, s, n)]
           T == {m \in Nat : \E f : Solves(f, m)}
<1>1. 0 \in T
  <2> PICK f : f = [n \in 0..0 |-> s]
    OBVIOUS
  <2>1. [n \in 0..0 |-> Turn(F, f, s, n)] = f
    BY DEF Turn
  <2>2. Solves(f, 0)
    BY <2>1
  <2> QED
    BY <2>2
<1>2. ASSUME NEW m \in LinkIds, m \in T PROVE m + 1 \in T
  <2>0. m \in Nat
    BY LinkAssumption DEF LinkIds
  <2>1. PICK f : Solves(f, m)
    BY <1>2
  <2> DEFINE last == F[<<f[m], m>>]
  <2> PICK g : g = [n \in 0..(m + 1) |-> IF n = m + 1 THEN last ELSE f[n]]
    OBVIOUS
  <2>2. f[m] \in R
    BY <2>0, <2>1
  <2>3. last \in R
    BY <2>2
  <2> HIDE DEF last
  <2>4. g \in [0..(m + 1) -> R]
    BY <2>0, <2>1, <2>3
  <2>5. ASSUME NEW n \in 0..(m + 1) PROVE Turn(F, g, s, n) = g[n]
    <3>1. CASE n = 0
      <4>1. g[n] = f[0] /\ 0 \in 0..m
        BY <3>1, <2>0
      <4>2. f[0] = Turn(F, f, s, 0)
        BY <2>1, <4>1
      <4> QED
        BY <3>1, <4>1, <4>2 DEF Turn
    <3>2. CASE n = m + 1
      <4>1. g[n] = last /\ n # 0 /\ n - 1 = m /\ g[m] = f[m]
        BY <3>2, <2>0
      <4> QED
        BY <4>1 DEF Turn, last
    <3>3. CASE n # 0 /\ n # m + 1
      <4>1. n \in 0..m /\ n - 1 \in 0..m /\ g[n] = f[n] /\ g[n - 1] = f[n - 1]
        BY <3>3, <2>0
      <4>2. f[n] = Turn(F, f, s, n)
        BY <2>1, <4>1
      <4> QED
        BY <3>3, <4>1, <4>2 DEF Turn
    <3> QED
      BY <3>1, <3>2, <3>3
  <2>6. g = [n \in 0..(m + 1) |-> Turn(F, g, s, n)]
    <3>1. [n \in 0..(m + 1) |-> Turn(F, g, s, n)] = [n \in 0..(m + 1) |-> g[n]]
      BY <2>5
    <3>2. g = [n \in 0..(m + 1) |-> g[n]]
      BY <2>4
    <3> QED
      BY <3>1, <3>2
  <2>7. Solves(g, m + 1)
    BY <2>4, <2>6
  <2> QED
    BY <2>0, <2>7
<1>3. \A n \in 0..(MaxLinks + 1) : n \in T
  <2> HIDE DEF T
  <2> QED
    BY <1>1, <1>2, UpToLinks
<1>4. MaxLinks + 1 \in T
  BY <1>3, LinkAssumption
<1> QED
  BY <1>4 DEF IsChain

(* A recursion whose steps stay in a set R ends in R.                      *)
LEMMA ChainEnds ==
    ASSUME NEW R, NEW f, f[0] \in R,
           \A n \in LinkIds : f[n] \in R => f[n + 1] \in R
    PROVE  f[MaxLinks + 1] \in R
<1> DEFINE T == {n \in 0..(MaxLinks + 1) : f[n] \in R}
<1>0. MaxLinks \in Nat
  BY LinkAssumption
<1>1. 0 \in T
  BY <1>0
<1>2. ASSUME NEW n \in LinkIds, n \in T PROVE n + 1 \in T
  <2>1. n + 1 \in 0..(MaxLinks + 1)
    BY <1>0 DEF LinkIds
  <2> QED
    BY <1>2, <2>1
<1>3. \A n \in 0..(MaxLinks + 1) : n \in T
  <2> HIDE DEF T
  <2> QED
    BY <1>1, <1>2, UpToLinks
<1> QED
  BY <1>0, <1>3

LEMMA ConnPendOneFits ==
    ASSUME NEW s, NEW x, NEW c, Fits(s, x, c), NEW i \in LinkIds
    PROVE  Fits(ConnPendOne(s, i), x, c)
<1> PICK d : d = Cmd("CIPSTART", i)
  OBVIOUS
<1> PICK q : q = Req(s, d)
  OBVIOUS
<1> PICK t : t = [q EXCEPT !.guard[i] = TRUE, !.pending[i] = FALSE]
  OBVIOUS
<1>1. d \in Command /\ Allowed(s, d)
  BY CmdType, PlainAllowed DEF Verbs, SocketVerbs
<1>2. Fits(q, x, c)
  BY <1>1, ReqFits
<1>3. q \in LinkRecord /\ FitsBut(q, x, c, i)
  BY <1>2, FitsIsBut DEF Fits
<1>4. /\ t \in LinkRecord /\ t.state = q.state /\ t.guard[i] = TRUE
      /\ \A j \in LinkIds \ {i} :
             t.pending[j] = q.pending[j] /\ t.guard[j] = q.guard[j]
      /\ t.shuting = q.shuting /\ t.holders = q.holders
      /\ t.shutpending = q.shutpending /\ t.local = q.local
      /\ t.queue = q.queue /\ t.curr = q.curr
  BY <1>3 DEF LinkRecord
<1>5. \A j \in LinkIds \ {i} :
          /\ t.state[j] = q.state[j] /\ t.pending[j] = q.pending[j]
          /\ t.guard[j] = q.guard[j]
  BY <1>4
<1>6. FitsBut(t, x, c, i)
  BY ONLY <1>3, <1>4, <1>5, i \in LinkIds, StateFitsBut
<1>7. SocketFits(t, x, i)
  <2>1. SocketFits(q, x, i)
    BY <1>2 DEF Fits
  <2> QED
    BY <2>1, <1>4 DEF SocketFits
<1>8. Fits(t, x, c)
  BY <1>6, <1>7, FitsIsBut
<1> QED
  BY <1>8 DEF ConnPendOne

ConnPendTurn(f, s, n) == IF n = 0 THEN s ELSE ConnPendOne(f[n - 1], n - 1)

ConnPendChain(s) ==
    CHOOSE f : f = [n \in 0..(MaxLinks + 1) |-> ConnPendTurn(f, s, n)]

LEMMA ConnPendIsChain == \A s : ConnPend(s) = ConnPendChain(s)[MaxLinks + 1]
BY DEF ConnPend, ConnPendChain, ConnPendTurn

(* connpend goes through the sockets one after the other. *)
LEMMA ConnPendSteps ==
    ASSUME NEW R, NEW s \in R,
           \A u \in R, i \in LinkIds : ConnPendOne(u, i) \in R
    PROVE  \E g :
               /\ g[0] = s
               /\ \A n \in LinkIds : g[n + 1] = ConnPendOne(g[n], n)
               /\ ConnPend(s) = g[MaxLinks + 1]
<1> DEFINE F == [p \in R \X LinkIds |-> ConnPendOne(p[1], p[2])]
<1>1. F \in [R \X LinkIds -> R]
  OBVIOUS
<1>2. \A u \in R, i \in LinkIds : F[<<u, i>>] = ConnPendOne(u, i)
  OBVIOUS
<1> HIDE DEF F
<1>3. ASSUME NEW f, f \in [0..(MaxLinks + 1) -> R]
      PROVE  [n \in 0..(MaxLinks + 1) |-> Turn(F, f, s, n)] =
                 [n \in 0..(MaxLinks + 1) |-> ConnPendTurn(f, s, n)]
  <2>1. ASSUME NEW n \in 0..(MaxLinks + 1)
        PROVE  Turn(F, f, s, n) = ConnPendTurn(f, s, n)
    <3>1. CASE n = 0
      BY <3>1 DEF Turn, ConnPendTurn
    <3>2. CASE n # 0
      <4>1. n - 1 \in LinkIds /\ n - 1 \in 0..(MaxLinks + 1)
        BY <3>2, LinkAssumption DEF LinkIds
      <4>2. f[n - 1] \in R
        BY <4>1, <1>3
      <4> QED
        BY <4>1, <4>2, <3>2, <1>2 DEF Turn, ConnPendTurn
    <3> QED
      BY <3>1, <3>2
  <2> QED
    BY <2>1
<1>4. PICK f \in [0..(MaxLinks + 1) -> R] : IsChain(f, F, s)
  BY <1>1, ChainExists
<1>5. f = [n \in 0..(MaxLinks + 1) |-> ConnPendTurn(f, s, n)]
  BY <1>3, <1>4 DEF IsChain
<1> PICK g : g = ConnPendChain(s)
  OBVIOUS
<1>6. g = [n \in 0..(MaxLinks + 1) |-> ConnPendTurn(g, s, n)]
  BY <1>5 DEF ConnPendChain
<1>7. g[0] = s
  BY <1>6, LinkAssumption DEF ConnPendTurn
<1>8. ASSUME NEW n \in LinkIds PROVE g[n + 1] = ConnPendOne(g[n], n)
  <2>1. n + 1 \in 0..(MaxLinks + 1) /\ n + 1 # 0 /\ (n + 1) - 1 = n
    BY LinkAssumption DEF LinkIds
  <2>2. g[n + 1] = ConnPendTurn(g, s, n + 1)
    BY <1>6, <2>1
  <2> QED
    BY <2>1, <2>2 DEF ConnPendTurn
<1> QED
  BY <1>7, <1>8, ConnPendIsChain

LEMMA ConnPendFits ==
    ASSUME NEW s, NEW x, NEW c, Fits(s, x, c)
    PROVE  Fits(ConnPend(s), x, c)
<1> DEFINE R == {u \in LinkRecord : Fits(u, x, c)}
<1>1. s \in R
  BY DEF Fits
<1>2. ASSUME NEW u \in R, NEW i \in LinkIds PROVE ConnPendOne(u, i) \in R
  <2>1. Fits(ConnPendOne(u, i), x, c)
    BY ConnPendOneFits
  <2> QED
    BY <2>1 DEF Fits
<1>3. \A t : t \in R => Fits(t, x, c)
  OBVIOUS
<1> HIDE DEF R
<1>4. PICK g : /\ g[0] = s
               /\ \A n \in LinkIds : g[n + 1] = ConnPendOne(g[n], n)
               /\ ConnPend(s) = g[MaxLinks + 1]
  BY <1>1, <1>2, ConnPendSteps
<1>5. g[MaxLinks + 1] \in R
  BY <1>1, <1>2, <1>4, ChainEnds
<1> QED
  BY <1>3, <1>4, <1>5

LEMMA ShutOneFits ==
    ASSUME NEW s, NEW x, NEW c, Fits(s, x, c), NEW i \in LinkIds,
           NEW r, Reacts(r)
    PROVE  Fits(ShutOne(s, i, r), x, c)
<1>1. CASE s.state[i] = "NIL"
  BY <1>1 DEF ShutOne
<1>2. CASE \/ s.state[i] = "CONNECTING" /\ s.pending[i]
           \/ s.state[i] = "INITIAL"
  <2>1. Fits(StopGuard(s, i), x, c)
    BY <1>2, StopGuardFits
  <2> QED
    BY <2>1, <1>2 DEF ShutOne
<1>3. CASE /\ s.state[i] # "NIL"
           /\ ~(\/ s.state[i] = "CONNECTING" /\ s.pending[i]
                \/ s.state[i] = "INITIAL")
  <2> PICK t : t = [s EXCEPT !.state[i] = "CLOSED"]
    OBVIOUS
  <2>a. CanSettle(s.queue, x, i, "CLOSED") /\ FitsBut(s, x, c, i)
    BY FitsIsBut DEF CanSettle
  <2>b. "CLOSED" \in {"NIL", "CONNECTED", "CLOSED"}
    OBVIOUS
  <2>c. /\ Fits(Settled(s, i, "CLOSED"), x, c)
        /\ Settled(s, i, "CLOSED").state[i] = "CLOSED"
    BY ONLY <2>a, <2>b, i \in LinkIds, FitsBut(s, x, c, i), SettledFits
  <2>1. Fits(t, x, c) /\ t.state[i] = "CLOSED"
    BY ONLY <2>c, t = [s EXCEPT !.state[i] = "CLOSED"] DEF Settled
  <2>2. Fits(StopGuard(Notify(t, i, r), i), x, c)
    BY <2>1, ToldFits
  <2> QED
    BY <2>2, <1>3 DEF ShutOne
<1> QED
  BY <1>1, <1>2, <1>3

ShutTurn(f, s, n, r) == IF n = 0 THEN s ELSE ShutOne(f[n - 1], n - 1, r)

ShutChain(s, r) ==
    CHOOSE f : f = [n \in 0..(MaxLinks + 1) |-> ShutTurn(f, s, n, r)]

LEMMA ShutIsChain == \A s, r : ShutAll(s, r) = ShutChain(s, r)[MaxLinks + 1]
BY DEF ShutAll, ShutChain, ShutTurn

(* shutcnf goes through the sockets one after the other. *)
LEMMA ShutSteps ==
    ASSUME NEW R, NEW s \in R, NEW r,
           \A u \in R, i \in LinkIds : ShutOne(u, i, r) \in R
    PROVE  \E g :
               /\ g[0] = s
               /\ \A n \in LinkIds : g[n + 1] = ShutOne(g[n], n, r)
               /\ ShutAll(s, r) = g[MaxLinks + 1]
<1> DEFINE F == [p \in R \X LinkIds |-> ShutOne(p[1], p[2], r)]
<1>1. F \in [R \X LinkIds -> R]
  OBVIOUS
<1>2. \A u \in R, i \in LinkIds : F[<<u, i>>] = ShutOne(u, i, r)
  OBVIOUS
<1> HIDE DEF F
<1>3. ASSUME NEW f, f \in [0..(MaxLinks + 1) -> R]
      PROVE  [n \in 0..(MaxLinks + 1) |-> Turn(F, f, s, n)] =
                 [n \in 0..(MaxLinks + 1) |-> ShutTurn(f, s, n, r)]
  <2>1. ASSUME NEW n \in 0..(MaxLinks + 1)
        PROVE  Turn(F, f, s, n) = ShutTurn(f, s, n, r)
    <3>1. CASE n = 0
      BY <3>1 DEF Turn, ShutTurn
    <3>2. CASE n # 0
      <4>1. n - 1 \in LinkIds /\ n - 1 \in 0..(MaxLinks + 1)
        BY <3>2, LinkAssumption DEF LinkIds
      <4>2. f[n - 1] \in R
        BY <4>1, <1>3
      <4> QED
        BY <4>1, <4>2, <3>2, <1>2 DEF Turn, ShutTurn
    <3> QED
      BY <3>1, <3>2
  <2> QED
    BY <2>1
<1>4. PICK f \in [0..(MaxLinks + 1) -> R] : IsChain(f, F, s)
  BY <1>1, ChainExists
<1>5. f = [n \in 0..(MaxLinks + 1) |-> ShutTurn(f, s, n, r)]
  BY <1>3, <1>4 DEF IsChain
<1> PICK g : g = ShutChain(s, r)
  OBVIOUS
<1>6. g = [n \in 0..(MaxLinks + 1) |-> ShutTurn(g, s, n, r)]
  BY <1>5 DEF ShutChain
<1>7. g[0] = s
  BY <1>6, LinkAssumption DEF ShutTurn
<1>8. ASSUME NEW n \in LinkIds PROVE g[n + 1] = ShutOne(g[n], n, r)
  <2>1. n + 1 \in 0..(MaxLinks + 1) /\ n + 1 # 0 /\ (n + 1) - 1 = n
    BY LinkAssumption DEF LinkIds
  <2>2. g[n + 1] = ShutTurn(g, s, n + 1, r)
    BY <1>6, <2>1
  <2> QED
    BY <2>1, <2>2 DEF ShutTurn
<1> QED
  BY <1>7, <1>8, ShutIsChain

LEMMA ShutAllFits ==
    ASSUME NEW s, NEW x, NEW c, Fits(s, x, c), NEW r, Reacts(r)
    PROVE  Fits(ShutAll(s, r), x, c)
<1> DEFINE R == {u \in LinkRecord : Fits(u, x, c)}
<1>1. s \in R
  BY DEF Fits
<1>2. ASSUME NEW u \in R, NEW i \in LinkIds PROVE ShutOne(u, i, r) \in R
  <2>1. Fits(ShutOne(u, i, r), x, c)
    BY ShutOneFits
  <2> QED
    BY <2>1 DEF Fits
<1>3. \A t : t \in R => Fits(t, x, c)
  OBVIOUS
<1> HIDE DEF R
<1>4. PICK g : /\ g[0] = s
               /\ \A n \in LinkIds : g[n + 1] = ShutOne(g[n], n, r)
               /\ ShutAll(s, r) = g[MaxLinks + 1]
  BY <1>1, <1>2, ShutSteps
<1>5. g[MaxLinks + 1] \in R
  BY <1>1, <1>2, <1>4, ChainEnds
<1> QED
  BY <1>3, <1>4, <1>5

----------------------------------------------------------------------------
(* Results and reports *)

LEMMA TimerFits ==
    ASSUME NEW s, NEW x, NEW c, Fits(s, x, c), NEW b \in BOOLEAN
    PROVE  /\ Fits([s EXCEPT !.tstatus = b], x, c)
           /\ Fits([s EXCEPT !.tciicr = b], x, c)
           /\ Fits([s EXCEPT !.tsetup = b], x, c)
           /\ Fits([s EXCEPT !.cgatt = b], x, c)
           /\ Fits([s EXCEPT !.flymode = b], x, c)
<1>1. s \in LinkRecord
  BY DEF Fits
<1>2. ASSUME NEW t, t \in LinkRecord /\ Alike(s, t) PROVE Fits(t, x, c)
  BY <1>2, AlikeFits
<1>3. PICK t1 : t1 = [s EXCEPT !.tstatus = b]
  OBVIOUS
<1>4. PICK t2 : t2 = [s EXCEPT !.tciicr = b]
  OBVIOUS
<1>5. PICK t3 : t3 = [s EXCEPT !.tsetup = b]
  OBVIOUS
<1>6. PICK t4 : t4 = [s EXCEPT !.cgatt = b]
  OBVIOUS
<1>7. PICK t5 : t5 = [s EXCEPT !.flymode = b]
  OBVIOUS
<1>8. t1 \in LinkRecord /\ Alike(s, t1)
  BY <1>1, <1>3 DEF LinkRecord, Alike
<1>9. t2 \in LinkRecord /\ Alike(s, t2)
  BY <1>1, <1>4 DEF LinkRecord, Alike
<1>10. t3 \in LinkRecord /\ Alike(s, t3)
  BY <1>1, <1>5 DEF LinkRecord, Alike
<1>11. t4 \in LinkRecord /\ Alike(s, t4)
  BY <1>1, <1>6 DEF LinkRecord, Alike
<1>12. t5 \in LinkRecord /\ Alike(s, t5)
  BY <1>1, <1>7 DEF LinkRecord, Alike
<1> QED
  BY <1>2, <1>3, <1>4, <1>5, <1>6, <1>7, <1>8, <1>9, <1>10, <1>11, <1>12

LEMMA LostFits ==
    ASSUME NEW s, NEW x, NEW c, Fits(s, x, c)
    PROVE  Fits([Shut(s) EXCEPT !.tstatus = FALSE], x, c)
BY ShutKeeps, TimerFits

LEMMA SetIPStatusFits ==
    ASSUME NEW s, NEW x, NEW c, Fits(s, x, c), NEW status \in IpStates
    PROVE  Fits(SetIPStatus(s, status), x, c)
<1> PICK t : t = [s EXCEPT !.ip = status, !.tciicr = @ /\ status # "GPRSACT"]
  OBVIOUS
<1>1. s \in LinkRecord
  BY DEF Fits
<1>2. t \in LinkRecord /\ Alike(s, t)
  BY <1>1 DEF LinkRecord, Alike
<1>3. Fits(t, x, c)
  BY <1>2, AlikeFits
<1>4. CASE s.ip = status /\ status \in {"INITIAL", "STATUS", "PROCESSING"}
  BY <1>4 DEF SetIPStatus
<1>5. CASE s.ip # status /\ status = "INITIAL"
  <2>1. Fits([t EXCEPT !.tsetup = TRUE], x, c)
    BY <1>3, TimerFits
  <2> QED
    BY <2>1, <1>5 DEF SetIPStatus
<1>6. CASE s.ip # status /\ status = "STATUS"
  <2>1. Fits(ConnPend(t), x, c)
    BY <1>3, ConnPendFits
  <2> QED
    BY <2>1, <1>6 DEF SetIPStatus
<1>7. CASE s.ip # status /\ status = "PROCESSING"
  BY <1>3, <1>7 DEF SetIPStatus
<1>8. CASE status = "START"
  <2>1. Fits([t EXCEPT !.tstatus = TRUE], x, c)
    BY <1>3, TimerFits
  <2> QED
    BY <2>1, <1>8 DEF SetIPStatus
<1>9. CASE status = "GPRSACT"
  <2>1. Fits(Req(t, Plain("CIFSR")), x, c)
    BY <1>3, PlainFits DEF Verbs
  <2>2. Fits(Req(Req(t, Plain("CIFSR")), Plain("CIPSTATUS")), x, c)
    BY <2>1, PlainFits DEF Verbs
  <2> QED
    BY <2>2, <1>9 DEF SetIPStatus
<1>10. CASE status = "DEACT"
  <2>1. Fits([Shut(t) EXCEPT !.tstatus = FALSE], x, c)
    BY <1>3, LostFits
  <2> QED
    BY <2>1, <1>10 DEF SetIPStatus
<1> QED
  BY <1>4, <1>5, <1>6, <1>7, <1>8, <1>9, <1>10 DEF IpStates

(* The command x has been answered and is waited for no more.              *)
LEMMA UnaskedBut ==
    ASSUME NEW s, NEW x, NEW c, Fits(s, x, c), NEW i \in LinkIds,
           \A j \in LinkIds \ {i} : x # Cmd("CIPCLOSE", j),
           s.shuting => x # Plain("CIPSHUT")
    PROVE  FitsBut(s, NoCmd, c, i)
<1>1. \A q, e : Waits(q, NoCmd, e) => Waits(q, x, e) \/ e = NoCmd
  BY DEF Waits
<1>2. \A q, e : x # e /\ Waits(q, x, e) => Waits(q, NoCmd, e)
  BY DEF Waits
<1>3. ShutFits(s, NoCmd)
  BY <1>2 DEF Fits, ShutFits
<1>4. ASSUME NEW j \in LinkIds \ {i} PROVE SocketFits(s, NoCmd, j)
  <2>1. SocketFits(s, x, j)
    BY DEF Fits
  <2>2. CloseFits(s.state[j], s.queue, s.local, NoCmd, j)
    BY <2>1, <1>2 DEF SocketFits, CloseFits
  <2>3. ASSUME Careful PROVE SendFits(s.state[j], s.queue, s.local, NoCmd, j)
    BY <2>1, <2>3, <1>1, CmdDistinct DEF SocketFits, SendFits
  <2> QED
    BY <2>1, <2>2, <2>3 DEF SocketFits
<1>5. Careful => \A j \in LinkIds : Ordered(s.queue, NoCmd, j)
  BY UnaskedOrdered DEF Fits
<1> QED
  BY <1>3, <1>4, <1>5 DEF Fits, FitsBut

LEMMA UnaskedFits ==
    ASSUME NEW s, NEW x, NEW c, Fits(s, x, c),
           \A j \in LinkIds : x # Cmd("CIPCLOSE", j) \/
               s.state[j] \notin {"DISCONNECTING", "CLOSING"},
           s.shuting => x # Plain("CIPSHUT")
    PROVE  Fits(s, NoCmd, c)
<1>1. \A q, e : Waits(q, NoCmd, e) => Waits(q, x, e) \/ e = NoCmd
  BY DEF Waits
<1>2. \A q, e : x # e /\ Waits(q, x, e) => Waits(q, NoCmd, e)
  BY DEF Waits
<1>3. ShutFits(s, NoCmd)
  BY <1>2 DEF Fits, ShutFits
<1>4. ASSUME NEW j \in LinkIds PROVE SocketFits(s, NoCmd, j)
  <2>1. SocketFits(s, x, j)
    BY DEF Fits
  <2>2. CloseFits(s.state[j], s.queue, s.local, NoCmd, j)
    BY <2>1, <1>2 DEF SocketFits, CloseFits
  <2>3. ASSUME Careful PROVE SendFits(s.state[j], s.queue, s.local, NoCmd, j)
    BY <2>1, <2>3, <1>1, CmdDistinct DEF SocketFits, SendFits
  <2> QED
    BY <2>1, <2>2, <2>3 DEF SocketFits
<1>5. Careful => \A j \in LinkIds : Ordered(s.queue, NoCmd, j)
  BY UnaskedOrdered DEF Fits
<1> QED
  BY <1>3, <1>4, <1>5 DEF Fits

LEMMA ShutCnfFits ==
    ASSUME NEW s, NEW x, NEW c, Fits(s, x, c), NEW ok, NEW r, Reacts(r),
           \A j \in LinkIds : x # Cmd("CIPCLOSE", j)
    PROVE  Fits(ShutCnf(s, ok, r), NoCmd, c)
<1> PICK t : t = [s EXCEPT !.shuting = FALSE]
  OBVIOUS
<1>1. s \in LinkRecord
  BY DEF Fits
<1>2. /\ t \in LinkRecord /\ t.shuting = FALSE
      /\ t.state = s.state /\ t.pending = s.pending /\ t.guard = s.guard
      /\ t.local = s.local /\ t.queue = s.queue /\ t.curr = s.curr
      /\ t.shutpending = s.shutpending /\ t.holders = s.holders
  BY <1>1 DEF LinkRecord
<1>3. ShutFits(t, x)
  BY <1>2 DEF ShutFits, Fits
<1>4. Fits(t, x, c)
  BY <1>2, <1>3, ShutFitsAnew
<1>5. Fits(t, NoCmd, c)
  BY <1>2, <1>4, UnaskedFits
<1>6. CASE ok
  <2>1. Fits(SetIPStatus(t, "INITIAL"), NoCmd, c)
    BY <1>5, SetIPStatusFits DEF IpStates
  <2>2. Fits(ShutAll(SetIPStatus(t, "INITIAL"), r), NoCmd, c)
    BY <2>1, ShutAllFits
  <2>3. Fits([ShutAll(SetIPStatus(t, "INITIAL"), r) EXCEPT !.tciicr = FALSE],
             NoCmd, c)
    BY <2>2, TimerFits
  <2> QED
    BY <2>3, <1>6 DEF ShutCnf
<1>7. CASE ~ok
  <2> PICK u : u = [t EXCEPT !.tstatus = TRUE]
    OBVIOUS
  <2>1. Fits(u, NoCmd, c)
    BY <1>5, TimerFits
  <2>2. Fits([u EXCEPT !.tciicr = FALSE], NoCmd, c)
    BY <2>1, TimerFits
  <2>3. ShutCnf(s, ok, r) = [u EXCEPT !.tciicr = FALSE]
    BY <1>2, <1>7 DEF ShutCnf, LinkRecord
  <2> QED
    BY <2>2, <2>3
<1> QED
  BY <1>6, <1>7

LEMMA RspFits ==
    ASSUME NEW s, NEW x \in Command, NEW c, Fits(s, x, c), NEW v,
           NEW r, Reacts(r)
    PROVE  Fits(Rsp(s, x, v, r), NoCmd, c)
<1>0. x.id \in LinkIds /\ x.verb \in Verbs /\ x = Cmd(x.verb, x.id)
  BY DEF Command, SocketVerbs, Cmd
<1>1. \A j \in LinkIds : x = Cmd("CIPCLOSE", j) <=> x.verb = "CIPCLOSE" /\ x.id = j
  BY <1>0, CmdEqual
<1>2. ASSUME x.verb # "CIPSHUT" PROVE x # Plain("CIPSHUT")
  BY <1>2 DEF Plain
<1>3. ASSUME x.verb \notin {"CIPCLOSE", "CIPSHUT"} PROVE Fits(s, NoCmd, c)
  BY <1>1, <1>2, <1>3, UnaskedFits
<1>4. CASE x.verb = "CIPSEND" /\ v = "PDP_DEACT"
  <2>1. Fits(Req(s, Plain("CIPSTATUS")), NoCmd, c)
    BY <1>3, <1>4, PlainFits DEF Verbs
  <2>2. Fits(SendCnf(Req(s, Plain("CIPSTATUS")), x.id, r), NoCmd, c)
    BY <2>1, <1>0, CallFits DEF SendCnf, Notify
  <2> QED
    BY <2>2, <1>4 DEF Rsp
<1>5. CASE x.verb = "CIPSEND" /\ v # "PDP_DEACT"
  <2>1. Fits(SendCnf(s, x.id, r), NoCmd, c)
    BY <1>0, <1>3, <1>5, CallFits DEF SendCnf, Notify
  <2> QED
    BY <2>1, <1>5 DEF Rsp
<1>6. CASE x.verb = "CIPCLOSE"
  <2> PICK i : i = x.id
    OBVIOUS
  <2>1. i \in LinkIds /\ x = Cmd("CIPCLOSE", i)
    BY <1>0, <1>6
  <2>2. FitsBut(s, NoCmd, c, i)
    BY <1>1, <1>2, <1>6, <2>1, UnaskedBut
  <2>3. s.state[i] \notin {"DISCONNECTING", "CLOSING"} => Fits(s, NoCmd, c)
    BY <1>1, <1>2, <1>6, <2>1, UnaskedFits
  <2>4. Careful => ~Waits(s.queue, NoCmd, Cmd("CIPSEND", i))
    BY <2>1, CmdDistinct DEF Fits, Ordered, Waits
  <2>5. Fits(CloseCnf(s, i, r), NoCmd, c)
    BY <2>1, <2>2, <2>3, <2>4, CloseCnfFits
  <2> QED
    BY <2>5, <1>6 DEF Rsp
<1>7. CASE x.verb = "CIPSHUT"
  <2>1. Fits(ShutCnf(s, v = "SHUT_OK", r), NoCmd, c)
    BY <1>1, <1>7, ShutCnfFits
  <2> QED
    BY <2>1, <1>7 DEF Rsp
<1>8. CASE x.verb = "CIPSTART" /\ v = "ERROR"
  <2>1. Fits(s, NoCmd, c) /\ FitsBut(s, NoCmd, c, x.id)
    BY <1>3, <1>8, FitsIsBut
  <2>2. Fits(StatusInd(s, x.id, v, r), NoCmd, c)
    BY <2>1, <1>0, <1>8, StatusIndFits
  <2> QED
    BY <2>2, <1>8 DEF Rsp
<1>9. CASE x.verb = "CIICR" /\ v = "OK"
  <2>1. Fits([s EXCEPT !.tciicr = TRUE], NoCmd, c)
    BY <1>3, <1>9, TimerFits
  <2> QED
    BY <2>1, <1>9 DEF Rsp
<1>10. CASE x.verb = "CIICR" /\ v # "OK"
  <2>1. Fits([Shut(s) EXCEPT !.tstatus = FALSE], NoCmd, c)
    BY <1>3, <1>10, LostFits
  <2> QED
    BY <2>1, <1>10 DEF Rsp
<1>11. CASE /\ x.verb \notin {"CIPSEND", "CIPCLOSE", "CIPSHUT", "CIICR"}
            /\ ~(x.verb = "CIPSTART" /\ v = "ERROR")
  BY <1>3, <1>11 DEF Rsp
<1> QED
  BY <1>4, <1>5, <1>6, <1>7, <1>8, <1>9, <1>10, <1>11

LEMMA ForgetFits ==
    ASSUME NEW s, NEW c, Fits(s, NoCmd, c)
    PROVE  Fits([s EXCEPT !.curr = NoCmd], NoCmd, NoCmd)
<1> PICK t : t = [s EXCEPT !.curr = NoCmd]
  OBVIOUS
<1>1. s \in LinkRecord
  BY DEF Fits
<1>2. /\ t \in LinkRecord /\ t.curr = NoCmd
      /\ t.state = s.state /\ t.pending = s.pending /\ t.guard = s.guard
      /\ t.local = s.local /\ t.queue = s.queue
      /\ t.shuting = s.shuting /\ t.shutpending = s.shutpending
      /\ t.holders = s.holders
  BY <1>1 DEF LinkRecord
<1>3. ShutFits(t, NoCmd)
  BY <1>2 DEF ShutFits, Fits
<1>4. \A j \in LinkIds : SocketFits(t, NoCmd, j)
  BY <1>2 DEF Fits, SocketFits
<1>5. Careful => \A j \in LinkIds : Ordered(t.queue, NoCmd, j)
  BY <1>2 DEF Fits
<1> QED
  BY <1>2, <1>3, <1>4, <1>5 DEF Fits

LEMMA UrcFits ==
    ASSUME NEW s, NEW x, NEW c, Fits(s, x, c), NEW line \in Line,
           NEW r, Reacts(r),
           Careful /\ line.v = "CONNECT_OK" =>
               ~Waits(s.queue, x, Cmd("CIPCLOSE", line.id))
    PROVE  Fits(Urc(s, line, r), x, c)
<1>0. /\ line.id \in LinkIds
      /\ line.t \in {"ANS", "LINK", "STATE", "PDP"}
      /\ line.t = "STATE" => line.v \in IpStates /\ line.v # "PDP_DEACT"
      /\ line.t = "PDP" => line.v = "PDP_DEACT"
  BY DEF Line, IpStates
<1>1. CASE line.t = "STATE"
  <2>1. Fits(SetIPStatus(s, line.v), x, c)
    BY <1>0, <1>1, SetIPStatusFits
  <2> QED
    BY <2>1, <1>0, <1>1 DEF Urc
<1>2. Fits([Shut(s) EXCEPT !.tstatus = FALSE], x, c)
  BY LostFits
<1>3. Fits(StatusInd(s, line.id, line.v, r), x, c)
  <2>1. FitsBut(s, x, c, line.id)
    BY FitsIsBut
  <2> QED
    BY <2>1, <1>0, StatusIndFits
<1>4. CASE line.t # "STATE" /\ line.v = "PDP_DEACT"
  <2>1. \/ Urc(s, line, r) = [Shut(s) EXCEPT !.tstatus = FALSE]
        \/ Urc(s, line, r) = StatusInd(s, line.id, line.v, r)
    BY <1>4 DEF Urc
  <2> QED
    BY <2>1, <1>2, <1>3
<1>5. CASE line.t = "LINK" /\ line.v # "PDP_DEACT"
  BY <1>3, <1>5 DEF Urc
<1>6. CASE line.t = "ANS" /\ line.v # "PDP_DEACT"
  BY <1>6 DEF Urc
<1> QED
  BY <1>0, <1>1, <1>4, <1>5, <1>6

LEMMA ProcessFits ==
    ASSUME NEW s, Fits(s, s.curr, s.curr), NEW line \in Line,
           NEW r, Reacts(r), Careful => ~Late(s, line)
    PROVE  LET t == Process(s, line, r) IN Fits(t, t.curr, t.curr)
<1>1. CASE IsFinal(s, line)
  <2>1. s.curr \in Command
    BY <1>1 DEF Fits, LinkRecord, IsFinal
  <2>2. Fits(Rsp(s, s.curr, line.v, r), NoCmd, s.curr)
    BY <2>1, RspFits
  <2> PICK t : t = [Rsp(s, s.curr, line.v, r) EXCEPT !.curr = NoCmd]
    OBVIOUS
  <2>3. Fits(t, NoCmd, NoCmd)
    BY <2>2, ForgetFits
  <2>4. t.curr = NoCmd
    BY <2>3 DEF Fits
  <2> QED
    BY <2>3, <2>4, <1>1 DEF Process
<1>2. CASE ~IsFinal(s, line)
  <2>1. Careful /\ line.v = "CONNECT_OK" =>
            ~Waits(s.queue, s.curr, Cmd("CIPCLOSE", line.id))
    BY DEF Late, Awaits, Waits
  <2>2. Fits(Urc(s, line, r), s.curr, s.curr)
    BY <2>1, UrcFits
  <2>3. Urc(s, line, r).curr = s.curr
    BY <2>2 DEF Fits
  <2> QED
    BY <2>2, <2>3, <1>2 DEF Process
<1> QED
  BY <1>1, <1>2

----------------------------------------------------------------------------
(* The actions *)

LEMMA TailType ==
    ASSUME NEW S, NEW q \in Seq(S), q # <<>>
    PROVE  Tail(q) \in Seq(S) /\ Head(q) \in S
BY HeadTailProperties

(* The next command comes to be in execution. *)
LEMMA SendAtFits ==
    ASSUME NEW s, Fits(s, s.curr, s.curr)
    PROVE  /\ Fits(SendAt(s), SendAt(s).curr, SendAt(s).curr)
           /\ Sends(s) => Head(s.queue) \in Command
<1>1. s \in LinkRecord /\ s.queue \in Seq(Command)
  BY DEF Fits, LinkRecord
<1>2. CASE ~Sends(s)
  BY <1>2 DEF SendAt
<1>3. CASE Sends(s)
  <2> PICK h : h = Head(s.queue)
    OBVIOUS
  <2> PICK q : q = Tail(s.queue)
    OBVIOUS
  <2> PICK t : t = [s EXCEPT !.curr = h, !.queue = q]
    OBVIOUS
  <2>1. s.queue # <<>> /\ s.curr = NoCmd
    BY <1>3 DEF Sends
  <2>2. h \in Command /\ q \in Seq(Command)
    BY <1>1, <2>1, TailType
  <2>3. /\ t \in LinkRecord /\ t.curr = h /\ t.queue = q
        /\ t.state = s.state /\ t.pending = s.pending /\ t.guard = s.guard
        /\ t.local = s.local /\ t.shuting = s.shuting
        /\ t.shutpending = s.shutpending /\ t.holders = s.holders
    BY <1>1, <2>2 DEF LinkRecord
  <2>4. ASSUME NEW e PROVE Has(s.queue, e) <=> h = e \/ Has(q, e)
    BY <1>1, <2>1, TailHas
  <2>5. ASSUME NEW e, e # NoCmd
        PROVE  Waits(q, h, e) <=> Waits(s.queue, NoCmd, e)
    BY <2>4, <2>5 DEF Waits
  <2>6. ShutFits(t, h)
    BY <2>1, <2>3, <2>5, CmdDistinct DEF Fits, ShutFits
  <2>7. ASSUME NEW j \in LinkIds PROVE SocketFits(t, h, j)
    <3>1. SocketFits(s, NoCmd, j)
      BY <2>1 DEF Fits
    <3>2. /\ Waits(q, h, Cmd("CIPCLOSE", j)) <=>
                 Waits(s.queue, NoCmd, Cmd("CIPCLOSE", j))
          /\ Waits(q, h, Cmd("CIPSEND", j)) <=>
                 Waits(s.queue, NoCmd, Cmd("CIPSEND", j))
      BY <2>5, CmdDistinct
    <3>3. CloseFits(t.state[j], t.queue, t.local, h, j)
      BY <3>1, <3>2, <2>3 DEF SocketFits, CloseFits
    <3>4. ASSUME Careful PROVE SendFits(t.state[j], t.queue, t.local, h, j)
      BY <3>1, <3>2, <3>4, <2>3 DEF SocketFits, SendFits
    <3> QED
      BY <3>1, <3>3, <3>4, <2>3 DEF SocketFits
  <2>8. ASSUME Careful, NEW j \in LinkIds PROVE Ordered(t.queue, h, j)
    <3>1. Ordered(s.queue, NoCmd, j)
      BY <2>1, <2>8 DEF Fits
    <3>2. Ordered(Tail(s.queue), Head(s.queue), j)
      BY <3>1, <1>1, <2>1, TailOrdered
    <3> QED
      BY <3>2, <2>3
  <2>9. Fits(t, t.curr, t.curr)
    BY <2>3, <2>6, <2>7, <2>8 DEF Fits
  <2> QED
    BY <2>2, <2>9, <1>3 DEF SendAt
<1> QED
  BY <1>2, <1>3

LEMMA HandleInv ==
    ASSUME IInv, NEW s, Fits(s, s.curr, s.curr), Handle(s)
    PROVE  Fits(l, l.curr, l.curr)' /\ wire' \in Seq(Command)
<1>1. Fits(l, l.curr, l.curr)'
  BY SendAtFits DEF Handle
<1>2. CASE Sends(s)
  <2>1. Head(s.queue) \in Command
    BY <1>2, SendAtFits
  <2>2. Append(wire, Head(s.queue)) \in Seq(Command)
    BY <2>1 DEF IInv
  <2> QED
    BY <2>2, <1>1, <1>2 DEF Handle
<1>3. CASE ~Sends(s)
  BY <1>1, <1>3 DEF Handle, IInv
<1> QED
  BY <1>2, <1>3

LEMMA SameCurr ==
    ASSUME NEW s, NEW x, Fits(s, x, x) PROVE Fits(s, s.curr, s.curr)
BY DEF Fits

LEMMA RepliesReact == \A r \in Replies : Reacts(r)
<1>1. Reacts(Quiet)
  BY DEF Reacts, Quiet
<1>2. ASSUME NEW i \in LinkIds, NEW a \in Reactions
      PROVE  Reacts([Quiet EXCEPT ![i] = a])
  BY DEF Reacts, Quiet
<1> QED
  BY <1>1, <1>2 DEF Replies

LEMMA StartFits == Fits(Start, NoCmd, NoCmd)
<1>1. Start \in LinkRecord
  <2>1. <<>> \in Seq(LocalEvents) /\ <<>> \in Seq(Command)
    OBVIOUS
  <2>2. /\ [i \in LinkIds |-> "NIL"] \in [LinkIds -> LinkStates]
        /\ [i \in LinkIds |-> FALSE] \in [LinkIds -> BOOLEAN]
        /\ {} \in SUBSET Holders /\ "INITIAL" \in IpStates
        /\ NoCmd \in Command \union {NoCmd}
    BY DEF LinkStates, IpStates
  <2> QED
    BY ONLY <2>1, <2>2 DEF Start, LinkRecord
<1>2. \A e : ~Has(<<>>, e)
  BY DEF Has
<1>3. /\ Start.queue = <<>> /\ Start.local = <<>> /\ Start.curr = NoCmd
      /\ Start.shuting = FALSE /\ Start.shutpending = FALSE
      /\ \A i \in LinkIds : Start.state[i] = "NIL"
  BY DEF Start
<1>4. ShutFits(Start, NoCmd)
  BY <1>3 DEF ShutFits
<1>5. ASSUME NEW j \in LinkIds PROVE SocketFits(Start, NoCmd, j)
  <2>1. ~Waits(<<>>, NoCmd, Cmd("CIPSEND", j))
    BY <1>2, CmdDistinct DEF Waits
  <2>2. CloseFits(Start.state[j], Start.queue, Start.local, NoCmd, j)
    BY <1>3 DEF CloseFits
  <2>3. SendFits(Start.state[j], Start.queue, Start.local, NoCmd, j)
    BY <2>1, <1>3 DEF SendFits
  <2> QED
    BY <2>2, <2>3, <1>3 DEF SocketFits
<1>6. ASSUME NEW j \in LinkIds PROVE Ordered(Start.queue, NoCmd, j)
  BY <1>2, <1>3 DEF Ordered
<1> QED
  BY <1>1, <1>3, <1>4, <1>5, <1>6 DEF Fits

LEMMA InitInv == Init => IInv
<1> SUFFICES ASSUME Init PROVE IInv
  OBVIOUS
<1>1. l.curr = NoCmd /\ Fits(l, NoCmd, NoCmd)
  BY StartFits DEF Init, Start
<1>2. Fits(l, l.curr, l.curr)
  BY <1>1
<1>3. conn \in [LinkIds -> {"free", "opening", "open"}] /\ mip \in IpStates
  BY DEF Init, IpStates
<1>4. wire = <<>> /\ out = <<>> /\ reading = FALSE
  BY DEF Init
<1>5. <<>> \in Seq(Command) /\ <<>> \in Seq(Line)
  OBVIOUS
<1> QED
  BY <1>2, <1>3, <1>4, <1>5 DEF IInv

LEMMA OwnerCallsInv == IInv /\ OwnerCalls => IInv'
<1> SUFFICES ASSUME IInv, OwnerCalls PROVE IInv'
  OBVIOUS
<1>1. PICK i \in LinkIds, a \in Calls : Handle(Call(l, i, a))
  BY DEF OwnerCalls
<1> PICK s : s = Call(l, i, a)
  OBVIOUS
<1>2. Fits(s, l.curr, l.curr)
  BY CallFits DEF IInv
<1>3. Fits(s, s.curr, s.curr)
  BY <1>2, SameCurr
<1>4. Fits(l, l.curr, l.curr)' /\ wire' \in Seq(Command)
  BY <1>1, <1>3, HandleInv
<1> QED
  BY <1>4 DEF IInv, OwnerCalls

(* The event e of socket i is handled, and is no longer there to wait for. *)
LEMMA HandledFits ==
    ASSUME NEW s, NEW x, NEW c, Fits(s, x, c), NEW i \in LinkIds,
           NEW e \in EventsOf(i), NEW t \in LinkRecord,
           \A d : Has(s.local, d) <=> e = d \/ Has(t.local, d),
           t.state = s.state, t.pending = s.pending, t.guard = s.guard,
           t.shuting = s.shuting, t.holders = s.holders,
           t.shutpending = s.shutpending, t.queue = s.queue, t.curr = s.curr
    PROVE  /\ FitsBut(t, x, c, i)
           /\ s.state[i] = "NIL" => Fits(t, x, c)
           /\ e = <<"DISCONNECT", i>> =>
                  /\ s.state[i] \notin {"DISCONNECTING", "CLOSING"} =>
                         Fits(t, x, c)
                  /\ Careful => s.state[i] # "CLOSING"
<1>1. t.curr = c /\ ShutFits(t, x)
  BY DEF Fits, ShutFits
<1>2. ASSUME NEW j \in LinkIds \ {i} PROVE SocketFits(t, x, j)
  <2>1. \A m : e # <<m, j>>
    BY DEF EventsOf
  <2>2. \A m : Has(t.local, <<m, j>>) <=> Has(s.local, <<m, j>>)
    BY <2>1
  <2>3. SocketFits(s, x, j)
    BY DEF Fits
  <2>4. CloseFits(t.state[j], t.queue, t.local, x, j)
    BY <2>2, <2>3 DEF SocketFits, CloseFits
  <2>5. Careful => SendFits(t.state[j], t.queue, t.local, x, j)
    BY <2>2, <2>3 DEF SocketFits, SendFits
  <2> QED
    BY <2>2, <2>3, <2>4, <2>5 DEF SocketFits
<1>3. Careful => \A j \in LinkIds : Ordered(t.queue, x, j)
  BY DEF Fits
<1>4. FitsBut(t, x, c, i)
  BY <1>1, <1>2, <1>3 DEF FitsBut
<1>5. SocketFits(s, x, i)
  BY DEF Fits
<1>6. Careful => SendFits(t.state[i], t.queue, t.local, x, i)
  BY <1>5 DEF SocketFits, SendFits
<1>7. ASSUME s.state[i] = "NIL" PROVE Fits(t, x, c)
  <2>1. SocketFits(t, x, i)
    BY <1>6, <1>7 DEF SocketFits, CloseFits
  <2> QED
    BY <1>4, <2>1, FitsIsBut
<1>8. ASSUME e = <<"DISCONNECT", i>>,
             s.state[i] \notin {"DISCONNECTING", "CLOSING"}
      PROVE  Fits(t, x, c)
  <2>1. e # <<"CONNECT_FAIL", i>>
    BY <1>8
  <2>2. Has(t.local, <<"CONNECT_FAIL", i>>) <=> Has(s.local, <<"CONNECT_FAIL", i>>)
    BY <2>1
  <2>3. SocketFits(t, x, i)
    BY <1>5, <1>6, <1>8, <2>2 DEF SocketFits, CloseFits
  <2> QED
    BY <1>4, <2>3, FitsIsBut
<1>9. ASSUME e = <<"DISCONNECT", i>>, Careful PROVE s.state[i] # "CLOSING"
  BY <1>5, <1>9 DEF SocketFits, SendFits
<1> QED
  BY <1>4, <1>7, <1>8, <1>9

LEMMA LocalEventInv == IInv /\ LocalEvent => IInv'
<1> SUFFICES ASSUME IInv, LocalEvent PROVE IInv'
  OBVIOUS
<1>0. l \in LinkRecord /\ l.local # <<>> /\ l.local \in Seq(LocalEvents)
  BY DEF IInv, Fits, LinkRecord, LocalEvent
<1> PICK e : e = Head(l.local)
  OBVIOUS
<1> PICK q : q = Tail(l.local)
  OBVIOUS
<1> PICK i : i = e[2]
  OBVIOUS
<1> PICK s : s = [l EXCEPT !.local = q]
  OBVIOUS
<1>1. q \in Seq(LocalEvents) /\ e \in LocalEvents
  BY <1>0, TailType
<1>2. i \in LinkIds /\ e \in EventsOf(i)
  BY <1>1 DEF LocalEvents, EventsOf
<1>3. /\ s \in LinkRecord /\ s.local = q
      /\ s.state = l.state /\ s.pending = l.pending /\ s.guard = l.guard
      /\ s.shuting = l.shuting /\ s.holders = l.holders
      /\ s.shutpending = l.shutpending /\ s.queue = l.queue
      /\ s.curr = l.curr
  BY <1>0, <1>1 DEF LinkRecord
<1>4. ASSUME NEW d PROVE Has(l.local, d) <=> e = d \/ Has(s.local, d)
  BY <1>0, <1>3, TailHas
<1> PICK c : c = l.curr
  OBVIOUS
<1>5. Fits(l, c, c)
  BY DEF IInv
<1>6. /\ FitsBut(s, c, c, i)
      /\ l.state[i] = "NIL" => Fits(s, c, c)
      /\ e = <<"DISCONNECT", i>> =>
             /\ l.state[i] \notin {"DISCONNECTING", "CLOSING"} => Fits(s, c, c)
             /\ Careful => l.state[i] # "CLOSING"
  BY ONLY <1>2, <1>3, <1>4, <1>5, HandledFits
<1>7. PICK r \in Replies :
          Handle(IF e[1] = "DISCONNECT" THEN CloseCnf(s, e[2], r)
                 ELSE StatusInd(s, e[2], e[1], r))
  BY DEF LocalEvent
<1>8. Reacts(r)
  BY RepliesReact
<1>9. CASE e[1] = "DISCONNECT"
  <2>1. e = <<"DISCONNECT", i>>
    BY <1>2, <1>9 DEF EventsOf
  <2>2. Fits(CloseCnf(s, i, r), c, c)
    BY <2>1, <1>2, <1>3, <1>6, <1>8, CloseCnfFits
  <2>3. Handle(CloseCnf(s, i, r))
    BY <1>7, <1>9
  <2> QED
    BY <2>2, <2>3, <1>3, SameCurr, HandleInv DEF IInv, LocalEvent
<1>10. CASE e[1] # "DISCONNECT"
  <2>1. e[1] = "CONNECT_FAIL"
    BY <1>2, <1>10 DEF EventsOf
  <2>2. Fits(StatusInd(s, i, "CONNECT_FAIL", r), c, c)
    BY <1>2, <1>3, <1>6, <1>8, StatusIndFits
  <2>3. Handle(StatusInd(s, i, "CONNECT_FAIL", r))
    BY <2>1, <1>7, <1>10
  <2> QED
    BY <2>2, <2>3, <1>3, SameCurr, HandleInv DEF IInv, LocalEvent
<1> QED
  BY <1>9, <1>10

LEMMA ReadLineInv == IInv /\ ReadLine => IInv'
<1> SUFFICES ASSUME IInv, ReadLine PROVE IInv'
  OBVIOUS
<1>1. out # <<>> /\ out \in Seq(Line)
  BY DEF IInv, ReadLine
<1> PICK line : line = Head(out)
  OBVIOUS
<1>2. line \in Line /\ Tail(out) \in Seq(Line)
  BY <1>1, TailType
<1>3. Careful => ~Late(l, line)
  BY DEF ReadLine, Careful
<1>4. PICK r \in Replies :
          LET s == Process(l, line, r)
          IN  IF reading' THEN l' = s /\ wire' = wire ELSE Handle(s)
  BY DEF ReadLine
<1> PICK s : s = Process(l, line, r)
  OBVIOUS
<1>5. Fits(s, s.curr, s.curr)
  <2>1. Reacts(r) /\ Fits(l, l.curr, l.curr)
    BY RepliesReact DEF IInv
  <2> QED
    BY <2>1, <1>2, <1>3, ProcessFits
<1>6. CASE reading'
  <2>1. l' = s /\ wire' = wire
    BY <1>4, <1>6
  <2>2. Fits(l, l.curr, l.curr)' /\ wire' \in Seq(Command)
    BY <2>1, <1>5 DEF IInv
  <2> QED
    BY <2>2, <1>2 DEF IInv, ReadLine
<1>7. CASE ~reading'
  <2>1. Handle(s)
    BY <1>4, <1>7
  <2>2. Fits(l, l.curr, l.curr)' /\ wire' \in Seq(Command)
    BY <2>1, <1>5, HandleInv
  <2> QED
    BY <2>2, <1>2 DEF IInv, ReadLine
<1> QED
  BY <1>6, <1>7

LEMMA SetupTimerInv == IInv /\ SetupTimer => IInv'
<1> SUFFICES ASSUME IInv, SetupTimer PROVE IInv'
  OBVIOUS
<1> PICK c : c = l.curr
  OBVIOUS
<1>1. Fits(l, c, c)
  BY DEF IInv
<1> PICK t : t = [l EXCEPT !.tsetup = FALSE]
  OBVIOUS
<1>2. Fits(t, c, c)
  BY <1>1, TimerFits
<1>3. Fits(SetupIP(t), c, c)
  BY <1>2, SetupIPFits
<1>4. Handle(SetupIP(t))
  BY DEF SetupTimer
<1> QED
  BY <1>3, <1>4, SameCurr, HandleInv DEF IInv, SetupTimer

LEMMA StatusTimerInv == IInv /\ StatusTimer => IInv'
<1> SUFFICES ASSUME IInv, StatusTimer PROVE IInv'
  OBVIOUS
<1> PICK c : c = l.curr
  OBVIOUS
<1>1. Fits(l, c, c)
  BY DEF IInv
<1> PICK t : t = [l EXCEPT !.tstatus = FALSE]
  OBVIOUS
<1>2. Fits(t, c, c)
  BY <1>1, TimerFits
<1>3. Fits(Req(t, Plain("CIPSTATUS")), c, c)
  BY <1>2, PlainFits DEF Verbs
<1>4. Handle(Req(t, Plain("CIPSTATUS")))
  BY DEF StatusTimer
<1> QED
  BY <1>3, <1>4, SameCurr, HandleInv DEF IInv, StatusTimer

LEMMA RestartInv == IInv /\ Restart => IInv'
<1> SUFFICES ASSUME IInv, Restart PROVE IInv'
  OBVIOUS
<1>1. l' = Start /\ Start.curr = NoCmd
  BY DEF Restart, Start
<1>2. Fits(l, l.curr, l.curr)'
  BY <1>1, StartFits
<1>3. (conn \in [LinkIds -> {"free", "opening", "open"}] /\ mip \in IpStates)'
  BY DEF Restart, IpStates
<1>4. wire' = <<>> /\ out' = <<>> /\ reading' = FALSE
  BY DEF Restart
<1>5. <<>> \in Seq(Command) /\ <<>> \in Seq(Line)
  OBVIOUS
<1> QED
  BY <1>2, <1>3, <1>4, <1>5 DEF IInv

LEMMA CgattFits ==
    ASSUME NEW s, NEW c, Fits(s, c, c), NEW a \in BOOLEAN
    PROVE  Fits(Cgatt(s, a), c, c)
<1> PICK t : t = [s EXCEPT !.cgatt = a]
  OBVIOUS
<1>1. Fits(t, c, c)
  BY TimerFits
<1>2. Fits(SetupIP(t), c, c)
  BY <1>1, SetupIPFits
<1>3. Fits(Req(t, Plain("CIPSTATUS")), c, c)
  BY <1>1, PlainFits DEF Verbs
<1>4. \/ Cgatt(s, a) = t \/ Cgatt(s, a) = SetupIP(t)
      \/ Cgatt(s, a) = Req(t, Plain("CIPSTATUS"))
  BY DEF Cgatt
<1> QED
  BY <1>1, <1>2, <1>3, <1>4

LEMMA CgattRspInv == IInv /\ CgattRsp => IInv'
<1> SUFFICES ASSUME IInv, CgattRsp PROVE IInv'
  OBVIOUS
<1> PICK c : c = l.curr
  OBVIOUS
<1>1. Fits(l, c, c)
  BY DEF IInv
<1>2. PICK a \in BOOLEAN : Handle(Cgatt(l, a))
  BY DEF CgattRsp
<1>3. Fits(Cgatt(l, a), c, c)
  BY <1>1, CgattFits
<1> QED
  BY <1>2, <1>3, SameCurr, HandleInv DEF IInv, CgattRsp

LEMMA FlyModeInv == IInv /\ FlyMode => IInv'
<1> SUFFICES ASSUME IInv, FlyMode PROVE IInv'
  OBVIOUS
<1> PICK c : c = l.curr
  OBVIOUS
<1>1. Fits(l, c, c) /\ l \in LinkRecord
  BY DEF IInv, Fits
<1>2. CASE Handle([l EXCEPT !.flymode = TRUE, !.tstatus = FALSE])
  <2> PICK t : t = [l EXCEPT !.flymode = TRUE]
    OBVIOUS
  <2>1. Fits(t, c, c)
    BY <1>1, TimerFits
  <2>2. Fits([t EXCEPT !.tstatus = FALSE], c, c)
    BY <2>1, TimerFits
  <2>3. [t EXCEPT !.tstatus = FALSE] =
            [l EXCEPT !.flymode = TRUE, !.tstatus = FALSE]
    OBVIOUS
  <2> QED
    BY <1>2, <2>2, <2>3, SameCurr, HandleInv DEF IInv, FlyMode
<1>3. ASSUME NEW a \in BOOLEAN, Handle(Cgatt([l EXCEPT !.flymode = FALSE], a))
      PROVE  IInv'
  <2> PICK t : t = [l EXCEPT !.flymode = FALSE]
    OBVIOUS
  <2>1. Fits(t, c, c)
    BY <1>1, TimerFits
  <2>2. Fits(Cgatt(t, a), c, c)
    BY <2>1, CgattFits
  <2> QED
    BY <1>3, <2>2, SameCurr, HandleInv DEF IInv, FlyMode
<1> QED
  BY <1>2, <1>3 DEF FlyMode

LEMMA HoldInv == IInv /\ Hold => IInv'
<1> SUFFICES ASSUME IInv, Hold PROVE IInv'
  OBVIOUS
<1> PICK c : c = l.curr
  OBVIOUS
<1>1. Fits(l, c, c) /\ l \in LinkRecord
  BY DEF IInv, Fits
<1>2. PICK h \in Holders : Handle([l EXCEPT !.holders = @ \union {h}])
  BY DEF Hold
<1> PICK t : t = [l EXCEPT !.holders = @ \union {h}]
  OBVIOUS
<1>3. /\ t \in LinkRecord /\ t.holders # {}
      /\ t.state = l.state /\ t.pending = l.pending /\ t.guard = l.guard
      /\ t.local = l.local /\ t.queue = l.queue /\ t.curr = l.curr
      /\ t.shuting = l.shuting
  BY <1>1 DEF LinkRecord
<1>4. ShutFits(t, c)
  BY <1>1, <1>3 DEF ShutFits, Fits
<1>5. Fits(t, c, c)
  BY <1>1, <1>3, <1>4, ShutFitsAnew
<1> QED
  BY <1>2, <1>5, SameCurr, HandleInv DEF IInv, Hold

LEMMA ReleaseInv == IInv /\ Release => IInv'
<1> SUFFICES ASSUME IInv, Release PROVE IInv'
  OBVIOUS
<1> PICK c : c = l.curr
  OBVIOUS
<1>1. Fits(l, c, c) /\ l \in LinkRecord
  BY DEF IInv, Fits
<1>2. PICK h \in l.holders :
          LET s == [l EXCEPT !.holders = @ \ {h}]
          IN  Handle(IF s.shutpending THEN Shut(s) ELSE s)
  BY DEF Release
<1> PICK s : s = [l EXCEPT !.holders = @ \ {h}]
  OBVIOUS
<1>3. /\ s \in LinkRecord /\ s.shutpending = l.shutpending
      /\ s.state = l.state /\ s.pending = l.pending /\ s.guard = l.guard
      /\ s.local = l.local /\ s.queue = l.queue /\ s.curr = l.curr
      /\ s.shuting = l.shuting
  BY <1>1 DEF LinkRecord
<1>4. ASSUME s.shutpending => s.holders # {} PROVE Fits(s, c, c)
  <2>1. ShutFits(s, c)
    BY <1>1, <1>3, <1>4 DEF ShutFits, Fits
  <2> QED
    BY <1>1, <1>3, <2>1, ShutFitsAnew
<1>5. CASE ~s.shutpending
  <2>1. Handle(s)
    BY <1>2, <1>5
  <2> QED
    BY <2>1, <1>4, <1>5, SameCurr, HandleInv DEF IInv, Release
<1>6. CASE s.shutpending /\ s.holders # {}
  <2>1. Handle(Shut(s))
    BY <1>2, <1>6
  <2>2. Fits(Shut(s), c, c)
    BY <1>4, <1>6, ShutKeeps
  <2> QED
    BY <2>1, <2>2, SameCurr, HandleInv DEF IInv, Release
<1>7. CASE s.shutpending /\ s.holders = {}
  <2> PICK t : t = [s EXCEPT !.shutpending = FALSE]
    OBVIOUS
  <2>1. /\ t \in LinkRecord /\ t.shutpending = FALSE /\ t.holders = {}
        /\ t.state = l.state /\ t.pending = l.pending /\ t.guard = l.guard
        /\ t.local = l.local /\ t.queue = l.queue /\ t.curr = l.curr
        /\ t.shuting = l.shuting
    BY <1>3, <1>7 DEF LinkRecord
  <2>2. ShutFits(t, c)
    BY <1>1, <2>1 DEF ShutFits, Fits
  <2>3. Fits(t, c, c)
    BY <1>1, <2>1, <2>2, ShutFitsAnew
  <2>4. Fits(Shut(t), c, c)
    BY <2>3, ShutKeeps
  <2>5. Shut(t) = Shut(s)
    <3>1. [t EXCEPT !.queue = Append(@, Plain("CIPSHUT")),
                    !.shuting = TRUE, !.shutpending = FALSE] =
          [s EXCEPT !.queue = Append(@, Plain("CIPSHUT")),
                    !.shuting = TRUE, !.shutpending = FALSE]
      BY ONLY <1>3, t = [s EXCEPT !.shutpending = FALSE] DEF LinkRecord
    <3> QED
      BY <1>7, <2>1, <3>1 DEF Shut, Req
  <2>6. Handle(Shut(t))
    BY <1>2, <1>7, <2>5
  <2> QED
    BY <2>4, <2>6, SameCurr, HandleInv DEF IInv, Release
<1> QED
  BY <1>5, <1>6, <1>7

LEMMA LnType ==
    ASSUME NEW i \in LinkIds
    PROVE  /\ \A v \in {"OK", "ERROR", "SHUT_OK", "PDP_DEACT"} :
                  Ln("ANS", i, v) \in Line
           /\ \A v \in {"SEND_OK", "SEND_FAIL", "CLOSE_OK", "CONNECT_OK",
                        "CONNECT_FAIL", "CLOSED"} : Ln("LINK", i, v) \in Line
           /\ \A v \in IpStates : Ln("STATE", i, v) \in Line
           /\ Ln("PDP", i, "PDP_DEACT") \in Line
BY DEF Ln, Line, IpStates

LEMMA SayType ==
    ASSUME out \in Seq(Line), NEW lines \in Seq(Line), Say(lines)
    PROVE  out' \in Seq(Line)
<1>1. out \o lines \in Seq(Line)
  BY ConcatProperties
<1> QED
  BY <1>1 DEF Say

LEMMA SayOne ==
    ASSUME out \in Seq(Line), NEW a \in Line, Say(<<a>>)
    PROVE  out' \in Seq(Line)
<1>1. <<a>> \in Seq(Line)
  OBVIOUS
<1> QED
  BY <1>1, SayType

LEMMA ExecuteInv == IInv /\ Execute => IInv'
<1> SUFFICES ASSUME IInv, Execute PROVE IInv'
  OBVIOUS
<1>1. /\ wire # <<>> /\ wire \in Seq(Command) /\ out \in Seq(Line)
      /\ mip \in IpStates /\ conn \in [LinkIds -> {"free", "opening", "open"}]
  BY DEF IInv, Execute
<1> PICK i : i = Head(wire).id
  OBVIOUS
<1>2. wire' \in Seq(Command) /\ i \in LinkIds
  <2>1. Tail(wire) \in Seq(Command) /\ Head(wire) \in Command
    BY <1>1, TailType
  <2> QED
    BY <2>1 DEF Execute, Command, SocketVerbs
<1> PICK ok : ok = Ln("ANS", i, "OK")
  OBVIOUS
<1> PICK error : error = Ln("ANS", i, "ERROR")
  OBVIOUS
<1>3. ok \in Line /\ error \in Line
  BY <1>2, LnType
<1> DEFINE Good == /\ out' \in Seq(Line) /\ mip' \in IpStates
                   /\ conn' \in [LinkIds -> {"free", "opening", "open"}]
<1>4. Good
  <2>1. CASE /\ Say(<<ok>>) /\ conn' = [conn EXCEPT ![i] = "opening"]
             /\ UNCHANGED mip
    BY <2>1, <1>1, <1>2, <1>3, SayOne
  <2>2. CASE Say(<<error>>) /\ UNCHANGED <<mip, conn>>
    BY <2>2, <1>1, <1>3, SayOne
  <2>3. ASSUME NEW v \in {"SEND_OK", "SEND_FAIL"},
               Say(<<Ln("LINK", i, v)>>), UNCHANGED <<mip, conn>>
        PROVE  Good
    <3>1. Ln("LINK", i, v) \in Line
      BY <1>2, LnType
    <3> QED
      BY <3>1, <2>3, <1>1, SayOne
  <2>4. CASE /\ Say(<<Ln("LINK", i, "CLOSE_OK")>>)
             /\ conn' = [conn EXCEPT ![i] = "free"] /\ UNCHANGED mip
    <3>1. Ln("LINK", i, "CLOSE_OK") \in Line
      BY <1>2, LnType
    <3> QED
      BY <3>1, <2>4, <1>1, SayOne
  <2>5. CASE /\ Say(<<error>>)
             /\ conn' = [conn EXCEPT ![i] = "free"] /\ UNCHANGED mip
    BY <2>5, <1>1, <1>3, SayOne
  <2>6. CASE /\ Say(<<Ln("ANS", i, "SHUT_OK")>>)
             /\ mip' = "INITIAL" /\ conn' = AllFree
    <3>1. Ln("ANS", i, "SHUT_OK") \in Line
      BY <1>2, LnType
    <3>2. out' \in Seq(Line)
      BY <3>1, <2>6, <1>1, SayOne
    <3>3. AllFree \in [LinkIds -> {"free", "opening", "open"}]
      BY DEF AllFree
    <3> QED
      BY <3>2, <3>3, <2>6 DEF IpStates
  <2>7. CASE /\ mip' \in {mip} \union (IF mip = "START" THEN {"GPRSACT"} ELSE {})
             /\ Say(<<ok, Ln("STATE", i, Report)>>) /\ UNCHANGED conn
    <3>1. mip' \in IpStates
      BY <2>7, <1>1 DEF IpStates
    <3>2. Report \in IpStates
      BY <3>1 DEF Report, IpStates
    <3>3. Ln("STATE", i, Report) \in Line
      BY <3>2, <1>2, LnType
    <3> PICK st : st = Ln("STATE", i, Report)
      OBVIOUS
    <3>4. <<ok, st>> \in Seq(Line)
      BY <3>3, <1>3
    <3>5. out' \in Seq(Line)
      BY <3>4, <2>7, <1>1, SayType
    <3> QED
      BY <3>1, <3>5, <2>7, <1>1
  <2>8. CASE Say(<<ok>>) /\ mip' = "START" /\ UNCHANGED conn
    BY <2>8, <1>1, <1>3, SayOne DEF IpStates
  <2>9. CASE /\ Say(<<ok>>) /\ UNCHANGED conn
             /\ mip' = IF mip = "GPRSACT" THEN "STATUS" ELSE mip
    BY <2>9, <1>1, <1>3, SayOne DEF IpStates
  <2> HIDE DEF Good
  <2> QED
    BY <2>1, <2>2, <2>3, <2>4, <2>5, <2>6, <2>7, <2>8, <2>9 DEF Execute
<1> QED
  BY <1>2, <1>4 DEF IInv, Execute

LEMMA ConnectsInv == IInv /\ Connects => IInv'
<1> SUFFICES ASSUME IInv, Connects PROVE IInv'
  OBVIOUS
<1>1. PICK i \in LinkIds :
          \/ /\ Say(<<Ln("LINK", i, "CONNECT_OK")>>)
             /\ conn' = [conn EXCEPT ![i] = "open"]
          \/ /\ Say(<<Ln("LINK", i, "CONNECT_FAIL")>>)
             /\ conn' = [conn EXCEPT ![i] = "free"]
  BY DEF Connects
<1>2. /\ Ln("LINK", i, "CONNECT_OK") \in Line
      /\ Ln("LINK", i, "CONNECT_FAIL") \in Line
  BY LnType
<1>3. out' \in Seq(Line)
  BY <1>1, <1>2, SayOne DEF IInv
<1>4. conn' \in [LinkIds -> {"free", "opening", "open"}]
  BY <1>1 DEF IInv
<1> QED
  BY <1>3, <1>4 DEF IInv, Connects

LEMMA PeerClosesInv == IInv /\ PeerCloses => IInv'
<1> SUFFICES ASSUME IInv, PeerCloses PROVE IInv'
  OBVIOUS
<1>1. PICK i \in LinkIds : /\ Say(<<Ln("LINK", i, "CLOSED")>>)
                           /\ conn' = [conn EXCEPT ![i] = "free"]
  BY DEF PeerCloses
<1>2. Ln("LINK", i, "CLOSED") \in Line
  BY LnType
<1>3. out' \in Seq(Line)
  BY <1>1, <1>2, SayOne DEF IInv
<1>4. conn' \in [LinkIds -> {"free", "opening", "open"}]
  BY <1>1 DEF IInv
<1> QED
  BY <1>3, <1>4 DEF IInv, PeerCloses

LEMMA PdpDeactInv == IInv /\ PdpDeact => IInv'
<1> SUFFICES ASSUME IInv, PdpDeact PROVE IInv'
  OBVIOUS
<1>1. Ln("PDP", 0, "PDP_DEACT") \in Line /\ Ln("ANS", 0, "PDP_DEACT") \in Line
  BY LinkZero, LnType
<1>2. out' \in Seq(Line)
  BY <1>1, SayOne DEF IInv, PdpDeact
<1>3. wire' \in Seq(Command)
  <2>1. CASE wire' = wire
    BY <2>1 DEF IInv
  <2>2. CASE wire # <<>> /\ wire' = Tail(wire)
    BY <2>2, TailType DEF IInv
  <2> QED
    BY <2>1, <2>2 DEF PdpDeact
<1>4. conn' \in [LinkIds -> {"free", "opening", "open"}] /\ mip' \in IpStates
  BY DEF PdpDeact, AllFree, IpStates
<1> QED
  BY <1>2, <1>3, <1>4 DEF IInv, PdpDeact

LEMMA StutterInv == IInv /\ UNCHANGED vars => IInv'
BY DEF IInv, vars

LEMMA NextInv == IInv /\ [Next]_vars => IInv'
BY OwnerCallsInv, LocalEventInv, ReadLineInv, SetupTimerInv, StatusTimerInv,
   RestartInv, CgattRspInv, FlyModeInv, HoldInv, ReleaseInv, ExecuteInv,
   ConnectsInv, PeerClosesInv, PdpDeactInv, StutterInv DEF Next

----------------------------------------------------------------------------
(* The properties *)

LEMMA InSeq ==
    ASSUME NEW S, NEW q \in Seq(S), NEW e
    PROVE  Has(q, e) <=> e \in ToSet(q)
BY DEF Has, ToSet

LEMMA WiderSeq ==
    ASSUME NEW S, NEW T, S \subseteq T, NEW q \in Seq(S)
    PROVE  q \in Seq(T)
<1>1. Len(q) \in Nat /\ q \in [1..Len(q) -> S]
  BY LenProperties
<1>2. q \in [1..Len(q) -> T]
  BY <1>1
<1> QED
  BY <1>1, <1>2, IsASeq

LEMMA TypeHolds == IInv => TypeOK
<1> SUFFICES ASSUME IInv PROVE TypeOK
  OBVIOUS
<1>1. l \in LinkRecord
  BY DEF IInv, Fits
<1>2. Command \subseteq [verb : Verbs, id : LinkIds \union {0}]
  BY LinkZero DEF Command, SocketVerbs
<1>3. l.queue \in Seq(Command)
  BY <1>1 DEF LinkRecord
<1>4. l.queue \in Seq([verb : Verbs, id : LinkIds \union {0}])
  BY ONLY <1>2, <1>3, WiderSeq
<1> QED
  BY <1>1, <1>4 DEF TypeOK, LinkRecord, IInv

LEMMA CloseHolds == IInv => CloseHasOutcome
<1> SUFFICES ASSUME IInv, NEW i \in LinkIds,
                    l.state[i] \in {"DISCONNECTING", "CLOSING"}
             PROVE  Awaits(l, "CIPCLOSE", i) \/ Local("DISCONNECT", i)
  BY DEF CloseHasOutcome
<1>1. CloseFits(l.state[i], l.queue, l.local, l.curr, i)
  BY DEF IInv, Fits, SocketFits
<1>2. l.local \in Seq(LocalEvents)
  BY DEF IInv, Fits, LinkRecord
<1>3. Has(l.local, <<"DISCONNECT", i>>) <=> Local("DISCONNECT", i)
  BY <1>2, InSeq DEF Local
<1> QED
  BY <1>1, <1>3 DEF CloseFits, Awaits, Waits

LEMMA ShutHolds == IInv => ShutIsCarriedOut
BY DEF IInv, Fits, ShutFits, ShutIsCarriedOut, Awaits, Waits, Cmd, Plain

LEMMA SendHolds == IInv /\ Careful => SendHasLink
<1> SUFFICES ASSUME IInv, Careful, NEW i \in LinkIds, Awaits(l, "CIPSEND", i)
             PROVE  l.state[i] # "NIL"
  BY DEF SendHasLink
<1>1. SendFits(l.state[i], l.queue, l.local, l.curr, i)
  BY DEF IInv, Fits, SocketFits
<1> QED
  BY <1>1 DEF SendFits, Awaits, Waits

LEMMA GuardHolds == IInv /\ Patient => ConnectIsGuarded
<1> SUFFICES ASSUME IInv, Patient, NEW i \in LinkIds, l.state[i] = "CONNECTING"
             PROVE  l.pending[i] \/ l.guard[i] \/ Local("CONNECT_FAIL", i)
  BY DEF ConnectIsGuarded
<1>1. l.pending[i] \/ l.guard[i] \/ Has(l.local, <<"CONNECT_FAIL", i>>)
  BY DEF IInv, Fits, SocketFits
<1>2. l.local \in Seq(LocalEvents)
  BY DEF IInv, Fits, LinkRecord
<1>3. Has(l.local, <<"CONNECT_FAIL", i>>) <=> Local("CONNECT_FAIL", i)
  BY <1>2, InSeq DEF Local
<1> QED
  BY <1>1, <1>3

LEMMA IInvHolds == Spec => []IInv
BY InitInv, NextInv, PTL DEF Spec

(* Whatever owners, the network and the modem do: a socket that is being   *)
(* closed waits for its AT+CIPCLOSE or its event, shuting says that an     *)
(* AT+CIPSHUT is under way, and a shut that is put off is put off by one   *)
(* that works.                                                             *)
THEOREM NothingIsLeftHanging ==
    Spec => [](TypeOK /\ CloseHasOutcome /\ ShutIsCarriedOut)
BY IInvHolds, TypeHolds, CloseHolds, ShutHolds, PTL

(* If no connection succeeds that has been given up and nobody closes a    *)
(* socket before the event of its disconnect, sendcnf finds the socket of  *)
(* every send that is answered, and the rest of Inv holds.                 *)
THEOREM SendsFindTheirSocket == Careful => (Spec => []Inv)
<1> SUFFICES ASSUME Careful PROVE Spec => []Inv
  OBVIOUS
<1>1. IInv => Inv
  BY TypeHolds, CloseHolds, ShutHolds, SendHolds DEF Inv
<1> QED
  BY <1>1, IInvHolds, PTL

(* If no owner connects while it is told of an event, a socket that is     *)
(* connecting waits for the network, has its timer running or is about to  *)
(* fail.                                                                   *)
THEOREM ConnectsAreGuarded == Patient => (Spec => []ConnectIsGuarded)
<1> SUFFICES ASSUME Patient PROVE Spec => []ConnectIsGuarded
  OBVIOUS
<1>1. IInv => ConnectIsGuarded
  BY GuardHolds
<1> QED
  BY <1>1, IInvHolds, PTL

----------------------------------------------------------------------------
(* No function of link.lua but statusind connects a socket; none leaves a  *)
(* socket CONNECTED for which it has requested AT+CIPCLOSE, withdraws a    *)
(* command or drops a shut that is put off.                                *)
Follows(s, t) ==
    /\ t \in LinkRecord /\ t.curr = s.curr
    /\ \A i \in LinkIds : t.state[i] = "CONNECTED" => s.state[i] = "CONNECTED"
    /\ \A i \in LinkIds :
           t.state[i] = "CONNECTED" /\ Has(t.queue, Cmd("CIPCLOSE", i)) =>
               Has(s.queue, Cmd("CIPCLOSE", i))
    /\ \A e : Has(s.queue, e) => Has(t.queue, e)
    /\ s.shutpending => t.shutpending \/ Has(t.queue, Plain("CIPSHUT"))

ShutComes(s) == s.shutpending \/ Has(s.queue, Plain("CIPSHUT"))

LEMMA FollowsType == \A s, t : Follows(s, t) => t \in LinkRecord
BY DEF Follows

LEMMA FollowsChain ==
    ASSUME NEW s, NEW t, NEW u, Follows(s, t), Follows(t, u)
    PROVE  Follows(s, u)
BY DEF Follows

LEMMA ReqFollows ==
    ASSUME NEW s \in LinkRecord, NEW d \in Command,
           \A i \in LinkIds :
               s.state[i] = "CONNECTED" => d # Cmd("CIPCLOSE", i)
    PROVE  Follows(s, Req(s, d)) /\ Has(Req(s, d).queue, d)
<1> PICK t : t = Req(s, d)
  OBVIOUS
<1>1. s.queue \in Seq(Command)
  BY DEF LinkRecord
<1>2. /\ t \in LinkRecord /\ t.queue = Append(s.queue, d)
      /\ t.state = s.state /\ t.shutpending = s.shutpending
      /\ t.curr = s.curr
  BY ReqType
<1>3. \A e : Has(t.queue, e) <=> Has(s.queue, e) \/ d = e
  BY <1>1, <1>2, AppendHas
<1> QED
  BY <1>2, <1>3 DEF Follows

LEMMA PlainFollows ==
    ASSUME NEW s \in LinkRecord, NEW v \in Verbs \ {"CIPCLOSE"}
    PROVE  Follows(s, Req(s, Plain(v))) /\ Has(Req(s, Plain(v)).queue, Plain(v))
<1>1. \A i \in LinkIds : Plain(v) # Cmd("CIPCLOSE", i)
  BY CmdEqual
<1> QED
  BY <1>1, PlainType, ReqFollows

LEMMA OtherFollows ==
    ASSUME NEW s \in LinkRecord, NEW i \in LinkIds,
           NEW v \in {"CIPSTART", "CIPSEND"}
    PROVE  Follows(s, Req(s, Cmd(v, i)))
<1>1. \A j \in LinkIds : Cmd(v, i) # Cmd("CIPCLOSE", j)
  BY CmdEqual
<1>2. Cmd(v, i) \in Command
  BY CmdType DEF Verbs, SocketVerbs
<1> QED
  BY <1>1, <1>2, ReqFollows

LEMMA ShutFollows ==
    ASSUME NEW s \in LinkRecord
    PROVE  Follows(s, Shut(s)) /\ ShutComes(Shut(s))
<1>1. CASE s.holders # {}
  <2> PICK t : t = [s EXCEPT !.shutpending = TRUE]
    OBVIOUS
  <2>1. /\ t \in LinkRecord /\ t.shutpending /\ t.state = s.state
        /\ t.queue = s.queue /\ t.curr = s.curr
    BY DEF LinkRecord
  <2> QED
    BY <2>1, <1>1 DEF Shut, Follows, ShutComes
<1>2. CASE s.holders = {}
  <2> PICK r : r = Req(s, Plain("CIPSHUT"))
    OBVIOUS
  <2> PICK t : t = [r EXCEPT !.shuting = TRUE, !.shutpending = FALSE]
    OBVIOUS
  <2>1. Follows(s, r) /\ Has(r.queue, Plain("CIPSHUT"))
    BY PlainFollows DEF Verbs
  <2>2. r \in LinkRecord
    BY <2>1 DEF Follows
  <2>3. /\ t \in LinkRecord /\ t.state = r.state
        /\ t.queue = r.queue /\ t.curr = r.curr
    BY <2>2 DEF LinkRecord
  <2> QED
    BY <2>1, <2>3, <1>2 DEF Shut, Follows, ShutComes
<1> QED
  BY <1>1, <1>2

LEMMA TimerFollows ==
    ASSUME NEW s \in LinkRecord, NEW b \in BOOLEAN
    PROVE  /\ Follows(s, [s EXCEPT !.tstatus = b])
           /\ Follows(s, [s EXCEPT !.tciicr = b])
           /\ Follows(s, [s EXCEPT !.tsetup = b])
           /\ Follows(s, [s EXCEPT !.cgatt = b])
           /\ Follows(s, [s EXCEPT !.flymode = b])
           /\ Follows(s, [s EXCEPT !.shuting = b])
BY DEF Follows, LinkRecord

LEMMA GuardFollows ==
    ASSUME NEW s \in LinkRecord, NEW i \in LinkIds, NEW b \in BOOLEAN
    PROVE  Follows(s, [s EXCEPT !.guard[i] = b])
BY DEF Follows, LinkRecord

LEMMA IpFollows ==
    ASSUME NEW s \in LinkRecord, NEW v \in IpStates, NEW b \in BOOLEAN
    PROVE  /\ Follows(s, [s EXCEPT !.ip = v])
           /\ Follows(s, [s EXCEPT !.ip = v, !.tciicr = b])
BY DEF Follows, LinkRecord

LEMMA SetupIPFollows ==
    ASSUME NEW s \in LinkRecord
    PROVE  Follows(s, SetupIP(s))
<1> PICK q : q = Req(s, Plain("CIICR"))
  OBVIOUS
<1> PICK r : r = Req(q, Plain("CIPSTATUS"))
  OBVIOUS
<1>1. Follows(s, q)
  BY PlainFollows DEF Verbs
<1>2. Follows(q, r)
  BY <1>1, FollowsType, PlainFollows DEF Verbs
<1>3. Follows(r, [r EXCEPT !.ip = "START"])
  BY <1>2, FollowsType, IpFollows DEF IpStates
<1>4. Follows(s, [r EXCEPT !.ip = "START"])
  BY <1>1, <1>2, <1>3, FollowsChain
<1>5. Follows(s, s)
  BY DEF Follows
<1> QED
  BY <1>4, <1>5 DEF SetupIP

(* A socket goes to another state than CONNECTED. *)
LEMMA StateFollows ==
    ASSUME NEW s \in LinkRecord, NEW i \in LinkIds,
           NEW v \in LinkStates \ {"CONNECTED"}
    PROVE  /\ Follows(s, [s EXCEPT !.state[i] = v])
           /\ [s EXCEPT !.state[i] = v].state[i] = v
<1>1. PICK t : t = [s EXCEPT !.state[i] = v]
  OBVIOUS
<1>2. /\ t \in LinkRecord /\ t.curr = s.curr /\ t.queue = s.queue
      /\ t.shutpending = s.shutpending /\ t.state = [s.state EXCEPT ![i] = v]
  BY <1>1 DEF LinkRecord
<1>3. s.state \in [LinkIds -> LinkStates]
  BY DEF LinkRecord
<1> QED
  BY <1>1, <1>2, <1>3 DEF Follows

LEMMA ForgetFollows ==
    ASSUME NEW s \in LinkRecord, NEW i \in LinkIds,
           NEW v \in LinkStates \ {"CONNECTED"}
    PROVE  /\ Follows(s, [s EXCEPT !.state[i] = v, !.pending[i] = FALSE])
           /\ [s EXCEPT !.state[i] = v, !.pending[i] = FALSE].state[i] = v
<1>1. PICK t : t = [s EXCEPT !.state[i] = v, !.pending[i] = FALSE]
  OBVIOUS
<1>2. /\ t \in LinkRecord /\ t.curr = s.curr /\ t.queue = s.queue
      /\ t.shutpending = s.shutpending /\ t.state = [s.state EXCEPT ![i] = v]
  BY <1>1 DEF LinkRecord
<1>3. s.state \in [LinkIds -> LinkStates]
  BY DEF LinkRecord
<1> QED
  BY <1>1, <1>2, <1>3 DEF Follows

LEMMA PendingFollows ==
    ASSUME NEW s \in LinkRecord, NEW i \in LinkIds, NEW b \in BOOLEAN
    PROVE  /\ Follows(s, [s EXCEPT !.pending[i] = b])
           /\ Follows(s, [s EXCEPT !.guard[i] = TRUE, !.pending[i] = b])
BY DEF Follows, LinkRecord

LEMMA LocalFollows ==
    ASSUME NEW s \in LinkRecord, NEW e \in LocalEvents
    PROVE  Follows(s, [s EXCEPT !.local = Append(@, e)])
<1>1. Append(s.local, e) \in Seq(LocalEvents)
  BY DEF LinkRecord
<1> QED
  BY <1>1 DEF Follows, LinkRecord

LEMMA OpenFollows ==
    ASSUME NEW s \in LinkRecord, NEW i \in LinkIds
    PROVE  Follows(s, Open(s, i))
<1> PICK t : t = [s EXCEPT !.state[i] = "INITIAL", !.pending[i] = FALSE]
  OBVIOUS
<1>1. Follows(s, t)
  BY ForgetFollows DEF LinkStates
<1>2. Follows(t, SetupIP(t))
  BY <1>1, FollowsType, SetupIPFollows
<1>3. Follows(s, SetupIP(t))
  BY <1>1, <1>2, FollowsChain
<1> QED
  BY <1>1, <1>3 DEF Open

LEMMA ConnectFollows ==
    ASSUME NEW s \in LinkRecord, NEW i \in LinkIds, NEW call \in BOOLEAN
    PROVE  Follows(s, Connect(s, i, call))
<1> PICK t : t = [s EXCEPT !.state[i] = "CONNECTING"]
  OBVIOUS
<1>1. Follows(s, t) /\ t \in LinkRecord
  <2>1. Follows(s, t)
    BY StateFollows DEF LinkStates
  <2> QED
    BY <2>1, FollowsType
<1>2. Follows(s, [t EXCEPT !.local = Append(@, <<"CONNECT_FAIL", i>>)])
  <2>1. <<"CONNECT_FAIL", i>> \in LocalEvents
    BY DEF LocalEvents
  <2> PICK u : u = [t EXCEPT !.local = Append(@, <<"CONNECT_FAIL", i>>)]
    OBVIOUS
  <2>2. Follows(t, u)
    BY <2>1, <1>1, LocalFollows
  <2>3. Follows(s, u)
    BY ONLY <1>1, <2>2, FollowsChain
  <2> QED
    BY <2>3
<1>3. Follows(s, [t EXCEPT !.pending[i] = TRUE])
  <2>1. Follows(t, [t EXCEPT !.pending[i] = TRUE])
    BY <1>1, PendingFollows
  <2> QED
    BY <1>1, <2>1, FollowsChain
<1>4. Follows(s, [Req(t, Cmd("CIPSTART", i)) EXCEPT !.guard[i] = TRUE])
  <2> PICK r : r = Req(t, Cmd("CIPSTART", i))
    OBVIOUS
  <2>1. Follows(t, r)
    BY <1>1, OtherFollows
  <2>2. Follows(r, [r EXCEPT !.guard[i] = TRUE])
    BY <2>1, FollowsType, GuardFollows
  <2> QED
    BY <1>1, <2>1, <2>2, FollowsChain
<1> QED
  BY <1>2, <1>3, <1>4 DEF Connect

LEMMA DisconnectFollows ==
    ASSUME NEW s \in LinkRecord, NEW i \in LinkIds
    PROVE  Follows(s, Disconnect(s, i))
<1> PICK t : t = [s EXCEPT !.state[i] = "DISCONNECTING", !.pending[i] = FALSE]
  OBVIOUS
<1>1. Follows(s, t) /\ t \in LinkRecord /\ t.state[i] = "DISCONNECTING"
  <2>1. Follows(s, t)
    BY ForgetFollows DEF LinkStates
  <2>2. t.state = [s.state EXCEPT ![i] = "DISCONNECTING"]
    BY DEF LinkRecord
  <2>3. s.state \in [LinkIds -> LinkStates]
    BY DEF LinkRecord
  <2> QED
    BY <2>1, <2>2, <2>3, FollowsType
<1>2. Follows(s, [t EXCEPT !.local = Append(@, <<"DISCONNECT", i>>)])
  <2>1. <<"DISCONNECT", i>> \in LocalEvents
    BY DEF LocalEvents
  <2> PICK u : u = [t EXCEPT !.local = Append(@, <<"DISCONNECT", i>>)]
    OBVIOUS
  <2>2. Follows(t, u)
    BY <2>1, <1>1, LocalFollows
  <2>3. Follows(s, u)
    BY ONLY <1>1, <2>2, FollowsChain
  <2> QED
    BY <2>3
<1>3. Follows(s, Req(t, Cmd("CIPCLOSE", i)))
  <2>1. Cmd("CIPCLOSE", i) \in Command
    BY CmdType DEF Verbs, SocketVerbs
  <2>2. \A j \in LinkIds :
            t.state[j] = "CONNECTED" => Cmd("CIPCLOSE", i) # Cmd("CIPCLOSE", j)
    BY <1>1, CmdEqual
  <2>3. Follows(t, Req(t, Cmd("CIPCLOSE", i)))
    BY <2>1, <2>2, <1>1, ReqFollows
  <2> QED
    BY <1>1, <2>3, FollowsChain
<1> QED
  BY <1>2, <1>3 DEF Disconnect

LEMMA CloseFollows ==
    ASSUME NEW s \in LinkRecord, NEW i \in LinkIds
    PROVE  Follows(s, Close(s, i))
<1> PICK t : t = [s EXCEPT !.state[i] = "CLOSING"]
  OBVIOUS
<1>1. Follows(s, t) /\ t \in LinkRecord /\ t.state[i] = "CLOSING"
  <2>1. Follows(s, t) /\ t.state[i] = "CLOSING"
    BY StateFollows DEF LinkStates
  <2> QED
    BY <2>1 DEF Follows
<1>2. Follows(s, Req(t, Cmd("CIPCLOSE", i)))
  <2>1. Cmd("CIPCLOSE", i) \in Command
    BY CmdType DEF Verbs, SocketVerbs
  <2>2. \A j \in LinkIds :
            t.state[j] = "CONNECTED" => Cmd("CIPCLOSE", i) # Cmd("CIPCLOSE", j)
    BY <1>1, CmdEqual
  <2>3. Follows(t, Req(t, Cmd("CIPCLOSE", i)))
    BY <2>1, <2>2, <1>1, ReqFollows
  <2> QED
    BY <1>1, <2>3, FollowsChain
<1> QED
  BY <1>2 DEF Close

LEMMA CallFollows ==
    ASSUME NEW s \in LinkRecord, NEW i \in LinkIds, NEW a
    PROVE  Follows(s, Call(s, i, a))
<1>1. \/ Call(s, i, a) = Open(s, i)
      \/ Call(s, i, a) = Connect(s, i, FALSE)
      \/ Call(s, i, a) = Connect(s, i, TRUE)
      \/ Call(s, i, a) = Disconnect(s, i)
      \/ Call(s, i, a) = Close(s, i)
      \/ Call(s, i, a) = Req(s, Cmd("CIPSEND", i))
      \/ Call(s, i, a) = Shut(s)
      \/ Call(s, i, a) = s
  BY DEF Call
<1>2. Follows(s, s)
  BY DEF Follows
<1>3. Follows(s, Req(s, Cmd("CIPSEND", i)))
  BY OtherFollows
<1> QED
  BY <1>1, <1>2, <1>3, OpenFollows, ConnectFollows, DisconnectFollows,
     CloseFollows, ShutFollows

(* The owner is told of a state that is not CONNECTED. *)
LEMMA ToldFollows ==
    ASSUME NEW s \in LinkRecord, NEW i \in LinkIds, NEW r
    PROVE  Follows(s, Notify(s, i, r)) /\ Follows(s, StopGuard(Notify(s, i, r), i))
<1> PICK t : t = Notify(s, i, r)
  OBVIOUS
<1>1. Follows(s, t)
  BY CallFollows DEF Notify
<1>2. Follows(t, StopGuard(t, i))
  BY <1>1, FollowsType, GuardFollows DEF StopGuard
<1> QED
  BY <1>1, <1>2, FollowsChain

(* Reports and results *)
LEMMA StatusFollows ==
    ASSUME NEW s \in LinkRecord, NEW i \in LinkIds, NEW v, v # "CONNECT_OK",
           NEW r
    PROVE  /\ Follows(s, StatusInd(s, i, v, r))
           /\ v # "SEND_FAIL" =>
                  StatusInd(s, i, v, r).state[i] # "CONNECTED"
<1>1. Follows(s, s)
  BY DEF Follows
<1>2. Follows(s, Notify(s, i, r))
  BY ToldFollows
<1> PICK t : t = [s EXCEPT !.state[i] = "CLOSED"]
  OBVIOUS
<1>3. Follows(s, t) /\ t \in LinkRecord /\ t.state[i] = "CLOSED"
  <2>1. Follows(s, t) /\ t.state[i] = "CLOSED"
    BY StateFollows DEF LinkStates
  <2> QED
    BY <2>1 DEF Follows
<1> PICK u : u = StopGuard(Notify(t, i, r), i)
  OBVIOUS
<1>4. Follows(t, u)
  BY <1>3, ToldFollows
<1>5. Follows(s, u) /\ u.state[i] # "CONNECTED"
  BY <1>3, <1>4, FollowsChain DEF Follows
<1>6. \/ StatusInd(s, i, v, r) = s /\ (s.state[i] = "NIL" \/ v = "SEND_FAIL")
      \/ StatusInd(s, i, v, r) = Notify(s, i, r) /\ v = "SEND_FAIL"
      \/ StatusInd(s, i, v, r) = u
  BY DEF StatusInd
<1> QED
  BY <1>1, <1>2, <1>5, <1>6

(* Only this connects a socket. *)
LEMMA ConnectedFollows ==
    ASSUME NEW s \in LinkRecord, NEW i \in LinkIds, NEW r
    PROVE  \/ Follows(s, StatusInd(s, i, "CONNECT_OK", r))
           \/ Follows(Settled(s, i, "CONNECTED"), StatusInd(s, i, "CONNECT_OK", r))
<1>1. Follows(s, s)
  BY DEF Follows
<1> PICK t : t = Settled(s, i, "CONNECTED")
  OBVIOUS
<1>2. t \in LinkRecord
  BY DEF Settled, LinkRecord, LinkStates
<1>3. Follows(t, StopGuard(Notify(t, i, r), i))
  BY <1>2, ToldFollows
<1>4. \/ StatusInd(s, i, "CONNECT_OK", r) = s
      \/ StatusInd(s, i, "CONNECT_OK", r) = StopGuard(Notify(t, i, r), i)
  BY DEF StatusInd, Settled
<1> QED
  BY <1>1, <1>3, <1>4

LEMMA CloseCnfFollows ==
    ASSUME NEW s \in LinkRecord, NEW i \in LinkIds, NEW r
    PROVE  Follows(s, CloseCnf(s, i, r))
<1>1. Follows(s, s)
  BY DEF Follows
<1> PICK t : t = [s EXCEPT !.state[i] = "CLOSED"]
  OBVIOUS
<1>2. Follows(s, t)
  BY StateFollows DEF LinkStates
<1>3. Follows(t, StopGuard(Notify(t, i, r), i))
  BY <1>2, FollowsType, ToldFollows
<1>4. Follows(s, StopGuard(Notify(t, i, r), i))
  BY <1>2, <1>3, FollowsChain
<1> PICK u : u = [s EXCEPT !.state[i] = "NIL", !.pending[i] = FALSE]
  OBVIOUS
<1>5. Follows(s, u)
  BY ForgetFollows DEF LinkStates
<1>6. Follows(u, StopGuard(Notify(u, i, r), i))
  BY <1>5, FollowsType, ToldFollows
<1>7. Follows(s, StopGuard(Notify(u, i, r), i))
  BY <1>5, <1>6, FollowsChain
<1>8. \/ CloseCnf(s, i, r) = s
      \/ CloseCnf(s, i, r) = StopGuard(Notify(t, i, r), i)
      \/ CloseCnf(s, i, r) = StopGuard(Notify(u, i, r), i)
  BY DEF CloseCnf
<1> QED
  BY <1>1, <1>4, <1>7, <1>8

LEMMA ShutOneFollows ==
    ASSUME NEW s \in LinkRecord, NEW i \in LinkIds, NEW r
    PROVE  Follows(s, ShutOne(s, i, r)) /\ ShutOne(s, i, r).state[i] # "CONNECTED"
<1>1. Follows(s, s)
  BY DEF Follows
<1> PICK u : u = StopGuard(s, i)
  OBVIOUS
<1>2. Follows(s, u)
  BY GuardFollows DEF StopGuard
<1> PICK t : t = [s EXCEPT !.state[i] = "CLOSED"]
  OBVIOUS
<1>3. Follows(s, t) /\ t \in LinkRecord /\ t.state[i] = "CLOSED"
  <2>1. Follows(s, t) /\ t.state[i] = "CLOSED"
    BY StateFollows DEF LinkStates
  <2> QED
    BY <2>1 DEF Follows
<1> PICK w : w = StopGuard(Notify(t, i, r), i)
  OBVIOUS
<1>4. Follows(t, w)
  BY <1>3, ToldFollows
<1>5. Follows(s, w) /\ w.state[i] # "CONNECTED"
  BY <1>3, <1>4, FollowsChain DEF Follows
<1>6. \/ ShutOne(s, i, r) = s /\ s.state[i] = "NIL"
      \/ ShutOne(s, i, r) = u /\ s.state[i] \in {"CONNECTING", "INITIAL"}
      \/ ShutOne(s, i, r) = w
  BY DEF ShutOne
<1>7. s.state[i] # "CONNECTED" => u.state[i] # "CONNECTED"
  BY <1>2 DEF Follows
<1> QED
  BY <1>1, <1>2, <1>5, <1>6, <1>7

(* After a shut no socket is connected. *)
LEMMA ShutAllFollows ==
    ASSUME NEW s \in LinkRecord, NEW r
    PROVE  /\ Follows(s, ShutAll(s, r))
           /\ \A i \in LinkIds : ShutAll(s, r).state[i] # "CONNECTED"
<1>1. ASSUME NEW u \in LinkRecord, NEW i \in LinkIds
      PROVE  ShutOne(u, i, r) \in LinkRecord
  BY ShutOneFollows DEF Follows
<1>2. PICK g : /\ g[0] = s
               /\ \A n \in LinkIds : g[n + 1] = ShutOne(g[n], n, r)
               /\ ShutAll(s, r) = g[MaxLinks + 1]
  BY <1>1, ShutSteps
<1> DEFINE R == {u \in LinkRecord : Follows(s, u)}
           T == {n \in 0..(MaxLinks + 1) : g[n] \in R}
<1>3. 0 \in T
  <2>1. Follows(s, s)
    BY DEF Follows
  <2> QED
    BY <2>1, <1>2, LinkAssumption
<1>4. ASSUME NEW n \in LinkIds, n \in T PROVE n + 1 \in T
  <2>1. Follows(s, g[n]) /\ g[n] \in LinkRecord
    BY <1>4
  <2>2. Follows(g[n], g[n + 1])
    BY <2>1, <1>2, ShutOneFollows
  <2>3. Follows(s, g[n + 1])
    BY <2>1, <2>2, FollowsChain
  <2>4. n + 1 \in 0..(MaxLinks + 1)
    BY LinkAssumption DEF LinkIds
  <2> QED
    BY <2>3, <2>4 DEF Follows
<1>5. \A n \in 0..(MaxLinks + 1) : n \in T
  <2> HIDE DEF T
  <2> QED
    BY <1>3, <1>4, UpToLinks
<1>6. ASSUME NEW n \in 0..(MaxLinks + 1)
      PROVE  Follows(s, g[n]) /\ g[n] \in LinkRecord
  BY <1>5
<1> HIDE DEF T, R
<1>7. ASSUME NEW i \in LinkIds
      PROVE  g[MaxLinks + 1].state[i] # "CONNECTED"
  <2> DEFINE U == {n \in 0..(MaxLinks + 1) :
                       i < n => g[n].state[i] # "CONNECTED"}
  <2>0. MaxLinks \in Nat /\ i \in Nat /\ i < MaxLinks + 1
    BY LinkAssumption DEF LinkIds
  <2>1. 0 \in U
    BY <2>0
  <2>2. ASSUME NEW n \in LinkIds, n \in U PROVE n + 1 \in U
    <3>1. n \in 0..(MaxLinks + 1) /\ n + 1 \in 0..(MaxLinks + 1) /\ n \in Nat
      BY <2>0 DEF LinkIds
    <3>2. /\ Follows(g[n], g[n + 1])
          /\ g[n + 1].state[n] # "CONNECTED"
      BY <3>1, <1>2, <1>6, ShutOneFollows
    <3>3. CASE i < n
      <4>1. g[n].state[i] # "CONNECTED"
        BY <2>2, <3>3
      <4>2. g[n + 1].state[i] # "CONNECTED"
        BY <4>1, <3>2 DEF Follows
      <4> QED
        BY <4>2, <3>1
    <3>4. CASE i = n
      BY <3>1, <3>2, <3>4
    <3>5. CASE n < i
      BY <3>1, <3>5, <2>0
    <3> QED
      BY <3>1, <3>3, <3>4, <3>5, <2>0
  <2>3. \A n \in 0..(MaxLinks + 1) : n \in U
    <3> HIDE DEF U
    <3> QED
      BY <2>1, <2>2, UpToLinks
  <2> QED
    BY <2>0, <2>3
<1>8. MaxLinks + 1 \in 0..(MaxLinks + 1)
  BY LinkAssumption
<1> QED
  BY <1>2, <1>6, <1>7, <1>8

LEMMA ConnPendOneFollows ==
    ASSUME NEW s \in LinkRecord, NEW i \in LinkIds
    PROVE  Follows(s, ConnPendOne(s, i))
<1> PICK q : q = Req(s, Cmd("CIPSTART", i))
  OBVIOUS
<1>1. Follows(s, q)
  BY OtherFollows
<1>2. Follows(q, [q EXCEPT !.guard[i] = TRUE, !.pending[i] = FALSE])
  BY <1>1, FollowsType, PendingFollows
<1>3. Follows(s, [q EXCEPT !.guard[i] = TRUE, !.pending[i] = FALSE])
  BY <1>1, <1>2, FollowsChain
<1>4. Follows(s, s)
  BY DEF Follows
<1> QED
  BY <1>3, <1>4 DEF ConnPendOne

LEMMA ConnPendFollows ==
    ASSUME NEW s \in LinkRecord
    PROVE  Follows(s, ConnPend(s))
<1> DEFINE R == {u \in LinkRecord : Follows(s, u)}
<1>1. s \in R
  BY DEF Follows
<1>2. ASSUME NEW u \in R, NEW i \in LinkIds PROVE ConnPendOne(u, i) \in R
  <2>1. Follows(u, ConnPendOne(u, i))
    BY ConnPendOneFollows
  <2>2. Follows(s, ConnPendOne(u, i))
    BY <2>1, FollowsChain
  <2> QED
    BY <2>2 DEF Follows
<1>3. \A t : t \in R => Follows(s, t)
  OBVIOUS
<1> HIDE DEF R
<1>4. PICK g : /\ g[0] = s
               /\ \A n \in LinkIds : g[n + 1] = ConnPendOne(g[n], n)
               /\ ConnPend(s) = g[MaxLinks + 1]
  BY <1>1, <1>2, ConnPendSteps
<1>5. g[MaxLinks + 1] \in R
  BY <1>1, <1>2, <1>4, ChainEnds
<1> QED
  BY <1>3, <1>4, <1>5

LEMMA ShutStillComes ==
    ASSUME NEW s, NEW t, ShutComes(s), Follows(s, t)
    PROVE  ShutComes(t)
BY DEF ShutComes, Follows

LEMMA LostFollows ==
    ASSUME NEW s \in LinkRecord
    PROVE  /\ Follows(s, [Shut(s) EXCEPT !.tstatus = FALSE])
           /\ ShutComes([Shut(s) EXCEPT !.tstatus = FALSE])
<1> PICK t : t = Shut(s)
  OBVIOUS
<1>1. Follows(s, t) /\ ShutComes(t)
  BY ShutFollows
<1>2. Follows(t, [t EXCEPT !.tstatus = FALSE])
  BY <1>1, FollowsType, TimerFollows
<1> QED
  BY <1>1, <1>2, FollowsChain, ShutStillComes

LEMMA SetIPStatusFollows ==
    ASSUME NEW s \in LinkRecord, NEW status \in IpStates
    PROVE  /\ Follows(s, SetIPStatus(s, status))
           /\ status = "DEACT" => ShutComes(SetIPStatus(s, status))
<1> PICK t : t = [s EXCEPT !.ip = status, !.tciicr = @ /\ status # "GPRSACT"]
  OBVIOUS
<1>1. Follows(s, t) /\ t \in LinkRecord
  <2>1. (s.tciicr /\ status # "GPRSACT") \in BOOLEAN
    OBVIOUS
  <2>2. Follows(s, t)
    BY <2>1, IpFollows
  <2> QED
    BY <2>2, FollowsType
<1>2. Follows(s, s)
  BY DEF Follows
<1>3. CASE s.ip = status /\ status \in {"INITIAL", "STATUS", "PROCESSING"}
  BY <1>2, <1>3 DEF SetIPStatus
<1>4. CASE s.ip # status /\ status = "INITIAL"
  <2>1. Follows(t, [t EXCEPT !.tsetup = TRUE])
    BY <1>1, TimerFollows
  <2>2. Follows(s, [t EXCEPT !.tsetup = TRUE])
    BY <1>1, <2>1, FollowsChain
  <2> QED
    BY <2>2, <1>4 DEF SetIPStatus
<1>5. CASE s.ip # status /\ status = "STATUS"
  <2>1. Follows(s, ConnPend(t))
    BY <1>1, ConnPendFollows, FollowsChain
  <2> QED
    BY <2>1, <1>5 DEF SetIPStatus
<1>6. CASE s.ip # status /\ status = "PROCESSING"
  BY <1>1, <1>6 DEF SetIPStatus
<1>7. CASE status = "START"
  <2>1. Follows(t, [t EXCEPT !.tstatus = TRUE])
    BY <1>1, TimerFollows
  <2>2. Follows(s, [t EXCEPT !.tstatus = TRUE])
    BY <1>1, <2>1, FollowsChain
  <2> QED
    BY <2>2, <1>7 DEF SetIPStatus
<1>8. CASE status = "GPRSACT"
  <2> PICK q : q = Req(t, Plain("CIFSR"))
    OBVIOUS
  <2>1. Follows(t, q)
    BY <1>1, PlainFollows DEF Verbs
  <2>2. Follows(q, Req(q, Plain("CIPSTATUS")))
    BY <2>1, FollowsType, PlainFollows DEF Verbs
  <2>3. Follows(s, Req(q, Plain("CIPSTATUS")))
    BY <1>1, <2>1, <2>2, FollowsChain
  <2> QED
    BY <2>3, <1>8 DEF SetIPStatus
<1>9. CASE status = "DEACT"
  <2> PICK u : u = [Shut(t) EXCEPT !.tstatus = FALSE]
    OBVIOUS
  <2>1. Follows(t, u) /\ ShutComes(u)
    BY <1>1, LostFollows
  <2>2. Follows(s, u)
    BY <1>1, <2>1, FollowsChain
  <2> QED
    BY <2>1, <2>2, <1>9 DEF SetIPStatus
<1> QED
  BY <1>3, <1>4, <1>5, <1>6, <1>7, <1>8, <1>9 DEF IpStates

LEMMA ShutCnfFollows ==
    ASSUME NEW s \in LinkRecord, NEW ok \in BOOLEAN, NEW r
    PROVE  /\ Follows(s, ShutCnf(s, ok, r))
           /\ ok => \A i \in LinkIds : ShutCnf(s, ok, r).state[i] # "CONNECTED"
<1> PICK t : t = [s EXCEPT !.shuting = FALSE]
  OBVIOUS
<1>1. Follows(s, t)
  BY TimerFollows
<1>2. CASE ok
  <2> PICK u : u = SetIPStatus(t, "INITIAL")
    OBVIOUS
  <2> PICK w : w = ShutAll(u, r)
    OBVIOUS
  <2> PICK z : z = [w EXCEPT !.tciicr = FALSE]
    OBVIOUS
  <2>1. Follows(t, u)
    BY <1>1, FollowsType, SetIPStatusFollows DEF IpStates
  <2>2. Follows(u, w) /\ \A i \in LinkIds : w.state[i] # "CONNECTED"
    BY <2>1, FollowsType, ShutAllFollows
  <2>3. Follows(w, z)
    BY <2>2, FollowsType, TimerFollows
  <2>4. Follows(s, z)
    BY <1>1, <2>1, <2>2, <2>3, FollowsChain
  <2>5. \A i \in LinkIds : z.state[i] # "CONNECTED"
    BY <2>2, <2>3 DEF Follows
  <2> QED
    BY <2>4, <2>5, <1>2 DEF ShutCnf
<1>3. CASE ~ok
  <2> PICK u : u = [t EXCEPT !.tstatus = TRUE]
    OBVIOUS
  <2>1. Follows(t, u)
    BY <1>1, FollowsType, TimerFollows
  <2>2. Follows(u, [u EXCEPT !.tciicr = FALSE])
    BY <2>1, FollowsType, TimerFollows
  <2>3. Follows(s, [u EXCEPT !.tciicr = FALSE])
    BY <1>1, <2>1, <2>2, FollowsChain
  <2>4. ShutCnf(s, ok, r) = [u EXCEPT !.tciicr = FALSE]
    <3>1. t \in LinkRecord
      BY <1>1, FollowsType
    <3> QED
      BY <3>1, <1>3 DEF ShutCnf, LinkRecord
  <2> QED
    BY <2>3, <2>4, <1>3
<1> QED
  BY <1>2, <1>3

LEMMA RspFollows ==
    ASSUME NEW s \in LinkRecord, NEW x \in Command, NEW v, NEW r
    PROVE  /\ Follows(s, Rsp(s, x, v, r))
           /\ x.verb = "CIPSEND" /\ v = "PDP_DEACT" =>
                  Has(Rsp(s, x, v, r).queue, Plain("CIPSTATUS"))
           /\ x.verb = "CIPSHUT" /\ v = "SHUT_OK" =>
                  \A i \in LinkIds : Rsp(s, x, v, r).state[i] # "CONNECTED"
<1>0. x.id \in LinkIds
  BY DEF Command, SocketVerbs
<1>1. CASE x.verb = "CIPSEND" /\ v = "PDP_DEACT"
  <2> PICK q : q = Req(s, Plain("CIPSTATUS"))
    OBVIOUS
  <2> PICK t : t = SendCnf(q, x.id, r)
    OBVIOUS
  <2>1. Follows(s, q) /\ Has(q.queue, Plain("CIPSTATUS"))
    BY PlainFollows DEF Verbs
  <2>2. Follows(q, t)
    BY <1>0, <2>1, FollowsType, ToldFollows DEF SendCnf
  <2>3. Has(t.queue, Plain("CIPSTATUS"))
    BY <2>1, <2>2 DEF Follows
  <2>4. Follows(s, t)
    BY <2>1, <2>2, FollowsChain
  <2>5. Rsp(s, x, v, r) = t
    BY <1>1 DEF Rsp
  <2> QED
    BY <2>3, <2>4, <2>5, <1>1
<1>2. CASE x.verb = "CIPSEND" /\ v # "PDP_DEACT"
  <2>1. Follows(s, SendCnf(s, x.id, r))
    BY <1>0, ToldFollows DEF SendCnf
  <2> QED
    BY <2>1, <1>2 DEF Rsp
<1>3. CASE x.verb = "CIPCLOSE"
  <2>1. Follows(s, CloseCnf(s, x.id, r))
    BY <1>0, CloseCnfFollows
  <2> QED
    BY <2>1, <1>3 DEF Rsp
<1>4. CASE x.verb = "CIPSHUT"
  <2>1. /\ Follows(s, ShutCnf(s, v = "SHUT_OK", r))
        /\ v = "SHUT_OK" =>
               \A i \in LinkIds :
                   ShutCnf(s, v = "SHUT_OK", r).state[i] # "CONNECTED"
    BY ShutCnfFollows
  <2> QED
    BY <2>1, <1>4 DEF Rsp
<1>5. CASE x.verb = "CIPSTART" /\ v = "ERROR"
  <2>1. Follows(s, StatusInd(s, x.id, v, r))
    BY <1>0, <1>5, StatusFollows
  <2> QED
    BY <2>1, <1>5 DEF Rsp
<1>6. CASE x.verb = "CIICR" /\ v = "OK"
  <2>1. Follows(s, [s EXCEPT !.tciicr = TRUE])
    BY TimerFollows
  <2> QED
    BY <2>1, <1>6 DEF Rsp
<1>7. CASE x.verb = "CIICR" /\ v # "OK"
  <2>1. Follows(s, [Shut(s) EXCEPT !.tstatus = FALSE])
    BY LostFollows
  <2> QED
    BY <2>1, <1>7 DEF Rsp
<1>8. CASE /\ x.verb \notin {"CIPSEND", "CIPCLOSE", "CIPSHUT", "CIICR"}
           /\ ~(x.verb = "CIPSTART" /\ v = "ERROR")
  <2>1. Follows(s, s)
    BY DEF Follows
  <2> QED
    BY <2>1, <1>8 DEF Rsp
<1> QED
  BY <1>1, <1>2, <1>3, <1>4, <1>5, <1>6, <1>7, <1>8

(* A line after which the network is found to be lost *)
TellsLoss(a) == a.v = "PDP_DEACT" \/ (a.t = "STATE" /\ a.v = "DEACT")

LEMMA UrcFollows ==
    ASSUME NEW s \in LinkRecord, NEW line \in Line, line.v # "CONNECT_OK", NEW r
    PROVE  /\ Follows(s, Urc(s, line, r))
           /\ TellsLoss(line) => ShutComes(Urc(s, line, r))
           /\ line.t = "LINK" /\ line.v # "SEND_FAIL" =>
                  Urc(s, line, r).state[line.id] # "CONNECTED"
<1>0. /\ line.id \in LinkIds /\ line.t \in {"ANS", "LINK", "STATE", "PDP"}
      /\ line.t = "STATE" => line.v \in IpStates /\ line.v # "PDP_DEACT"
      /\ line.t = "PDP" => line.v = "PDP_DEACT"
      /\ line.t = "LINK" => line.v # "PDP_DEACT"
  BY DEF Line, IpStates
<1>1. CASE line.t = "STATE"
  <2>1. /\ Follows(s, SetIPStatus(s, line.v))
        /\ line.v = "DEACT" => ShutComes(SetIPStatus(s, line.v))
    BY <1>0, <1>1, SetIPStatusFollows
  <2>2. Urc(s, line, r) = SetIPStatus(s, line.v)
    BY <1>0, <1>1 DEF Urc
  <2> QED
    BY <2>1, <2>2, <1>0, <1>1 DEF TellsLoss
<1>2. CASE line.t # "STATE" /\ line.v = "PDP_DEACT"
  <2>1. Urc(s, line, r) = [Shut(s) EXCEPT !.tstatus = FALSE]
    BY <1>0, <1>2 DEF Urc
  <2> QED
    BY <2>1, <1>0, <1>2, LostFollows
<1>3. CASE line.t = "LINK"
  <2>1. Urc(s, line, r) = StatusInd(s, line.id, line.v, r)
    BY <1>0, <1>3 DEF Urc
  <2>2. /\ Follows(s, StatusInd(s, line.id, line.v, r))
        /\ line.v # "SEND_FAIL" =>
               StatusInd(s, line.id, line.v, r).state[line.id] # "CONNECTED"
    BY <1>0, StatusFollows
  <2> QED
    BY <2>1, <2>2, <1>0, <1>3 DEF TellsLoss
<1>4. CASE line.t = "ANS" /\ line.v # "PDP_DEACT"
  <2>1. Urc(s, line, r) = s
    BY <1>4 DEF Urc
  <2>2. Follows(s, s)
    BY DEF Follows
  <2> QED
    BY <2>1, <2>2, <1>4 DEF TellsLoss
<1> QED
  BY <1>0, <1>1, <1>2, <1>3, <1>4

----------------------------------------------------------------------------
(* What the modem has connected *)

(* What the code relies on: no connection succeeds that has been given up, *)
(* the loss of the network is no answer of AT+CIPCLOSE, no report is taken *)
(* for an answer and no AT+CIPSHUT fails.                                  *)
Faithful == Habits \subseteq {"hasty"} /\ ~Crosses /\ ~ShutFails

IsAnswer(a) ==
    \/ a.t = "ANS"
    \/ a.t = "LINK" /\ a.v \in {"SEND_OK", "SEND_FAIL", "CLOSE_OK"}

(* Line a answers command c *)
Answering(a, c) ==
    /\ c # NoCmd
    /\ a.t = "ANS" /\ a.v = "SHUT_OK" => c = Plain("CIPSHUT")
    /\ a.t = "ANS" /\ a.v = "PDP_DEACT" =>
           c.verb = "CIPSEND" \/ (c.verb = "CIPCLOSE" /\ "deact" \in Habits)
    /\ a.t = "LINK" /\ a.v = "CLOSE_OK" => c = Cmd("CIPCLOSE", a.id)
    /\ a.t = "LINK" /\ a.v \in {"SEND_OK", "SEND_FAIL"} =>
           c = Cmd("CIPSEND", a.id)

(* The modem has the command c, the one in execution, or among the unread  *)
(* lines q is its answer, or neither; it has no other, nor answered one.   *)
AnswersFit(q, w, c) ==
    /\ w # <<>> => w = <<c>>
    /\ c = NoCmd => w = <<>>
    /\ w # <<>> \/ c = NoCmd => \A k \in 1..Len(q) : ~IsAnswer(q[k])
    /\ \A j, k \in 1..Len(q) : IsAnswer(q[j]) /\ IsAnswer(q[k]) => j = k
    /\ \A k \in 1..Len(q) : IsAnswer(q[k]) => Answering(q[k], c)

(* A line after which socket i is not CONNECTED *)
Ends(a, i) ==
    \/ a.t = "LINK" /\ a.id = i /\ a.v \in {"CLOSED", "CLOSE_OK"}
    \/ a.t = "ANS" /\ a.v = "SHUT_OK"

(* A network that is lost will be found to be lost, or be shut. *)
WillLearn(s, w, q) ==
    \/ \E k \in 1..Len(q) : TellsLoss(q[k])
    \/ \E v \in {"CIPSTATUS", "CIPSHUT"} :
           Has(s.queue, Plain(v)) \/ Has(w, Plain(v))
    \/ s.shutpending

(* The connection of socket i exists, or a line behind the first k or the  *)
(* loss of the network will end it for link, too.                          *)
Covered(i, k) ==
    \/ conn[i] = "open"
    \/ \E j \in 1..Len(out) : k < j /\ Ends(out[j], i)
    \/ mip = "DEACT" /\ WillLearn(l, wire, out)

(* No socket that is CONNECTED is about to be closed. *)
Settles(s) ==
    \A i \in LinkIds : s.state[i] = "CONNECTED" => ~Awaits(s, "CIPCLOSE", i)

RealInv ==
    /\ AnswersFit(out, wire, l.curr)
    /\ Settles(l)
    /\ \A i \in LinkIds : l.state[i] = "CONNECTED" => Covered(i, 0)
    /\ \A k \in 1..Len(out) :
           out[k].v = "CONNECT_OK" => Covered(out[k].id, k)

LEMMA RealHolds == IInv /\ RealInv => ConnectedIsReal
<1> SUFFICES ASSUME IInv, RealInv, NEW i \in LinkIds, l.state[i] = "CONNECTED"
             PROVE  \/ conn[i] = "open" \/ ToldOf(i) \/ ToldOfLoss
                    \/ Asked \/ WillShut
  BY DEF ConnectedIsReal
<1>0. /\ out \in Seq(Line) /\ wire \in Seq(Command)
      /\ l.queue \in Seq(Command)
  BY DEF IInv, Fits, LinkRecord
<1>1. Covered(i, 0)
  BY DEF RealInv
<1>2. \A k \in 1..Len(out) : out[k] \in ToSet(out)
  BY DEF ToSet
<1>3. \A v : Cmd(v, 0) = Plain(v)
  BY DEF Cmd, Plain
<1>4. ASSUME NEW j \in 1..Len(out), Ends(out[j], i)
      PROVE  ToldOf(i) \/ WillShut
  <2>1. CASE out[j].t = "LINK" /\ out[j].id = i
    BY <2>1, <1>2 DEF ToldOf, Unread
  <2>2. CASE out[j].t = "ANS" /\ out[j].v = "SHUT_OK"
    <3>1. IsAnswer(out[j])
      BY <2>2 DEF IsAnswer
    <3>2. l.curr = Plain("CIPSHUT")
      BY <3>1, <2>2 DEF RealInv, AnswersFit, Answering
    <3> QED
      BY <3>2, <1>3 DEF WillShut, Underway
  <2> QED
    BY <1>4, <2>1, <2>2 DEF Ends
<1>5. ASSUME WillLearn(l, wire, out)
      PROVE  ToldOfLoss \/ Asked \/ WillShut
  <2>1. ASSUME NEW k \in 1..Len(out), TellsLoss(out[k])
        PROVE  ToldOfLoss \/ Asked
    <3>1. out[k].v = "PDP_DEACT" \/ out[k].t = "STATE"
      BY <2>1 DEF TellsLoss
    <3> QED
      BY <3>1, <1>2 DEF ToldOfLoss, Asked, Unread
  <2>2. ASSUME NEW v, Has(l.queue, Plain(v)) \/ Has(wire, Plain(v))
        PROVE  Underway(v, 0)
    <3>1. Plain(v) \in ToSet(l.queue) \/ Plain(v) \in ToSet(wire)
      BY <2>2, <1>0, InSeq
    <3> QED
      BY <3>1, <1>3 DEF Underway
  <2>3. CASE l.shutpending
    BY <2>3 DEF WillShut
  <2> QED
    BY <1>5, <2>1, <2>2, <2>3 DEF WillLearn, Asked, WillShut
<1> QED
  BY <1>1, <1>4, <1>5 DEF Covered

LEMMA RealInit == Init => RealInv
<1> SUFFICES ASSUME Init PROVE RealInv
  OBVIOUS
<1>1. /\ out = <<>> /\ wire = <<>> /\ l.curr = NoCmd
      /\ \A i \in LinkIds : l.state[i] = "NIL"
  BY DEF Init, Start
<1>2. \A k : k \notin 1..Len(out)
  BY <1>1
<1> QED
  BY <1>1, <1>2 DEF RealInv, AnswersFit, Settles

----------------------------------------------------------------------------
(* ... and the handlers of link.lua *)

LEMMA LearnKept ==
    ASSUME NEW s, NEW t, NEW w, NEW q, WillLearn(s, w, q), Follows(s, t)
    PROVE  WillLearn(t, w, q)
<1>1. ASSUME NEW v, Has(s.queue, Plain(v)) PROVE Has(t.queue, Plain(v))
  BY <1>1 DEF Follows
<1>2. CASE s.shutpending
  BY <1>2 DEF Follows, WillLearn
<1>3. CASE \E k \in 1..Len(q) : TellsLoss(q[k])
  BY <1>3 DEF WillLearn
<1>4. CASE \E v \in {"CIPSTATUS", "CIPSHUT"} :
               Has(s.queue, Plain(v)) \/ Has(w, Plain(v))
  BY <1>1, <1>4 DEF WillLearn
<1> QED
  BY <1>2, <1>3, <1>4 DEF WillLearn

(* sendat: a command goes from the queue to the modem. *)
LEMMA HandleDone ==
    ASSUME NEW s \in LinkRecord, Handle(s), Sends(s), wire \in Seq(Command),
           NEW q, AnswersFit(q, wire, s.curr)
    PROVE  /\ s.curr = NoCmd /\ s.queue # <<>> /\ s.queue \in Seq(Command)
           /\ l' = [s EXCEPT !.curr = Head(s.queue), !.queue = Tail(s.queue)]
           /\ wire = <<>> /\ wire' = <<Head(s.queue)>>
           /\ Head(s.queue) \in Command /\ Head(s.queue) # NoCmd
           /\ \A k \in 1..Len(q) : ~IsAnswer(q[k])
<1>1. s.curr = NoCmd /\ s.queue # <<>> /\ s.queue \in Seq(Command)
  BY DEF Sends, LinkRecord
<1> PICK h : h = Head(s.queue)
  OBVIOUS
<1>2. /\ l' = [s EXCEPT !.curr = h, !.queue = Tail(s.queue)]
      /\ wire' = Append(wire, h)
  BY DEF Handle, SendAt
<1>3. wire = <<>> /\ \A k \in 1..Len(q) : ~IsAnswer(q[k])
  BY <1>1 DEF AnswersFit
<1>4. wire' = <<h>> /\ h \in Command
  BY <1>1, <1>2, <1>3, TailType
<1>5. h # NoCmd
  BY <1>4 DEF Command, SocketVerbs, NoCmd, Verbs
<1> QED
  BY <1>1, <1>2, <1>3, <1>4, <1>5

LEMMA HandleAnswers ==
    ASSUME NEW s \in LinkRecord, Handle(s), wire \in Seq(Command), NEW q,
           AnswersFit(q, wire, s.curr)
    PROVE  AnswersFit(q, wire', l'.curr)
<1>1. CASE ~Sends(s)
  BY <1>1 DEF Handle, SendAt
<1>2. CASE Sends(s)
  <2> PICK h : h = Head(s.queue)
    OBVIOUS
  <2>1. /\ l' = [s EXCEPT !.curr = h, !.queue = Tail(s.queue)]
        /\ wire' = <<h>> /\ h # NoCmd
        /\ \A k \in 1..Len(q) : ~IsAnswer(q[k])
    BY <1>2, HandleDone
  <2>2. l'.curr = h
    BY <2>1 DEF LinkRecord
  <2> QED
    BY <2>1, <2>2 DEF AnswersFit
<1> QED
  BY <1>1, <1>2

LEMMA HandleReal ==
    ASSUME NEW s \in LinkRecord, Handle(s), wire \in Seq(Command), NEW q,
           AnswersFit(q, wire, s.curr), Settles(s)
    PROVE  /\ AnswersFit(q, wire', l'.curr)
           /\ l'.state = s.state /\ Settles(l')
           /\ WillLearn(s, wire, q) => WillLearn(l', wire', q)
<1>0. AnswersFit(q, wire', l'.curr)
  BY HandleAnswers
<1>1. CASE ~Sends(s)
  BY <1>0, <1>1 DEF Handle, SendAt
<1>2. CASE Sends(s)
  <2> PICK h : h = Head(s.queue)
    OBVIOUS
  <2>1. /\ s.curr = NoCmd /\ s.queue # <<>> /\ s.queue \in Seq(Command)
        /\ l' = [s EXCEPT !.curr = h, !.queue = Tail(s.queue)]
        /\ wire = <<>> /\ wire' = <<h>>
    BY <1>2, HandleDone
  <2>2. /\ l'.curr = h /\ l'.queue = Tail(s.queue) /\ l'.state = s.state
        /\ l'.shutpending = s.shutpending
    BY <2>1 DEF LinkRecord
  <2>3. ASSUME NEW e, Has(s.queue, e) PROVE Has(l'.queue, e) \/ Has(wire', e)
    <3>1. h = e \/ Has(Tail(s.queue), e)
      BY <2>1, <2>3, TailHas
    <3>2. Has(<<h>>, h)
      BY DEF Has
    <3> QED
      BY <3>1, <3>2, <2>1, <2>2
  <2>4. Settles(l')
    <3>1. \A e : h = e \/ Has(Tail(s.queue), e) => Has(s.queue, e)
      BY <2>1, TailHas
    <3> QED
      BY <3>1, <2>2 DEF Settles, Awaits
  <2>5. \A e : ~Has(wire, e)
    BY <2>1 DEF Has
  <2>6. ASSUME WillLearn(s, wire, q) PROVE WillLearn(l', wire', q)
    <3>1. CASE s.shutpending
      BY <3>1, <2>2 DEF WillLearn
    <3>2. CASE \E k \in 1..Len(q) : TellsLoss(q[k])
      BY <3>2 DEF WillLearn
    <3>3. CASE \E v \in {"CIPSTATUS", "CIPSHUT"} : Has(s.queue, Plain(v))
      BY <3>3, <2>3 DEF WillLearn
    <3> QED
      BY <2>5, <2>6, <3>1, <3>2, <3>3 DEF WillLearn
  <2> QED
    BY <1>0, <2>2, <2>4, <2>6
<1> QED
  BY <1>1, <1>2

(* A handler that connects no socket and takes no line *)
LEMMA HandlerReal ==
    ASSUME IInv, RealInv, NEW s, Follows(l, s), Handle(s),
           UNCHANGED <<out, mip, conn>>
    PROVE  RealInv'
<1>1. /\ s \in LinkRecord /\ s.curr = l.curr /\ wire \in Seq(Command)
      /\ \A i \in LinkIds : s.state[i] = "CONNECTED" => l.state[i] = "CONNECTED"
  BY DEF Follows, IInv
<1>2. AnswersFit(out, wire, s.curr) /\ Settles(s)
  BY <1>1 DEF RealInv, Settles, Awaits, Follows
<1>3. /\ AnswersFit(out, wire', l'.curr) /\ l'.state = s.state /\ Settles(l')
      /\ WillLearn(s, wire, out) => WillLearn(l', wire', out)
  BY <1>1, <1>2, HandleReal
<1>4. WillLearn(l, wire, out) => WillLearn(l', wire', out)
  BY <1>3, LearnKept
<1>5. \A i, k : Covered(i, k) => Covered(i, k)'
  BY <1>4 DEF Covered
<1> QED
  BY <1>1, <1>3, <1>5 DEF RealInv

LEMMA OwnerCallsReal == IInv /\ RealInv /\ OwnerCalls => RealInv'
<1> SUFFICES ASSUME IInv, RealInv, OwnerCalls PROVE RealInv'
  OBVIOUS
<1>1. PICK i \in LinkIds, a \in Calls : Handle(Call(l, i, a))
  BY DEF OwnerCalls
<1>2. l \in LinkRecord
  BY DEF IInv, Fits
<1>3. Follows(l, Call(l, i, a))
  BY <1>2, CallFollows
<1> QED
  BY <1>1, <1>3, HandlerReal DEF OwnerCalls

LEMMA LocalEventReal == IInv /\ RealInv /\ LocalEvent => RealInv'
<1> SUFFICES ASSUME IInv, RealInv, LocalEvent PROVE RealInv'
  OBVIOUS
<1> PICK e : e = Head(l.local)
  OBVIOUS
<1> PICK s : s = [l EXCEPT !.local = Tail(l.local)]
  OBVIOUS
<1>1. l \in LinkRecord /\ l.local # <<>> /\ l.local \in Seq(LocalEvents)
  BY DEF IInv, Fits, LinkRecord, LocalEvent
<1>2. Tail(l.local) \in Seq(LocalEvents) /\ e \in LocalEvents
  BY <1>1, TailType
<1>3. Follows(l, s) /\ s \in LinkRecord
  BY <1>1, <1>2 DEF Follows, LinkRecord
<1>4. e[2] \in LinkIds /\ e[1] # "CONNECT_OK"
  BY <1>2 DEF LocalEvents
<1>5. PICK r \in Replies :
          Handle(IF e[1] = "DISCONNECT" THEN CloseCnf(s, e[2], r)
                 ELSE StatusInd(s, e[2], e[1], r))
  BY DEF LocalEvent
<1>6. /\ Follows(s, CloseCnf(s, e[2], r))
      /\ Follows(s, StatusInd(s, e[2], e[1], r))
  BY <1>3, <1>4, CloseCnfFollows, StatusFollows
<1>7. PICK t : Follows(s, t) /\ Handle(t)
  BY <1>5, <1>6
<1>8. Follows(l, t)
  BY <1>3, <1>7, FollowsChain
<1> QED
  BY <1>7, <1>8, HandlerReal DEF LocalEvent

LEMMA TimersReal == IInv /\ RealInv /\ (SetupTimer \/ StatusTimer) => RealInv'
<1> SUFFICES ASSUME IInv, RealInv, SetupTimer \/ StatusTimer PROVE RealInv'
  OBVIOUS
<1>1. l \in LinkRecord
  BY DEF IInv, Fits
<1>2. CASE SetupTimer
  <2> PICK t : t = [l EXCEPT !.tsetup = FALSE]
    OBVIOUS
  <2>1. Follows(l, t)
    BY <1>1, TimerFollows
  <2>2. Follows(l, SetupIP(t))
    BY <2>1, FollowsType, SetupIPFollows, FollowsChain
  <2> QED
    BY <2>2, <1>2, HandlerReal DEF SetupTimer
<1>3. CASE StatusTimer
  <2> PICK t : t = [l EXCEPT !.tstatus = FALSE]
    OBVIOUS
  <2>1. Follows(l, t)
    BY <1>1, TimerFollows
  <2>2. Follows(t, Req(t, Plain("CIPSTATUS")))
    BY <2>1, FollowsType, PlainFollows DEF Verbs
  <2>3. Follows(l, Req(t, Plain("CIPSTATUS")))
    BY <2>1, <2>2, FollowsChain
  <2> QED
    BY <2>3, <1>3, HandlerReal DEF StatusTimer
<1> QED
  BY <1>2, <1>3

LEMMA CgattFollows ==
    ASSUME NEW s \in LinkRecord, NEW a \in BOOLEAN
    PROVE  Follows(s, Cgatt(s, a))
<1> PICK t : t = [s EXCEPT !.cgatt = a]
  OBVIOUS
<1>1. Follows(s, t)
  BY TimerFollows
<1>2. Follows(t, SetupIP(t))
  BY <1>1, FollowsType, SetupIPFollows
<1>3. Follows(t, Req(t, Plain("CIPSTATUS")))
  BY <1>1, FollowsType, PlainFollows DEF Verbs
<1>4. Follows(s, SetupIP(t)) /\ Follows(s, Req(t, Plain("CIPSTATUS")))
  BY <1>1, <1>2, <1>3, FollowsChain
<1> QED
  BY <1>1, <1>4 DEF Cgatt

LEMMA CgattRspReal == IInv /\ RealInv /\ CgattRsp => RealInv'
<1> SUFFICES ASSUME IInv, RealInv, CgattRsp PROVE RealInv'
  OBVIOUS
<1>1. l \in LinkRecord
  BY DEF IInv, Fits
<1>2. PICK a \in BOOLEAN : Handle(Cgatt(l, a))
  BY DEF CgattRsp
<1> QED
  BY <1>1, <1>2, CgattFollows, HandlerReal DEF CgattRsp

LEMMA FlyModeReal == IInv /\ RealInv /\ FlyMode => RealInv'
<1> SUFFICES ASSUME IInv, RealInv, FlyMode PROVE RealInv'
  OBVIOUS
<1>1. l \in LinkRecord
  BY DEF IInv, Fits
<1>2. CASE Handle([l EXCEPT !.flymode = TRUE, !.tstatus = FALSE])
  <2>1. Follows(l, [l EXCEPT !.flymode = TRUE, !.tstatus = FALSE])
    BY <1>1 DEF Follows, LinkRecord
  <2> QED
    BY <2>1, <1>2, HandlerReal DEF FlyMode
<1>3. ASSUME NEW a \in BOOLEAN, Handle(Cgatt([l EXCEPT !.flymode = FALSE], a))
      PROVE  RealInv'
  <2> PICK t : t = [l EXCEPT !.flymode = FALSE]
    OBVIOUS
  <2>1. Follows(l, t)
    BY <1>1, TimerFollows
  <2>2. Follows(l, Cgatt(t, a))
    BY <2>1, FollowsType, CgattFollows, FollowsChain
  <2> QED
    BY <2>2, <1>3, HandlerReal DEF FlyMode
<1> QED
  BY <1>2, <1>3 DEF FlyMode

LEMMA HoldReal == IInv /\ RealInv /\ (Hold \/ Release) => RealInv'
<1> SUFFICES ASSUME IInv, RealInv, Hold \/ Release PROVE RealInv'
  OBVIOUS
<1>1. l \in LinkRecord
  BY DEF IInv, Fits
<1>2. ASSUME NEW h \in SUBSET Holders
      PROVE  /\ Follows(l, [l EXCEPT !.holders = h])
             /\ Follows(l, Shut([l EXCEPT !.holders = h]))
  <2> PICK t : t = [l EXCEPT !.holders = h]
    OBVIOUS
  <2>1. Follows(l, t)
    BY <1>1 DEF Follows, LinkRecord
  <2>2. Follows(t, Shut(t))
    BY <2>1, FollowsType, ShutFollows
  <2> QED
    BY <2>1, <2>2, FollowsChain
<1>3. l.holders \in SUBSET Holders
  BY <1>1 DEF LinkRecord
<1>4. CASE Hold
  <2>1. PICK h \in Holders : Handle([l EXCEPT !.holders = l.holders \union {h}])
    BY <1>4 DEF Hold
  <2>2. l.holders \union {h} \in SUBSET Holders
    BY <1>3
  <2> QED
    BY <2>1, <2>2, <1>2, <1>4, HandlerReal DEF Hold
<1>5. CASE Release
  <2>1. PICK h \in l.holders :
            \/ Handle([l EXCEPT !.holders = l.holders \ {h}])
            \/ Handle(Shut([l EXCEPT !.holders = l.holders \ {h}]))
    BY <1>5 DEF Release
  <2>2. l.holders \ {h} \in SUBSET Holders
    BY <1>3
  <2> QED
    BY <2>1, <2>2, <1>2, <1>5, HandlerReal DEF Release
<1> QED
  BY <1>4, <1>5

LEMMA RestartReal == Restart => RealInv'
<1> SUFFICES ASSUME Restart PROVE RealInv'
  OBVIOUS
<1>1. /\ out' = <<>> /\ wire' = <<>> /\ l'.curr = NoCmd
      /\ \A i \in LinkIds : l'.state[i] = "NIL"
  BY DEF Restart, Start
<1>2. \A k : k \notin 1..Len(out')
  BY <1>1
<1> QED
  BY <1>1, <1>2 DEF RealInv, AnswersFit, Settles

----------------------------------------------------------------------------
(* ... and its reader *)

LEMMA LineFacts ==
    ASSUME NEW a \in Line
    PROVE  /\ a.id \in LinkIds /\ a.t \in {"ANS", "LINK", "STATE", "PDP"}
           /\ a.t = "ANS" => a.v \in {"OK", "ERROR", "SHUT_OK", "PDP_DEACT"}
           /\ a.t = "LINK" => a.v \in {"SEND_OK", "SEND_FAIL", "CLOSE_OK",
                                      "CONNECT_OK", "CONNECT_FAIL", "CLOSED"}
           /\ a.t = "STATE" => a.v \notin {"PDP_DEACT", "CONNECT_OK"}
           /\ a.t = "PDP" => a.v = "PDP_DEACT"
BY DEF Line, IpStates

(* The line that is read is an answer iff it is taken for one. *)
LEMMA FinalIsAnswer ==
    ASSUME NEW a \in Line, ~Crossing(l, a), NEW q, NEW w, NEW k \in 1..Len(q),
           q[k] = a, AnswersFit(q, w, l.curr)
    PROVE  /\ IsFinal(l, a) <=> IsAnswer(a)
           /\ IsAnswer(a) => Answering(a, l.curr)
<1>1. ASSUME IsFinal(l, a) PROVE IsAnswer(a)
  BY <1>1, LineFacts DEF IsFinal, IsAnswer, Crossing
<1>2. ASSUME IsAnswer(a) PROVE Answering(a, l.curr) /\ IsFinal(l, a)
  <2>1. Answering(a, l.curr)
    BY <1>2 DEF AnswersFit
  <2>2. l.curr # NoCmd
    BY <2>1 DEF Answering
  <2>3. CASE a.t = "ANS"
    BY <2>1, <2>2, <2>3 DEF Answering, IsFinal
  <2>4. CASE a.t = "LINK" /\ a.v = "CLOSE_OK"
    <3>1. l.curr.verb = "CIPCLOSE" /\ l.curr.id = a.id
      BY <2>1, <2>4 DEF Answering, Cmd
    <3> QED
      BY <2>1, <2>2, <2>4, <3>1 DEF IsFinal
  <2>5. CASE a.t = "LINK" /\ a.v \in {"SEND_OK", "SEND_FAIL"}
    <3>1. l.curr.verb = "CIPSEND" /\ l.curr.id = a.id
      BY <2>1, <2>5 DEF Answering, Cmd
    <3> QED
      BY <2>1, <2>2, <2>5, <3>1 DEF IsFinal
  <2> QED
    BY <1>2, <2>1, <2>3, <2>4, <2>5 DEF IsAnswer
<1> QED
  BY <1>1, <1>2

(* What a line does to the record of link.lua *)
LineDone(a, s) ==
    /\ s \in LinkRecord
    /\ s.curr = IF IsFinal(l, a) THEN NoCmd ELSE l.curr
    /\ Settles(s)
    /\ \A i \in LinkIds : s.state[i] = "CONNECTED" =>
           \/ l.state[i] = "CONNECTED" /\ ~Ends(a, i)
           \/ a.v = "CONNECT_OK" /\ a.id = i
    /\ \A e : Has(l.queue, e) => Has(s.queue, e)
    /\ l.shutpending => ShutComes(s)
    /\ TellsLoss(a) => ShutComes(s) \/ Has(s.queue, Plain("CIPSTATUS"))

LEMMA FinalDone ==
    ASSUME Faithful, IInv, Settles(l), NEW a \in Line, IsAnswer(a), Answering(a, l.curr),
           IsFinal(l, a), NEW r
    PROVE  LineDone(a, [Rsp(l, l.curr, a.v, r) EXCEPT !.curr = NoCmd])
<1> PICK c : c = l.curr
  OBVIOUS
<1> PICK u : u = Rsp(l, c, a.v, r)
  OBVIOUS
<1> PICK s : s = [u EXCEPT !.curr = NoCmd]
  OBVIOUS
<1>1. l \in LinkRecord /\ c \in Command
  BY DEF IInv, Fits, LinkRecord, IsFinal
<1>2. /\ Follows(l, u)
      /\ c.verb = "CIPSEND" /\ a.v = "PDP_DEACT" =>
             Has(u.queue, Plain("CIPSTATUS"))
      /\ c.verb = "CIPSHUT" /\ a.v = "SHUT_OK" =>
             \A i \in LinkIds : u.state[i] # "CONNECTED"
  BY <1>1, RspFollows
<1>3. u \in LinkRecord
  BY <1>2, FollowsType
<1>4. /\ s \in LinkRecord /\ s.curr = NoCmd /\ s.state = u.state
      /\ s.queue = u.queue /\ s.shutpending = u.shutpending
  BY <1>3 DEF LinkRecord
<1>5. ASSUME NEW i \in LinkIds, s.state[i] = "CONNECTED"
      PROVE  l.state[i] = "CONNECTED" /\ ~Ends(a, i)
  <2>1. l.state[i] = "CONNECTED"
    BY <1>2, <1>4, <1>5 DEF Follows
  <2>2. ASSUME a.t = "LINK", a.id = i, a.v = "CLOSE_OK" PROVE FALSE
    <3>1. c = Cmd("CIPCLOSE", i)
      BY <2>2 DEF Answering
    <3> QED
      BY <2>1, <3>1 DEF Settles, Awaits
  <2>3. ASSUME a.t = "LINK", a.v = "CLOSED" PROVE FALSE
    BY <2>3 DEF IsAnswer
  <2>4. ASSUME a.t = "ANS", a.v = "SHUT_OK" PROVE FALSE
    <3>1. c.verb = "CIPSHUT"
      BY <2>4 DEF Answering, Plain
    <3> QED
      BY <3>1, <2>4, <1>2, <1>4, <1>5
  <2> QED
    BY <2>1, <2>2, <2>3, <2>4 DEF Ends
<1>6. ASSUME TellsLoss(a) PROVE Has(s.queue, Plain("CIPSTATUS"))
  <2>1. a.t = "ANS" /\ a.v = "PDP_DEACT"
    BY <1>6, LineFacts DEF TellsLoss, IsAnswer
  <2>2. c.verb = "CIPSEND"
    BY <2>1 DEF Answering, Faithful
  <2> QED
    BY <2>1, <2>2, <1>2, <1>4
<1>7. Settles(s)
  <2>1. \A i : Cmd("CIPCLOSE", i) # NoCmd
    BY CmdDistinct
  <2> QED
    BY <2>1, <1>2, <1>4 DEF Settles, Awaits, Follows
<1>8. LineDone(a, s)
  BY <1>2, <1>4, <1>5, <1>6, <1>7 DEF LineDone, Follows, ShutComes
<1> QED
  BY <1>8

LEMMA UrcDone ==
    ASSUME IInv, Settles(l), NEW a \in Line, ~Late(l, a), ~IsAnswer(a),
           ~IsFinal(l, a), NEW r
    PROVE  LineDone(a, Urc(l, a, r))
<1> PICK s : s = Urc(l, a, r)
  OBVIOUS
<1>1. l \in LinkRecord /\ a.id \in LinkIds
  BY LineFacts DEF IInv, Fits
<1>2. CASE a.v = "CONNECT_OK"
  <2>1. a.t = "LINK"
    BY <1>2, LineFacts
  <2>2. s = StatusInd(l, a.id, "CONNECT_OK", r)
    BY <1>2, <2>1 DEF Urc
  <2> PICK t : t = Settled(l, a.id, "CONNECTED")
    OBVIOUS
  <2>3. Follows(l, s) \/ Follows(t, s)
    BY <1>1, <2>2, ConnectedFollows
  <2>4. /\ t.queue = l.queue /\ t.shutpending = l.shutpending
        /\ t.curr = l.curr
        /\ \A i \in LinkIds \ {a.id} : t.state[i] = l.state[i]
    BY <1>1 DEF Settled, LinkRecord
  <2>5. \A i : ~Ends(a, i)
    BY <1>2 DEF Ends
  <2>6. ~TellsLoss(a)
    BY <1>2 DEF TellsLoss
  <2>7. s \in LinkRecord /\ s.curr = l.curr
    BY <2>3, <2>4 DEF Follows
  <2>8. \A i \in LinkIds : s.state[i] = "CONNECTED" =>
            l.state[i] = "CONNECTED" \/ a.id = i
    BY <2>3, <2>4 DEF Follows
  <2>9. /\ \A e : Has(l.queue, e) => Has(s.queue, e)
        /\ l.shutpending => ShutComes(s)
    BY <2>3, <2>4 DEF Follows, ShutComes
  <2>10. Settles(s)
    <3>1. ~Awaits(l, "CIPCLOSE", a.id)
      BY <1>2 DEF Late
    <3>2. ASSUME NEW i \in LinkIds, s.state[i] = "CONNECTED",
                 Has(s.queue, Cmd("CIPCLOSE", i))
          PROVE  Has(l.queue, Cmd("CIPCLOSE", i))
      BY <2>3, <2>4, <3>2 DEF Follows
    <3> QED
      BY <3>1, <3>2, <2>7, <2>8 DEF Settles, Awaits
  <2> QED
    BY <1>2, <2>5, <2>6, <2>7, <2>8, <2>9, <2>10 DEF LineDone
<1>3. CASE a.v # "CONNECT_OK"
  <2>1. /\ Follows(l, s)
        /\ TellsLoss(a) => ShutComes(s)
        /\ a.t = "LINK" /\ a.v # "SEND_FAIL" => s.state[a.id] # "CONNECTED"
    BY <1>1, <1>3, UrcFollows
  <2>2. ASSUME NEW i \in LinkIds, s.state[i] = "CONNECTED" PROVE ~Ends(a, i)
    BY <2>1, <2>2 DEF Ends, IsAnswer
  <2>3. /\ s \in LinkRecord /\ s.curr = l.curr
        /\ \A i \in LinkIds : s.state[i] = "CONNECTED" =>
               l.state[i] = "CONNECTED"
        /\ \A e : Has(l.queue, e) => Has(s.queue, e)
        /\ l.shutpending => ShutComes(s)
    BY <2>1 DEF Follows, ShutComes
  <2>4. Settles(s)
    BY <2>1 DEF Follows, Settles, Awaits
  <2> QED
    BY <2>1, <2>2, <2>3, <2>4 DEF LineDone
<1> QED
  BY <1>2, <1>3

LEMMA TailAnswers ==
    ASSUME NEW q \in Seq(Line), q # <<>>, NEW w, NEW c, AnswersFit(q, w, c),
           NEW d, d = IF IsAnswer(Head(q)) THEN NoCmd ELSE c
    PROVE  AnswersFit(Tail(q), w, d)
<1>1. /\ Len(Tail(q)) = Len(q) - 1 /\ Len(q) \in Nat \ {0}
      /\ \A k \in 1..Len(Tail(q)) : Tail(q)[k] = q[k + 1]
      /\ Head(q) = q[1]
  BY HeadTailProperties, EmptySeq, LenProperties
<1>2. \A k \in 1..Len(Tail(q)) :
          k + 1 \in 1..Len(q) /\ k + 1 # 1 /\ Tail(q)[k] = q[k + 1]
  BY <1>1
<1>3. 1 \in 1..Len(q)
  BY <1>1
<1>4. CASE IsAnswer(Head(q))
  <2>1. w = <<>>
    BY <1>1, <1>3, <1>4 DEF AnswersFit
  <2>2. \A k \in 1..Len(Tail(q)) : ~IsAnswer(Tail(q)[k])
    BY <1>1, <1>2, <1>3, <1>4 DEF AnswersFit
  <2> QED
    BY <2>1, <2>2, <1>4 DEF AnswersFit
<1>5. CASE ~IsAnswer(Head(q))
  <2>1. /\ w # <<>> => w = <<c>>
        /\ c = NoCmd => w = <<>>
    BY DEF AnswersFit
  <2>2. w # <<>> \/ c = NoCmd =>
            \A k \in 1..Len(Tail(q)) : ~IsAnswer(Tail(q)[k])
    BY <1>2 DEF AnswersFit
  <2>3. ASSUME NEW j \in 1..Len(Tail(q)), NEW k \in 1..Len(Tail(q)),
               IsAnswer(Tail(q)[j]), IsAnswer(Tail(q)[k])
        PROVE  j = k
    <3>1. j + 1 = k + 1
      BY <1>2, <2>3 DEF AnswersFit
    <3>2. j \in Nat /\ k \in Nat
      OBVIOUS
    <3> QED
      BY <3>1, <3>2
  <2>4. \A k \in 1..Len(Tail(q)) : IsAnswer(Tail(q)[k]) => Answering(Tail(q)[k], c)
    BY <1>2 DEF AnswersFit
  <2> QED
    BY <1>5, <2>1, <2>2, <2>3, <2>4 DEF AnswersFit
<1> QED
  BY <1>4, <1>5

LEMMA ReadLineReal == Faithful /\ IInv /\ RealInv /\ ReadLine => RealInv'
<1> SUFFICES ASSUME Faithful, IInv, RealInv, ReadLine PROVE RealInv'
  OBVIOUS
<1> PICK a : a = Head(out)
  OBVIOUS
<1> PICK q : q = Tail(out)
  OBVIOUS
<1>1. /\ out # <<>> /\ out \in Seq(Line) /\ out' = q
      /\ wire \in Seq(Command) /\ mip' = mip /\ conn' = conn
      /\ ~Crossing(l, a) /\ ~Late(l, a)
  BY DEF IInv, ReadLine, Faithful
<1>2. /\ a \in Line /\ a = out[1] /\ 1 \in 1..Len(out)
      /\ Len(q) = Len(out) - 1 /\ Len(out) \in Nat \ {0}
      /\ \A k \in 1..Len(q) : q[k] = out[k + 1]
  BY <1>1, TailType, HeadTailProperties, EmptySeq, LenProperties
<1>3. PICK r \in Replies :
          LET s == Process(l, a, r)
          IN  IF reading' THEN l' = s /\ wire' = wire ELSE Handle(s)
  BY DEF ReadLine
<1> PICK s : s = Process(l, a, r)
  OBVIOUS
<1>4. AnswersFit(out, wire, l.curr) /\ Settles(l)
  BY DEF RealInv
<1>5. /\ IsFinal(l, a) <=> IsAnswer(a)
      /\ IsAnswer(a) => Answering(a, l.curr)
  BY <1>1, <1>2, <1>4, FinalIsAnswer
<1>6. LineDone(a, s)
  BY <1>1, <1>2, <1>4, <1>5, FinalDone, UrcDone DEF Process
<1>7. AnswersFit(q, wire, s.curr)
  BY <1>1, <1>4, <1>5, <1>6, TailAnswers DEF LineDone
<1>8. ASSUME WillLearn(l, wire, out) PROVE WillLearn(s, wire, q)
  <2>1. ASSUME NEW k \in 1..Len(out), TellsLoss(out[k])
        PROVE  WillLearn(s, wire, q)
    <3>1. CASE k = 1
      BY <2>1, <3>1, <1>2, <1>6 DEF LineDone, WillLearn, ShutComes
    <3>2. CASE k # 1
      <4>1. k - 1 \in 1..Len(q) /\ q[k - 1] = out[k]
        BY <3>2, <1>2
      <4> QED
        BY <2>1, <4>1 DEF WillLearn
    <3> QED
      BY <3>1, <3>2
  <2>2. CASE l.shutpending
    BY <2>2, <1>6 DEF LineDone, WillLearn, ShutComes
  <2>3. CASE \E v \in {"CIPSTATUS", "CIPSHUT"} :
                 Has(l.queue, Plain(v)) \/ Has(wire, Plain(v))
    BY <2>3, <1>6 DEF LineDone, WillLearn
  <2> QED
    BY <1>8, <2>1, <2>2, <2>3 DEF WillLearn
<1>9. /\ AnswersFit(q, wire', l'.curr) /\ l'.state = s.state /\ Settles(l')
      /\ WillLearn(s, wire, q) => WillLearn(l', wire', q)
  <2>1. CASE reading'
    BY <2>1, <1>3, <1>6, <1>7 DEF LineDone
  <2>2. CASE ~reading'
    <3>1. Handle(s) /\ s \in LinkRecord /\ Settles(s)
      BY <2>2, <1>3, <1>6 DEF LineDone
    <3> QED
      BY <3>1, <1>1, <1>7, HandleReal
  <2> QED
    BY <2>1, <2>2
<1>10. ASSUME NEW i, NEW k \in 0..Len(q),
              Covered(i, k + 1) \/ (k = 0 /\ Covered(i, 0) /\ ~Ends(a, i))
       PROVE  Covered(i, k)'
  <2>1. ASSUME NEW j \in 1..Len(out), Ends(out[j], i),
               k + 1 < j \/ (k = 0 /\ j # 1)
        PROVE  Covered(i, k)'
    <3>1. j - 1 \in 1..Len(q) /\ q[j - 1] = out[j] /\ k < j - 1
      BY <2>1, <1>2
    <3> QED
      BY <3>1, <2>1, <1>1 DEF Covered
  <2>2. CASE conn[i] = "open"
    BY <2>2, <1>1 DEF Covered
  <2>3. CASE mip = "DEACT" /\ WillLearn(l, wire, out)
    BY <2>3, <1>1, <1>8, <1>9 DEF Covered
  <2>4. ASSUME k = 0, ~Ends(a, i), NEW j \in 1..Len(out), Ends(out[j], i)
        PROVE  j # 1
    BY <2>4, <1>2
  <2> QED
    BY <1>10, <2>1, <2>2, <2>3, <2>4 DEF Covered
<1>11. ASSUME NEW i \in LinkIds, l'.state[i] = "CONNECTED"
       PROVE  Covered(i, 0)'
  <2>1. \/ l.state[i] = "CONNECTED" /\ ~Ends(a, i)
        \/ a.v = "CONNECT_OK" /\ a.id = i
    BY <1>6, <1>9, <1>11 DEF LineDone
  <2>2. 0 \in 0..Len(q) /\ 0 + 1 = 1
    BY <1>2
  <2>3. CASE l.state[i] = "CONNECTED" /\ ~Ends(a, i)
    <3>1. Covered(i, 0)
      BY <2>3 DEF RealInv
    <3> QED
      BY <3>1, <2>2, <2>3, <1>10
  <2>4. CASE a.v = "CONNECT_OK" /\ a.id = i
    <3>1. Covered(i, 1)
      BY <2>4, <1>2 DEF RealInv
    <3> QED
      BY <3>1, <2>2, <1>10
  <2> QED
    BY <2>1, <2>3, <2>4
<1>12. ASSUME NEW k \in 1..Len(q), q[k].v = "CONNECT_OK"
       PROVE  Covered(q[k].id, k)'
  <2>1. k + 1 \in 1..Len(out) /\ q[k] = out[k + 1] /\ k \in 0..Len(q)
    BY <1>2
  <2>2. Covered(q[k].id, k + 1)
    BY <2>1, <1>12 DEF RealInv
  <2> QED
    BY <2>1, <2>2, <1>10
<1> QED
  BY <1>1, <1>9, <1>11, <1>12 DEF RealInv

----------------------------------------------------------------------------
(* ... and the modem *)

LEMMA SaidLines ==
    ASSUME out \in Seq(Line), NEW lines \in Seq(Line), Say(lines)
    PROVE  /\ Len(out) \in Nat /\ Len(lines) \in Nat
           /\ Len(out') = Len(out) + Len(lines)
           /\ \A k \in 1..Len(out) : k \in 1..Len(out') /\ out'[k] = out[k]
           /\ \A k \in 1..Len(lines) : /\ Len(out) + k \in 1..Len(out')
                                       /\ out'[Len(out) + k] = lines[k]
           /\ \A k \in 1..Len(out') :
                  \/ k \in 1..Len(out)
                  \/ \E m \in 1..Len(lines) : k = Len(out) + m
<1>1. Len(out) \in Nat /\ Len(lines) \in Nat
  BY LenProperties
<1>2. /\ out' = out \o lines
      /\ Len(out \o lines) = Len(out) + Len(lines)
      /\ \A k \in 1..(Len(out) + Len(lines)) :
             (out \o lines)[k] = IF k <= Len(out) THEN out[k]
                                 ELSE lines[k - Len(out)]
  BY ConcatProperties DEF Say
<1>3. ASSUME NEW k \in 1..Len(lines)
      PROVE  Len(out) + k \in 1..Len(out') /\ out'[Len(out) + k] = lines[k]
  <2>1. /\ Len(out) + k \in 1..(Len(out) + Len(lines))
        /\ ~(Len(out) + k <= Len(out)) /\ (Len(out) + k) - Len(out) = k
    BY <1>1
  <2> QED
    BY <2>1, <1>2
<1>4. ASSUME NEW k \in 1..Len(out')
      PROVE  k \in 1..Len(out) \/ \E m \in 1..Len(lines) : k = Len(out) + m
  <2>1. CASE k <= Len(out)
    BY <2>1, <1>1
  <2>2. CASE ~(k <= Len(out))
    <3>1. k - Len(out) \in 1..Len(lines) /\ k = Len(out) + (k - Len(out))
      BY <2>2, <1>1, <1>2
    <3> QED
      BY <3>1
  <2> QED
    BY <2>1, <2>2
<1>5. \A k \in 1..Len(out) : k \in 1..Len(out') /\ out'[k] = out[k]
  BY <1>1, <1>2
<1> QED
  BY <1>1, <1>2, <1>3, <1>4, <1>5

(* The modem answers the command that it has. *)
LEMMA AnswerFits ==
    ASSUME IInv, AnswersFit(out, wire, l.curr), wire # <<>>, wire' = Tail(wire),
           NEW lines \in Seq(Line), Say(lines), lines # <<>>, Answering(lines[1], Head(wire)),
           \A k \in 1..Len(lines) : k # 1 => ~IsAnswer(lines[k])
    PROVE  AnswersFit(out', wire', l.curr)
<1>1. /\ wire = <<l.curr>> /\ l.curr # NoCmd
      /\ \A k \in 1..Len(out) : ~IsAnswer(out[k])
  BY DEF AnswersFit
<1>2. wire' = <<>> /\ Head(wire) = l.curr
  BY <1>1
<1>3. \A k \in 1..Len(out') : IsAnswer(out'[k]) =>
          k = Len(out) + 1 /\ out'[k] = lines[1]
  <2> SUFFICES ASSUME NEW k \in 1..Len(out'), IsAnswer(out'[k])
               PROVE  k = Len(out) + 1 /\ out'[k] = lines[1]
    OBVIOUS
  <2>1. k \notin 1..Len(out)
    BY <1>1, SaidLines DEF IInv
  <2>2. PICK m \in 1..Len(lines) : k = Len(out) + m
    BY <2>1, SaidLines DEF IInv
  <2>3. out'[k] = lines[m]
    BY <2>2, SaidLines DEF IInv
  <2> QED
    BY <2>2, <2>3
<1> QED
  BY <1>1, <1>2, <1>3 DEF AnswersFit

(* It reports what nothing asked for. *)
LEMMA ReportFits ==
    ASSUME IInv, AnswersFit(out, wire, l.curr), UNCHANGED wire,
           NEW a \in Line, Say(<<a>>), ~IsAnswer(a)
    PROVE  AnswersFit(out', wire', l.curr)
<1> PICK lines : lines = <<a>>
  OBVIOUS
<1>1. /\ lines \in Seq(Line) /\ Say(lines) /\ Len(lines) = 1 /\ lines[1] = a
      /\ out \in Seq(Line)
  BY DEF IInv
<1>2. AnswersFit(out, wire, l.curr)
  OBVIOUS
<1>3. ASSUME NEW k \in 1..Len(out'), IsAnswer(out'[k])
      PROVE  k \in 1..Len(out) /\ out'[k] = out[k]
  <2>1. k \in 1..Len(out) \/ \E m \in 1..Len(lines) : k = Len(out) + m
    BY <1>1, SaidLines
  <2>2. ASSUME NEW m \in 1..Len(lines), k = Len(out) + m PROVE FALSE
    <3>1. out'[Len(out) + m] = lines[m]
      BY <1>1, <2>2, SaidLines
    <3>2. m = 1
      BY <1>1, <2>2
    <3> QED
      BY <3>1, <3>2, <2>2, <1>1, <1>3
  <2>3. k \in 1..Len(out)
    BY <2>1, <2>2
  <2> QED
    BY <2>3, <1>1, SaidLines
<1> QED
  BY <1>2, <1>3 DEF AnswersFit

LEMMA SayReal ==
    ASSUME IInv, RealInv, UNCHANGED l, NEW lines \in Seq(Line), Say(lines),
           AnswersFit(out', wire', l.curr),
           \A i \in LinkIds : conn[i] = "open" =>
               \/ conn'[i] = "open"
               \/ \E k \in 1..Len(lines) : Ends(lines[k], i)
               \/ mip' = "DEACT" /\ WillLearn(l, wire', out'),
           mip = "DEACT" /\ WillLearn(l, wire, out) =>
               \/ mip' = "DEACT" /\ WillLearn(l, wire', out')
               \/ \A i \in LinkIds : \E k \in 1..Len(lines) : Ends(lines[k], i),
           \A k \in 1..Len(lines) :
               lines[k].v = "CONNECT_OK" => conn'[lines[k].id] = "open"
    PROVE  RealInv'
<1>0. out \in Seq(Line) /\ l' = l
  BY DEF IInv
<1>1. /\ Len(out) \in Nat /\ Len(lines) \in Nat
      /\ \A k \in 1..Len(out) : k \in 1..Len(out') /\ out'[k] = out[k]
      /\ \A k \in 1..Len(lines) : /\ Len(out) + k \in 1..Len(out')
                                  /\ out'[Len(out) + k] = lines[k]
      /\ \A k \in 1..Len(out') :
             k \in 1..Len(out) \/ \E m \in 1..Len(lines) : k = Len(out) + m
  BY <1>0, SaidLines
<1>2. ASSUME NEW i \in LinkIds, NEW k \in 0..Len(out), Covered(i, k)
      PROVE  Covered(i, k)'
  <2>1. ASSUME NEW m \in 1..Len(lines), Ends(lines[m], i)
        PROVE  Covered(i, k)'
    <3>1. k < Len(out) + m
      BY <1>1
    <3>2. Len(out) + m \in 1..Len(out') /\ Ends(out'[Len(out) + m], i)
      BY <1>1, <2>1
    <3> QED
      BY <3>1, <3>2 DEF Covered
  <2>2. CASE conn[i] = "open"
    <3>1. CASE conn'[i] = "open"
      BY <3>1 DEF Covered
    <3>2. CASE mip' = "DEACT" /\ WillLearn(l, wire', out')
      BY <3>2, <1>0 DEF Covered
    <3> QED
      BY <2>1, <2>2, <3>1, <3>2
  <2>3. ASSUME NEW j \in 1..Len(out), k < j, Ends(out[j], i)
        PROVE  Covered(i, k)'
    <3>1. j \in 1..Len(out') /\ Ends(out'[j], i)
      BY <2>3, <1>1
    <3> QED
      BY <3>1, <2>3 DEF Covered
  <2>4. CASE mip = "DEACT" /\ WillLearn(l, wire, out)
    <3>1. CASE mip' = "DEACT" /\ WillLearn(l, wire', out')
      BY <3>1, <1>0 DEF Covered
    <3> QED
      BY <2>1, <2>4, <3>1
  <2> QED
    BY <1>2, <2>2, <2>3, <2>4 DEF Covered
<1>3. ASSUME NEW i \in LinkIds, l'.state[i] = "CONNECTED" PROVE Covered(i, 0)'
  <2>1. Covered(i, 0) /\ 0 \in 0..Len(out)
    BY <1>0, <1>1, <1>3 DEF RealInv
  <2> QED
    BY <2>1, <1>2
<1>4. ASSUME NEW k \in 1..Len(out'), out'[k].v = "CONNECT_OK"
      PROVE  Covered(out[k].id, k)'
  <2>1. CASE k \in 1..Len(out)
    <3>1. out'[k] = out[k] /\ out[k] \in Line /\ k \in 0..Len(out)
      BY <2>1, <1>0, <1>1
    <3>2. Covered(out[k].id, k) /\ out[k].id \in LinkIds
      BY <2>1, <3>1, <1>4, LineFacts DEF RealInv
    <3> PICK e : e = out[k].id
      OBVIOUS
    <3>3. Covered(e, k)'
      BY <3>1, <3>2, <1>2
    <3> QED
      BY <3>1, <3>3 DEF Covered
  <2>2. ASSUME NEW m \in 1..Len(lines), k = Len(out) + m
        PROVE  Covered(out[k].id, k)'
    <3>1. out'[k] = lines[m]
      BY <2>2, <1>1
    <3>2. conn'[out'[k].id] = "open"
      BY <3>1, <1>4
    <3> QED
      BY <3>2 DEF Covered
  <2> QED
    BY <1>1, <2>1, <2>2
<1> QED
  BY <1>0, <1>3, <1>4 DEF RealInv

(* An answer after which link learns what it was to learn before. *)
LEMMA AnswerReal ==
    ASSUME Faithful, IInv, RealInv, UNCHANGED l, wire # <<>>,
           Head(wire) \notin {Plain("CIPSTATUS"), Plain("CIPSHUT")},
           wire' = Tail(wire), NEW a \in Line, Say(<<a>>),
           Answering(a, Head(wire)), a.v # "CONNECT_OK",
           mip = "DEACT" => mip' = "DEACT",
           \A i \in LinkIds :
               conn[i] = "open" => conn'[i] = "open" \/ Ends(a, i)
    PROVE  RealInv'
<1> PICK lines : lines = <<a>>
  OBVIOUS
<1>1. /\ lines \in Seq(Line) /\ Say(lines) /\ Len(lines) = 1 /\ lines[1] = a
      /\ lines # <<>> /\ 1 \in 1..Len(lines) /\ out \in Seq(Line)
  BY DEF IInv
<1>1a. /\ \A k \in 1..Len(lines) : k # 1 => ~IsAnswer(lines[k])
       /\ \A k \in 1..Len(lines) :
              lines[k].v = "CONNECT_OK" => conn'[lines[k].id] = "open"
  BY <1>1
<1>0. AnswersFit(out, wire, l.curr)
  BY DEF RealInv
<1>2. AnswersFit(out', wire', l.curr)
  BY ONLY <1>0, IInv, wire # <<>>, wire' = Tail(wire), <1>1, <1>1a,
     Answering(a, Head(wire)), AnswerFits
<1>3. wire = <<Head(wire)>>
  BY DEF RealInv, AnswersFit
<1>4. ASSUME WillLearn(l, wire, out) PROVE WillLearn(l, wire', out')
  <2>1. ASSUME NEW k \in 1..Len(out), TellsLoss(out[k])
        PROVE  WillLearn(l, wire', out')
    <3>1. k \in 1..Len(out') /\ out'[k] = out[k]
      BY <1>1, SaidLines
    <3> QED
      BY <3>1, <2>1 DEF WillLearn
  <2>2. \A v \in {"CIPSTATUS", "CIPSHUT"} : ~Has(wire, Plain(v))
    BY <1>3 DEF Has
  <2> QED
    BY <1>4, <2>1, <2>2 DEF WillLearn
<1>5. \A i \in LinkIds : conn[i] = "open" =>
          \/ conn'[i] = "open"
          \/ \E k \in 1..Len(lines) : Ends(lines[k], i)
          \/ mip' = "DEACT" /\ WillLearn(l, wire', out')
  BY <1>1
<1>6. mip = "DEACT" /\ WillLearn(l, wire, out) =>
          \/ mip' = "DEACT" /\ WillLearn(l, wire', out')
          \/ \A i \in LinkIds : \E k \in 1..Len(lines) : Ends(lines[k], i)
  BY <1>4
<1> QED
  BY ONLY IInv, RealInv, UNCHANGED l, <1>1, <1>1a, <1>2, <1>5, <1>6, SayReal

(* A report that nothing asked for *)
LEMMA ReportReal ==
    ASSUME IInv, RealInv, UNCHANGED <<l, wire>>, NEW a \in Line, Say(<<a>>),
           ~IsAnswer(a),
           mip = "DEACT" => mip' = "DEACT",
           a.v = "CONNECT_OK" => conn'[a.id] = "open",
           \A i \in LinkIds : conn[i] = "open" =>
               conn'[i] = "open" \/ Ends(a, i) \/ (mip' = "DEACT" /\ TellsLoss(a))
    PROVE  RealInv'
<1> PICK lines : lines = <<a>>
  OBVIOUS
<1>1. /\ lines \in Seq(Line) /\ Say(lines) /\ Len(lines) = 1 /\ lines[1] = a
      /\ 1 \in 1..Len(lines) /\ out \in Seq(Line)
  BY DEF IInv
<1>0. AnswersFit(out, wire, l.curr)
  BY DEF RealInv
<1>2. AnswersFit(out', wire', l.curr)
  BY <1>0, ReportFits
<1>3. ASSUME WillLearn(l, wire, out) PROVE WillLearn(l, wire', out')
  <2>1. ASSUME NEW k \in 1..Len(out), TellsLoss(out[k])
        PROVE  WillLearn(l, wire', out')
    <3>1. k \in 1..Len(out') /\ out'[k] = out[k]
      BY <1>1, SaidLines
    <3> QED
      BY <3>1, <2>1 DEF WillLearn
  <2> QED
    BY <1>3, <2>1 DEF WillLearn
<1>4. TellsLoss(a) => WillLearn(l, wire', out')
  <2>1. Len(out) + 1 \in 1..Len(out') /\ out'[Len(out) + 1] = a
    BY <1>1, SaidLines
  <2> QED
    BY <2>1 DEF WillLearn
<1>5. \A i \in LinkIds : conn[i] = "open" =>
          \/ conn'[i] = "open"
          \/ \E k \in 1..Len(lines) : Ends(lines[k], i)
          \/ mip' = "DEACT" /\ WillLearn(l, wire', out')
  BY <1>1, <1>4
<1>6. mip = "DEACT" /\ WillLearn(l, wire, out) =>
          \/ mip' = "DEACT" /\ WillLearn(l, wire', out')
          \/ \A i \in LinkIds : \E k \in 1..Len(lines) : Ends(lines[k], i)
  BY <1>3
<1>7. \A k \in 1..Len(lines) :
          lines[k].v = "CONNECT_OK" => conn'[lines[k].id] = "open"
  BY <1>1
<1> QED
  BY ONLY IInv, RealInv, UNCHANGED l, <1>1, <1>2, <1>5, <1>6, <1>7, SayReal

LEMMA ConnectsReal == IInv /\ RealInv /\ Connects => RealInv'
<1> SUFFICES ASSUME IInv, RealInv, Connects PROVE RealInv'
  OBVIOUS
<1>1. PICK i \in LinkIds, v \in {"CONNECT_OK", "CONNECT_FAIL"} :
          /\ Say(<<Ln("LINK", i, v)>>) /\ conn[i] = "opening"
          /\ conn' = [conn EXCEPT ![i] = IF v = "CONNECT_OK" THEN "open"
                                         ELSE "free"]
  BY DEF Connects
<1> PICK a : a = Ln("LINK", i, v)
  OBVIOUS
<1>2. /\ a \in Line /\ ~IsAnswer(a) /\ a.v = v /\ a.id = i
  BY LnType DEF Ln, IsAnswer
<1>3. conn \in [LinkIds -> {"free", "opening", "open"}]
  BY DEF IInv
<1>4. \A j \in LinkIds : conn[j] = "open" => conn'[j] = "open"
  BY <1>1, <1>3
<1>5. a.v = "CONNECT_OK" => conn'[a.id] = "open"
  BY <1>1, <1>2, <1>3
<1>6. UNCHANGED <<l, wire>> /\ mip' = mip
  BY DEF Connects
<1> QED
  BY <1>1, <1>2, <1>4, <1>5, <1>6, ReportReal

LEMMA PeerClosesReal == IInv /\ RealInv /\ PeerCloses => RealInv'
<1> SUFFICES ASSUME IInv, RealInv, PeerCloses PROVE RealInv'
  OBVIOUS
<1>1. PICK i \in LinkIds : /\ Say(<<Ln("LINK", i, "CLOSED")>>)
                           /\ conn' = [conn EXCEPT ![i] = "free"]
  BY DEF PeerCloses
<1> PICK a : a = Ln("LINK", i, "CLOSED")
  OBVIOUS
<1>2. /\ a \in Line /\ ~IsAnswer(a) /\ a.v # "CONNECT_OK" /\ Ends(a, i)
  BY LnType DEF Ln, IsAnswer, Ends
<1>3. \A j \in LinkIds : conn[j] = "open" => conn'[j] = "open" \/ Ends(a, j)
  BY <1>1, <1>2 DEF IInv
<1>4. UNCHANGED <<l, wire>> /\ mip' = mip
  BY DEF PeerCloses
<1> QED
  BY <1>1, <1>2, <1>3, <1>4, ReportReal

LEMMA PdpDeactReal == Faithful /\ IInv /\ RealInv /\ PdpDeact => RealInv'
<1> SUFFICES ASSUME Faithful, IInv, RealInv, PdpDeact PROVE RealInv'
  OBVIOUS
<1>1. UNCHANGED l /\ mip' = "DEACT" /\ out \in Seq(Line)
  BY DEF PdpDeact, IInv
<1>2. CASE Say(<<Ln("PDP", 0, "PDP_DEACT")>>) /\ UNCHANGED wire
  <2> PICK a : a = Ln("PDP", 0, "PDP_DEACT")
    OBVIOUS
  <2>1. a \in Line /\ ~IsAnswer(a) /\ a.v # "CONNECT_OK" /\ TellsLoss(a)
    BY LinkZero, LnType DEF Ln, IsAnswer, TellsLoss
  <2> QED
    BY <1>1, <1>2, <2>1, ReportReal
<1>3. CASE /\ wire # <<>> /\ Head(wire).verb = "CIPSEND"
           /\ Say(<<Ln("ANS", 0, "PDP_DEACT")>>) /\ wire' = Tail(wire)
  <2> PICK a : a = Ln("ANS", 0, "PDP_DEACT")
    OBVIOUS
  <2> PICK lines : lines = <<a>>
    OBVIOUS
  <2>1. a \in Line /\ a.v # "CONNECT_OK" /\ TellsLoss(a)
    BY LinkZero, LnType DEF Ln, TellsLoss
  <2>2. Head(wire) # NoCmd
    BY <1>3 DEF NoCmd
  <2>3. Answering(a, Head(wire))
    BY <1>3, <2>2 DEF Answering, Ln
  <2>4. /\ lines \in Seq(Line) /\ Say(lines) /\ Len(lines) = 1 /\ lines[1] = a
        /\ lines # <<>> /\ 1 \in 1..Len(lines)
    BY <1>3, <2>1
  <2>5. /\ \A k \in 1..Len(lines) : k # 1 => ~IsAnswer(lines[k])
        /\ \A k \in 1..Len(lines) :
               lines[k].v = "CONNECT_OK" => conn'[lines[k].id] = "open"
    BY <2>1, <2>4
  <2>6. Len(out) + 1 \in 1..Len(out') /\ out'[Len(out) + 1] = a
    BY <1>1, <2>4, SaidLines
  <2>7. WillLearn(l, wire', out')
    BY <2>1, <2>6 DEF WillLearn
  <2>0. AnswersFit(out, wire, l.curr)
    BY DEF RealInv
  <2>8. AnswersFit(out', wire', l.curr)
    BY ONLY <2>0, IInv, <1>3, <2>3, <2>4, <2>5, AnswerFits
  <2>9. \A i \in LinkIds : conn[i] = "open" =>
            \/ conn'[i] = "open"
            \/ \E k \in 1..Len(lines) : Ends(lines[k], i)
            \/ mip' = "DEACT" /\ WillLearn(l, wire', out')
    BY <1>1, <2>7
  <2>10. mip = "DEACT" /\ WillLearn(l, wire, out) =>
            \/ mip' = "DEACT" /\ WillLearn(l, wire', out')
            \/ \A i \in LinkIds : \E k \in 1..Len(lines) : Ends(lines[k], i)
    BY <1>1, <2>7
  <2> QED
    BY ONLY IInv, RealInv, <1>1, <2>4, <2>5, <2>8, <2>9, <2>10, SayReal
<1> QED
  BY <1>2, <1>3 DEF PdpDeact, Faithful

(* AT+CIPSHUT closes every connection. *)
LEMMA ShutOkReal ==
    ASSUME IInv, RealInv, UNCHANGED l, wire # <<>>, wire' = Tail(wire),
           Head(wire) = Plain("CIPSHUT"), NEW i \in LinkIds,
           Say(<<Ln("ANS", i, "SHUT_OK")>>)
    PROVE  RealInv'
<1> PICK a : a = Ln("ANS", i, "SHUT_OK")
  OBVIOUS
<1> PICK lines : lines = <<a>>
  OBVIOUS
<1>1. /\ a \in Line /\ a.t = "ANS" /\ a.v = "SHUT_OK"
      /\ \A j \in LinkIds : Ends(a, j)
  BY LnType DEF Ln, Ends
<1>2. Answering(a, Head(wire))
  BY <1>1 DEF Answering, Plain, NoCmd
<1>3. /\ lines \in Seq(Line) /\ Say(lines) /\ Len(lines) = 1 /\ lines[1] = a
      /\ lines # <<>> /\ 1 \in 1..Len(lines)
  BY <1>1
<1>4. /\ \A k \in 1..Len(lines) : k # 1 => ~IsAnswer(lines[k])
      /\ \A k \in 1..Len(lines) :
             lines[k].v = "CONNECT_OK" => conn'[lines[k].id] = "open"
      /\ \A j \in LinkIds : \E k \in 1..Len(lines) : Ends(lines[k], j)
  BY <1>1, <1>3
<1>5. Answering(lines[1], Head(wire))
  BY <1>2, <1>3
<1>0. AnswersFit(out, wire, l.curr)
  BY DEF RealInv
<1>6. AnswersFit(out', wire', l.curr)
  BY ONLY <1>0, IInv, wire # <<>>, wire' = Tail(wire), <1>3, <1>4, <1>5,
     AnswerFits
<1> QED
  BY ONLY IInv, RealInv, UNCHANGED l, <1>3, <1>4, <1>6, SayReal

(* AT+CIPSTATUS tells of a lost network. *)
LEMMA StatusReal ==
    ASSUME IInv, RealInv, UNCHANGED <<l, conn>>, wire # <<>>, wire' = Tail(wire),
           mip = "DEACT" => mip' = "DEACT", NEW i \in LinkIds,
           mip' \in IpStates,
           Head(wire) # NoCmd,
           Say(<<Ln("ANS", i, "OK"), Ln("STATE", i, Report)>>)
    PROVE  RealInv'
<1> PICK v : v = Report
  OBVIOUS
<1> PICK a : a = Ln("ANS", i, "OK")
  OBVIOUS
<1> PICK b : b = Ln("STATE", i, v)
  OBVIOUS
<1> PICK lines : lines = <<a, b>>
  OBVIOUS
<1>0. v \in IpStates /\ (mip = "DEACT" => v = "DEACT")
  BY DEF Report, IpStates
<1>1. /\ a \in Line /\ a.t = "ANS" /\ a.v = "OK"
      /\ b \in Line /\ ~IsAnswer(b) /\ b.v = v /\ b.t = "STATE"
  BY <1>0, LnType DEF Ln, IsAnswer
<1>2. Answering(a, Head(wire))
  BY <1>1 DEF Answering
<1>3. /\ lines \in Seq(Line) /\ Say(lines) /\ Len(lines) = 2
      /\ lines[1] = a /\ lines[2] = b /\ lines # <<>> /\ 2 \in 1..Len(lines)
  BY <1>1
<1>4. \A k \in 1..Len(lines) : k = 1 \/ k = 2
  BY <1>3
<1>5. /\ \A k \in 1..Len(lines) : k # 1 => ~IsAnswer(lines[k])
      /\ \A k \in 1..Len(lines) :
             lines[k].v = "CONNECT_OK" => conn'[lines[k].id] = "open"
  BY <1>0, <1>1, <1>3, <1>4 DEF IpStates
<1>6. Answering(lines[1], Head(wire))
  BY <1>2, <1>3
<1>0a. AnswersFit(out, wire, l.curr)
  BY DEF RealInv
<1>7. AnswersFit(out', wire', l.curr)
  BY ONLY <1>0a, IInv, wire # <<>>, wire' = Tail(wire), <1>3, <1>5, <1>6,
     AnswerFits
<1>8. ASSUME mip = "DEACT" PROVE mip' = "DEACT" /\ WillLearn(l, wire', out')
  <2>1. Len(out) + 2 \in 1..Len(out') /\ out'[Len(out) + 2] = b
    BY <1>3, SaidLines DEF IInv
  <2>2. TellsLoss(b)
    BY <1>0, <1>1, <1>8 DEF TellsLoss
  <2> QED
    BY <1>8, <2>1, <2>2 DEF WillLearn
<1>9. \A j \in LinkIds : conn[j] = "open" =>
          \/ conn'[j] = "open"
          \/ \E k \in 1..Len(lines) : Ends(lines[k], j)
          \/ mip' = "DEACT" /\ WillLearn(l, wire', out')
  OBVIOUS
<1>10. mip = "DEACT" /\ WillLearn(l, wire, out) =>
          \/ mip' = "DEACT" /\ WillLearn(l, wire', out')
          \/ \A j \in LinkIds : \E k \in 1..Len(lines) : Ends(lines[k], j)
  BY <1>8
<1> QED
  BY ONLY IInv, RealInv, UNCHANGED <<l, conn>>, <1>3, <1>5, <1>7, <1>9, <1>10,
     SayReal

LEMMA ExecuteReal == Faithful /\ IInv /\ RealInv /\ Execute => RealInv'
<1> SUFFICES ASSUME Faithful, IInv, RealInv, Execute PROVE RealInv'
  OBVIOUS
<1>1. /\ wire # <<>> /\ wire \in Seq(Command) /\ wire' = Tail(wire)
      /\ UNCHANGED l /\ mip \in IpStates
      /\ conn \in [LinkIds -> {"free", "opening", "open"}]
  BY DEF IInv, Execute
<1> PICK c : c = Head(wire)
  OBVIOUS
<1> PICK i : i = c.id
  OBVIOUS
<1>2. /\ c \in Command /\ i \in LinkIds /\ c # NoCmd /\ c = Cmd(c.verb, i)
      /\ c.verb = "CIPSHUT" => c = Plain("CIPSHUT")
  <2>1. c \in Command
    BY <1>1, TailType
  <2> QED
    BY <2>1 DEF Command, SocketVerbs, Verbs, NoCmd, Cmd, Plain
<1>3. \A a \in Line : a.t = "ANS" /\ a.v \in {"OK", "ERROR"} => Answering(a, c)
  BY <1>2 DEF Answering
<1> PICK ok : ok = Ln("ANS", i, "OK")
  OBVIOUS
<1> PICK error : error = Ln("ANS", i, "ERROR")
  OBVIOUS
<1>4. /\ ok \in Line /\ Answering(ok, c) /\ ok.v # "CONNECT_OK"
      /\ error \in Line /\ Answering(error, c) /\ error.v # "CONNECT_OK"
  <2>1. /\ ok \in Line /\ ok.t = "ANS" /\ ok.v = "OK"
        /\ error \in Line /\ error.t = "ANS" /\ error.v = "ERROR"
    BY <1>2, LnType DEF Ln
  <2> QED
    BY <2>1, <1>3
<1>5. c.verb \notin {"CIPSTATUS", "CIPSHUT"} =>
          c \notin {Plain("CIPSTATUS"), Plain("CIPSHUT")}
  BY DEF Plain
<1>6. ASSUME c.verb \notin {"CIPSTATUS", "CIPSHUT"}, NEW a \in Line,
             Answering(a, c), a.v # "CONNECT_OK", Say(<<a>>),
             mip = "DEACT" => mip' = "DEACT",
             \A j \in LinkIds :
                 conn[j] = "open" => conn'[j] = "open" \/ Ends(a, j)
      PROVE  RealInv'
  BY <1>1, <1>5, <1>6, AnswerReal
<1>7. CASE /\ c.verb = "CIPSTART" /\ conn[i] = "free" /\ Say(<<ok>>)
           /\ conn' = [conn EXCEPT ![i] = "opening"] /\ UNCHANGED mip
  <2>1. \A j \in LinkIds : conn[j] = "open" => conn'[j] = "open"
    BY <1>1, <1>7
  <2> QED
    BY <1>4, <1>6, <1>7, <2>1
<1>8. CASE /\ c.verb \in {"CIPSTART", "CIICR", "CIPSEND"}
           /\ Say(<<error>>) /\ UNCHANGED <<mip, conn>>
  BY <1>4, <1>6, <1>8
<1>9. ASSUME NEW v \in {"SEND_OK", "SEND_FAIL"}, c.verb = "CIPSEND",
             Say(<<Ln("LINK", i, v)>>), UNCHANGED <<mip, conn>>
      PROVE  RealInv'
  <2> PICK a : a = Ln("LINK", i, v)
    OBVIOUS
  <2>1. a \in Line /\ a.t = "LINK" /\ a.id = i /\ a.v = v
    BY <1>2, LnType DEF Ln
  <2>2. Answering(a, c)
    BY <2>1, <1>2, <1>9 DEF Answering
  <2> QED
    BY <1>6, <1>9, <2>1, <2>2
<1>10. CASE /\ c.verb = "CIPCLOSE" /\ Say(<<Ln("LINK", i, "CLOSE_OK")>>)
            /\ conn' = [conn EXCEPT ![i] = "free"] /\ UNCHANGED mip
  <2> PICK a : a = Ln("LINK", i, "CLOSE_OK")
    OBVIOUS
  <2>1. a \in Line /\ a.t = "LINK" /\ a.id = i /\ a.v = "CLOSE_OK"
    BY <1>2, LnType DEF Ln
  <2>2. Answering(a, c) /\ Ends(a, i)
    BY <2>1, <1>2, <1>10 DEF Answering, Ends
  <2>3. \A j \in LinkIds : conn[j] = "open" => conn'[j] = "open" \/ Ends(a, j)
    BY <1>1, <1>10, <2>2
  <2> QED
    BY <1>6, <1>10, <2>1, <2>2, <2>3
<1>11. CASE /\ c.verb = "CIPCLOSE" /\ conn[i] = "free" /\ Say(<<error>>)
            /\ conn' = [conn EXCEPT ![i] = "free"] /\ UNCHANGED mip
  <2>1. \A j \in LinkIds : conn[j] = "open" => conn'[j] = "open"
    BY <1>1, <1>11
  <2> QED
    BY <1>4, <1>6, <1>11, <2>1
<1>12. CASE c.verb = "CIPSHUT" /\ Say(<<Ln("ANS", i, "SHUT_OK")>>)
  BY <1>1, <1>2, <1>12, ShutOkReal
<1>13. CASE /\ c.verb = "CIPSTATUS"
            /\ mip' \in {mip} \union (IF mip = "START" THEN {"GPRSACT"} ELSE {})
            /\ Say(<<ok, Ln("STATE", i, Report)>>) /\ UNCHANGED conn
  <2>1. mip' \in IpStates /\ (mip = "DEACT" => mip' = "DEACT")
    BY <1>1, <1>13 DEF IpStates
  <2> QED
    BY <1>1, <1>2, <1>13, <2>1, StatusReal
<1>14. CASE /\ c.verb = "CIICR" /\ mip = "INITIAL" /\ Say(<<ok>>)
            /\ mip' = "START" /\ UNCHANGED conn
  BY <1>4, <1>6, <1>14
<1>15. CASE /\ c.verb = "CIFSR" /\ Say(<<ok>>) /\ UNCHANGED conn
            /\ mip' = IF mip = "GPRSACT" THEN "STATUS" ELSE mip
  BY <1>4, <1>6, <1>15
<1> QED
  BY <1>7, <1>8, <1>9, <1>10, <1>11, <1>12, <1>13, <1>14, <1>15
     DEF Execute, Faithful

LEMMA StutterReal == RealInv /\ UNCHANGED vars => RealInv'
BY DEF RealInv, Covered, vars

LEMMA NextReal == Faithful /\ IInv /\ RealInv /\ [Next]_vars => RealInv'
BY OwnerCallsReal, LocalEventReal, ReadLineReal, TimersReal, RestartReal,
   CgattRspReal, FlyModeReal, HoldReal, ExecuteReal, ConnectsReal,
   PeerClosesReal, PdpDeactReal, StutterReal DEF Next

(* When no connection succeeds that has been given up, no AT+CIPCLOSE is   *)
(* answered by the loss of the network, no report is taken for an answer   *)
(* and no AT+CIPSHUT fails, getstate says CONNECTED only of a socket that  *)
(* the modem has connected, or the line or the command that corrects it is *)
(* under way: whatever order connections, closes, sends, shuts and losses  *)
(* of the network come in, and whatever owners call when they are told.    *)
THEOREM ConnectedSocketsAreReal == Faithful => (Spec => []ConnectedIsReal)
<1>1. Init => RealInv
  BY RealInit
<1>2. Faithful /\ IInv /\ RealInv /\ [Next]_vars => RealInv'
  BY NextReal
<1>3. IInv /\ RealInv => ConnectedIsReal
  BY RealHolds
<1>4. SUFFICES ASSUME Faithful PROVE Spec => []ConnectedIsReal
  OBVIOUS
<1>5. IInv /\ RealInv /\ [Next]_vars => RealInv'
  BY <1>2, <1>4
<1> QED
  BY <1>1, <1>3, <1>5, IInvHolds, PTL DEF Spec
----------------------------------------------------------------------------
(* A connect that waits for the network *)

(* No report is taken for an answer and no AT+CIPSHUT fails. *)
Obedient == ~Crosses /\ ~ShutFails

Sockets(s) == \E i \in LinkIds : s.state[i] # "NIL"

ShutWill(s, e) ==
    "shut" \in e \/ s.shutpending \/ Has(s.queue, Plain("CIPSHUT"))

ToldWill(s, e) == "told" \in e \/ Has(s.queue, Plain("CIPSTATUS"))

(* Behind an AT+CIFSR that is queued or in execution, the network is asked.*)
Paired(s) ==
    /\ s.curr = Plain("CIFSR") =>
           1 \in 1..Len(s.queue) /\ s.queue[1] = Plain("CIPSTATUS")
    /\ \A k \in 1..Len(s.queue) : s.queue[k] = Plain("CIFSR") =>
           k + 1 \in 1..Len(s.queue) /\ s.queue[k + 1] = Plain("CIPSTATUS")

(* What becomes of the network.  Outside the record s are under way, in e, *)
(* a shut and the answer to the question for its state; "timed": tciicr    *)
(* means what it says.                                                     *)
NetFits(s, e) ==
    /\ Paired(s)
    /\ s.shuting => "shut" \in e \/ Has(s.queue, Plain("CIPSHUT"))
    /\ s.ip = "START" => ("timed" \in e /\ s.tciicr) \/ ToldWill(s, e)
    /\ s.ip = "GPRSACT" => ToldWill(s, e)
    /\ s.ip = "DEACT" => ShutWill(s, e)
    /\ \A i \in LinkIds :
           s.state[i] # "NIL" /\ s.pending[i] /\ IpReady(s) => ShutWill(s, e)

(* The network is set up for the sockets there are. *)
SetupFits(s) ==
    s.ip = "INITIAL" /\ Sockets(s) /\ s.cgatt /\ ~s.flymode => s.tsetup

HasState(q) == \E k \in 1..Len(q) : q[k].t = "STATE"
HasOk(q) == \E k \in 1..Len(q) : q[k].t = "ANS" /\ q[k].v = "OK"

Hopes(s, q) ==
    {h \in {"shut", "told", "timed"} :
        /\ h = "shut" => s.curr = Plain("CIPSHUT")
        /\ h = "told" => s.curr = Plain("CIPSTATUS") \/ HasState(q)}

(* What the modem said of the network is still so, or lost. *)
StillSo(s, v) ==
    /\ v \in {"INITIAL", "START", "DEACT"} => mip = v
    /\ v = "GPRSACT" => mip \in {"GPRSACT", "DEACT"}
    /\ v = "PROCESSING" => IpReady(s)

(* Line k of q is the state of the network: it comes after the answer of   *)
(* the AT+CIPSTATUS that asked for it, and is taken with it.               *)
StateFits(s, q, w, rd, k) ==
    /\ w = <<>>
    /\ s.curr = Plain("CIPSTATUS") \/ (s.curr = NoCmd /\ rd)
    /\ s.curr # NoCmd => \E j \in 1..Len(q) : j < k /\ IsAnswer(q[j])
    /\ \A j \in 1..Len(q) : q[j].t = "STATE" => j = k
    /\ StillSo(s, q[k].v)

(* A network that the modem has and link does not know is found out. *)
Finds(s, q, w, rd) ==
    \/ s.curr = Plain("CIPSTATUS") \/ HasState(q)
    \/ s.curr = Plain("CIFSR") /\ w = <<>>
    \/ /\ s.curr = NoCmd /\ rd
       /\ 1 \in 1..Len(s.queue) /\ s.queue[1] = Plain("CIPSTATUS")

(* link, with record s, unread lines q, the commands w of the modem and    *)
(* its reader, rd, and the network of the modem                            *)
NetAt(s, q, w, rd) ==
    /\ NetFits(s, Hopes(s, q)) /\ SetupFits(s)
    /\ \A k \in 1..Len(q) : q[k].t = "STATE" => StateFits(s, q, w, rd, k)
    /\ s.curr = Plain("CIPSTATUS") /\ w = <<>> => HasState(q)
    /\ \A k \in 1..Len(q) :
           /\ q[k].t = "ANS" /\ q[k].v = "SHUT_OK" => mip = "INITIAL"
           /\ s.curr = Plain("CIPSHUT") /\ IsAnswer(q[k]) => q[k].v = "SHUT_OK"
    /\ mip # "PROCESSING"
    /\ \A i \in LinkIds : conn[i] # "free" => mip = "STATUS" /\ IpReady(s)
    /\ mip = "START" => s.tciicr \/ (s.curr = Plain("CIICR") /\ HasOk(q))
    /\ mip = "STATUS" => IpReady(s) \/ Finds(s, q, w, rd)

NetInv == AnswersFit(out, wire, l.curr) /\ NetAt(l, out, wire, reading)

(* A function of link.lua withdraws no command and no promise. *)
Grows(s, t) ==
    /\ t \in LinkRecord /\ t.curr = s.curr
    /\ \A k \in 1..Len(s.queue) :
           k \in 1..Len(t.queue) /\ t.queue[k] = s.queue[k]
    /\ s.tciicr => t.tciicr
    /\ IpReady(s) => IpReady(t)

LeadsBut(s, t) == Grows(s, t) /\ \A e : NetFits(s, e) => NetFits(t, e)

Leads(s, t) == LeadsBut(s, t) /\ (SetupFits(s) => SetupFits(t))

LEMMA LeadsType == \A s, t : LeadsBut(s, t) => t \in LinkRecord
BY DEF LeadsBut, Grows

LEMMA LeadsSame == \A s \in LinkRecord : Leads(s, s)
BY DEF Leads, LeadsBut, Grows

LEMMA LeadsButChain ==
    ASSUME NEW s, NEW t, NEW u, LeadsBut(s, t), LeadsBut(t, u)
    PROVE  LeadsBut(s, u)
<1>1. Grows(s, u)
  BY DEF LeadsBut, Grows
<1> QED
  BY <1>1 DEF LeadsBut

LEMMA LeadsChain ==
    ASSUME NEW s, NEW t, NEW u, Leads(s, t), Leads(t, u)
    PROVE  Leads(s, u)
BY LeadsButChain DEF Leads

(* The network and the queue are left alone; a connect waits only for a    *)
(* network that is not there or is to be shut.                             *)
SameNet(s, t) ==
    /\ t \in LinkRecord /\ t.curr = s.curr /\ t.queue = s.queue
    /\ t.ip = s.ip /\ t.shuting = s.shuting
    /\ s.shutpending => t.shutpending
    /\ s.tciicr => t.tciicr
    /\ \A i \in LinkIds : t.state[i] # "NIL" /\ t.pending[i] =>
           \/ s.state[i] # "NIL" /\ s.pending[i]
           \/ ~IpReady(s) \/ s.shuting

LEMMA SameLeadsBut ==
    ASSUME NEW s, NEW t, SameNet(s, t)
    PROVE  LeadsBut(s, t)
<1>1. Grows(s, t)
  BY DEF SameNet, Grows, IpReady
<1>2. ASSUME NEW e, NetFits(s, e) PROVE NetFits(t, e)
  <2>1. Paired(t)
    BY <1>2 DEF SameNet, NetFits, Paired
  <2>2. ToldWill(s, e) => ToldWill(t, e)
    BY DEF SameNet, ToldWill
  <2>3. ShutWill(s, e) => ShutWill(t, e)
    BY DEF SameNet, ShutWill
  <2>4. s.shuting => ShutWill(s, e)
    BY <1>2 DEF NetFits, ShutWill
  <2>5. ASSUME NEW i \in LinkIds, t.state[i] # "NIL", t.pending[i], IpReady(t)
        PROVE  ShutWill(t, e)
    <3>1. IpReady(s)
      BY <2>5 DEF SameNet, IpReady
    <3> QED
      BY <2>3, <2>4, <2>5, <3>1, <1>2 DEF SameNet, NetFits
  <2> QED
    BY <1>2, <2>1, <2>2, <2>3, <2>5 DEF SameNet, NetFits
<1> QED
  BY <1>1, <1>2 DEF LeadsBut

LEMMA SameLeads ==
    ASSUME NEW s, NEW t, SameNet(s, t), t.cgatt = s.cgatt,
           t.flymode = s.flymode, s.tsetup => t.tsetup,
           Sockets(t) => Sockets(s)
    PROVE  Leads(s, t)
<1>1. LeadsBut(s, t)
  BY SameLeadsBut
<1>2. SetupFits(s) => SetupFits(t)
  BY DEF SetupFits, SameNet
<1> QED
  BY <1>1, <1>2 DEF Leads

LEMMA ReqLeads ==
    ASSUME NEW s \in LinkRecord, NEW d \in Command, d # Plain("CIFSR")
    PROVE  Leads(s, Req(s, d)) /\ Has(Req(s, d).queue, d)
<1> PICK t : t = Req(s, d)
  OBVIOUS
<1>1. s.queue \in Seq(Command)
  BY DEF LinkRecord
<1>2. /\ t \in LinkRecord /\ t.queue = Append(s.queue, d)
      /\ t.state = s.state /\ t.pending = s.pending
      /\ t.shuting = s.shuting /\ t.shutpending = s.shutpending
      /\ t.curr = s.curr /\ t.ip = s.ip
  BY ReqType
<1>3. /\ t.tciicr = s.tciicr /\ t.cgatt = s.cgatt /\ t.flymode = s.flymode
      /\ t.tsetup = s.tsetup
  BY DEF Req, LinkRecord
<1>4. \A e : Has(t.queue, e) <=> Has(s.queue, e) \/ d = e
  BY <1>1, <1>2, AppendHas
<1>5. /\ Len(s.queue) \in Nat /\ Len(t.queue) = Len(s.queue) + 1
      /\ \A k \in 1..Len(s.queue) : t.queue[k] = s.queue[k]
      /\ t.queue[Len(s.queue) + 1] = d
  BY <1>1, <1>2, AppendProperties, LenProperties
<1>6. \A k \in 1..Len(s.queue) :
          k \in 1..Len(t.queue) /\ t.queue[k] = s.queue[k]
  BY <1>5
<1>7. \A k \in 1..Len(t.queue) :
          k \in 1..Len(s.queue) \/ t.queue[k] = d
  BY <1>5
<1>8. Paired(s) => Paired(t)
  BY <1>2, <1>6, <1>7 DEF Paired
<1>9. Grows(s, t)
  BY <1>2, <1>3, <1>6 DEF Grows, IpReady
<1>10. ASSUME NEW e, NetFits(s, e) PROVE NetFits(t, e)
  BY <1>2, <1>3, <1>4, <1>8, <1>10 DEF NetFits, ToldWill, ShutWill, IpReady
<1>11. SetupFits(s) => SetupFits(t)
  BY <1>2, <1>3 DEF SetupFits, Sockets
<1> QED
  BY <1>4, <1>9, <1>10, <1>11 DEF Leads, LeadsBut

LEMMA PlainLeads ==
    ASSUME NEW s \in LinkRecord, NEW v \in Verbs \ {"CIFSR"}
    PROVE  Leads(s, Req(s, Plain(v))) /\ Has(Req(s, Plain(v)).queue, Plain(v))
<1>1. Plain(v) # Plain("CIFSR")
  BY DEF Plain
<1> QED
  BY <1>1, PlainType, ReqLeads

LEMMA OtherLeads ==
    ASSUME NEW s \in LinkRecord, NEW i \in LinkIds,
           NEW v \in {"CIPSTART", "CIPSEND", "CIPCLOSE"}
    PROVE  Leads(s, Req(s, Cmd(v, i)))
<1>1. Cmd(v, i) # Plain("CIFSR")
  BY CmdEqual
<1>2. Cmd(v, i) \in Command
  BY CmdType DEF Verbs, SocketVerbs
<1> QED
  BY <1>1, <1>2, ReqLeads

LEMMA TimerLeads ==
    ASSUME NEW s \in LinkRecord, NEW b \in BOOLEAN
    PROVE  /\ Leads(s, [s EXCEPT !.tstatus = b])
           /\ Leads(s, [s EXCEPT !.tciicr = TRUE])
           /\ LeadsBut(s, [s EXCEPT !.tsetup = b])
           /\ LeadsBut(s, [s EXCEPT !.cgatt = b])
           /\ LeadsBut(s, [s EXCEPT !.flymode = b])
<1>1. Leads(s, [s EXCEPT !.tstatus = b])
  <2> PICK t : t = [s EXCEPT !.tstatus = b]
    OBVIOUS
  <2>1. SameNet(s, t)
    BY DEF SameNet, LinkRecord
  <2>2. /\ t.cgatt = s.cgatt /\ t.flymode = s.flymode /\ t.tsetup = s.tsetup
        /\ t.state = s.state
    BY DEF LinkRecord
  <2> QED
    BY <2>1, <2>2, SameLeads DEF Sockets
<1>2. Leads(s, [s EXCEPT !.tciicr = TRUE])
  <2> PICK t : t = [s EXCEPT !.tciicr = TRUE]
    OBVIOUS
  <2>1. SameNet(s, t)
    BY DEF SameNet, LinkRecord
  <2>2. /\ t.cgatt = s.cgatt /\ t.flymode = s.flymode /\ t.tsetup = s.tsetup
        /\ t.state = s.state
    BY DEF LinkRecord
  <2> QED
    BY <2>1, <2>2, SameLeads DEF Sockets
<1>3. /\ SameNet(s, [s EXCEPT !.tsetup = b])
      /\ SameNet(s, [s EXCEPT !.cgatt = b])
      /\ SameNet(s, [s EXCEPT !.flymode = b])
  BY DEF SameNet, LinkRecord
<1> QED
  BY <1>1, <1>2, <1>3, SameLeadsBut

LEMMA ShutLeads ==
    ASSUME NEW s \in LinkRecord
    PROVE  /\ Leads(s, Shut(s)) /\ \A e : ShutWill(Shut(s), e)
           /\ Shut(s).ip = s.ip
<1>1. CASE s.holders # {}
  <2> PICK t : t = [s EXCEPT !.shutpending = TRUE]
    OBVIOUS
  <2>1. SameNet(s, t) /\ t.shutpending /\ t.ip = s.ip
    BY DEF SameNet, LinkRecord
  <2>2. /\ t.cgatt = s.cgatt /\ t.flymode = s.flymode /\ t.tsetup = s.tsetup
        /\ t.state = s.state
    BY DEF LinkRecord
  <2>3. Leads(s, t)
    BY <2>1, <2>2, SameLeads DEF Sockets
  <2> QED
    BY <2>1, <2>3, <1>1 DEF Shut, ShutWill
<1>2. CASE s.holders = {}
  <2> PICK r : r = Req(s, Plain("CIPSHUT"))
    OBVIOUS
  <2> PICK t : t = [r EXCEPT !.shuting = TRUE, !.shutpending = FALSE]
    OBVIOUS
  <2>1. Leads(s, r) /\ Has(r.queue, Plain("CIPSHUT"))
    BY PlainLeads DEF Verbs
  <2>2. r \in LinkRecord
    BY <2>1 DEF Leads, LeadsBut, Grows
  <2>3. /\ t \in LinkRecord /\ t.curr = r.curr /\ t.queue = r.queue
        /\ t.ip = r.ip /\ t.state = r.state /\ t.pending = r.pending
        /\ t.tciicr = r.tciicr /\ t.cgatt = r.cgatt
        /\ t.flymode = r.flymode /\ t.tsetup = r.tsetup
    BY <2>2 DEF LinkRecord
  <2>4. Grows(r, t)
    BY <2>3 DEF Grows, IpReady
  <2>5. ASSUME NEW e, NetFits(r, e) PROVE NetFits(t, e)
    BY <2>1, <2>3, <2>5
       DEF NetFits, Paired, ToldWill, ShutWill, IpReady
  <2>6. SetupFits(r) => SetupFits(t)
    BY <2>3 DEF SetupFits, Sockets
  <2>7. Leads(s, t)
    BY <2>1, <2>4, <2>5, <2>6, LeadsChain DEF Leads, LeadsBut
  <2>8. r.ip = s.ip
    BY PlainType, ReqType DEF Verbs
  <2> QED
    BY <2>1, <2>3, <2>7, <2>8, <1>2 DEF Shut, ShutWill
<1> QED
  BY <1>1, <1>2

LEMMA LostLeads ==
    ASSUME NEW s \in LinkRecord
    PROVE  /\ Leads(s, [Shut(s) EXCEPT !.tstatus = FALSE])
           /\ \A e : ShutWill([Shut(s) EXCEPT !.tstatus = FALSE], e)
           /\ [Shut(s) EXCEPT !.tstatus = FALSE].ip = s.ip
<1> PICK t : t = Shut(s)
  OBVIOUS
<1> PICK u : u = [t EXCEPT !.tstatus = FALSE]
  OBVIOUS
<1>1. Leads(s, t) /\ (\A e : ShutWill(t, e)) /\ t.ip = s.ip
  BY ShutLeads
<1>2. t \in LinkRecord
  BY <1>1, LeadsType DEF Leads
<1>3. Leads(t, u)
  BY <1>2, TimerLeads
<1>4. u.queue = t.queue /\ u.shutpending = t.shutpending /\ u.ip = t.ip
  BY <1>2 DEF LinkRecord
<1>5. \A e : ShutWill(u, e)
  BY <1>1, <1>4 DEF ShutWill
<1> QED
  BY <1>1, <1>3, <1>4, <1>5, LeadsChain

(* The network is set up, or was, or needs not be. *)
LEMMA SetupIPLeads ==
    ASSUME NEW s, NEW t, LeadsBut(s, t)
    PROVE  Leads(s, SetupIP(t))
<1>0. t \in LinkRecord
  BY LeadsType
<1>1. CASE t.ip = "INITIAL" /\ ~t.flymode /\ t.cgatt
  <2> PICK q : q = Req(t, Plain("CIICR"))
    OBVIOUS
  <2> PICK r : r = Req(q, Plain("CIPSTATUS"))
    OBVIOUS
  <2> PICK u : u = [r EXCEPT !.ip = "START"]
    OBVIOUS
  <2>1. Leads(t, q)
    BY <1>0, PlainLeads DEF Verbs
  <2>2. q \in LinkRecord /\ q.ip = t.ip
    BY <1>0, PlainType, ReqType DEF Verbs
  <2>3. Leads(q, r) /\ Has(r.queue, Plain("CIPSTATUS"))
    BY <2>2, PlainLeads DEF Verbs
  <2>4. r \in LinkRecord /\ r.ip = q.ip
    BY <2>2, PlainType, ReqType DEF Verbs
  <2>5. /\ u \in LinkRecord /\ u.curr = r.curr /\ u.queue = r.queue
        /\ u.ip = "START" /\ u.tciicr = r.tciicr
        /\ u.shuting = r.shuting
    BY <2>4 DEF LinkRecord, IpStates
  <2>6. ~IpReady(r) /\ ~IpReady(u)
    BY <1>1, <2>2, <2>4, <2>5 DEF IpReady
  <2>7. Grows(r, u)
    BY <2>5, <2>6 DEF Grows
  <2>8. ASSUME NEW e, NetFits(r, e) PROVE NetFits(u, e)
    BY <2>3, <2>5, <2>6, <2>8 DEF NetFits, Paired, ToldWill
  <2>9. LeadsBut(r, u)
    BY <2>7, <2>8 DEF LeadsBut
  <2>10. LeadsBut(s, u)
    BY <2>1, <2>3, <2>9, LeadsButChain DEF Leads
  <2>11. SetupFits(u)
    BY <2>5 DEF SetupFits
  <2> QED
    BY <1>1, <2>10, <2>11 DEF SetupIP, Leads
<1>2. CASE ~(t.ip = "INITIAL" /\ ~t.flymode /\ t.cgatt)
  <2>1. SetupFits(t)
    BY <1>2 DEF SetupFits
  <2> QED
    BY <1>2, <2>1 DEF SetupIP, Leads
<1> QED
  BY <1>1, <1>2

(* A socket goes to another state, or what it waits for is dropped. *)
LEMMA StateLeads ==
    ASSUME NEW s \in LinkRecord, NEW i \in LinkIds, NEW v \in LinkStates
    PROVE  /\ s.state[i] # "NIL" => Leads(s, [s EXCEPT !.state[i] = v])
           /\ s.state[i] # "NIL" =>
                  Leads(s, [s EXCEPT !.state[i] = v, !.pending[i] = FALSE])
           /\ LeadsBut(s, [s EXCEPT !.state[i] = v, !.pending[i] = FALSE])
<1>1. /\ s.state \in [LinkIds -> LinkStates]
      /\ s.pending \in [LinkIds -> BOOLEAN]
  BY DEF LinkRecord
<1>2. ASSUME s.state[i] # "NIL" PROVE Leads(s, [s EXCEPT !.state[i] = v])
  <2> PICK t : t = [s EXCEPT !.state[i] = v]
    OBVIOUS
  <2>1. /\ t \in LinkRecord /\ t.curr = s.curr /\ t.queue = s.queue
        /\ t.ip = s.ip /\ t.shuting = s.shuting
        /\ t.shutpending = s.shutpending /\ t.tciicr = s.tciicr
        /\ t.pending = s.pending /\ t.cgatt = s.cgatt
        /\ t.flymode = s.flymode /\ t.tsetup = s.tsetup
        /\ t.state = [s.state EXCEPT ![i] = v]
    BY DEF LinkRecord
  <2>2. \A j \in LinkIds : t.state[j] # "NIL" => s.state[j] # "NIL"
    BY <1>1, <1>2, <2>1
  <2>3. SameNet(s, t)
    BY <2>1, <2>2 DEF SameNet
  <2>4. Sockets(t) => Sockets(s)
    BY <2>2 DEF Sockets
  <2>5. Leads(s, t)
    BY ONLY <2>1, <2>3, <2>4, SameLeads
  <2> QED
    BY <2>5
<1>3. /\ s.state[i] # "NIL" =>
             Leads(s, [s EXCEPT !.state[i] = v, !.pending[i] = FALSE])
      /\ LeadsBut(s, [s EXCEPT !.state[i] = v, !.pending[i] = FALSE])
  <2> PICK t : t = [s EXCEPT !.state[i] = v, !.pending[i] = FALSE]
    OBVIOUS
  <2>1. /\ t \in LinkRecord /\ t.curr = s.curr /\ t.queue = s.queue
        /\ t.ip = s.ip /\ t.shuting = s.shuting
        /\ t.shutpending = s.shutpending /\ t.tciicr = s.tciicr
        /\ t.cgatt = s.cgatt
        /\ t.flymode = s.flymode /\ t.tsetup = s.tsetup
        /\ t.state = [s.state EXCEPT ![i] = v]
        /\ t.pending = [s.pending EXCEPT ![i] = FALSE]
    BY DEF LinkRecord
  <2>2. \A j \in LinkIds : /\ j # i => t.state[j] = s.state[j]
                           /\ t.pending[j] => j # i /\ s.pending[j]
    BY <1>1, <2>1
  <2>3. SameNet(s, t)
    BY <2>1, <2>2 DEF SameNet
  <2>4. s.state[i] # "NIL" => (Sockets(t) => Sockets(s))
    BY DEF Sockets
  <2> QED
    BY <2>1, <2>3, <2>4, SameLeads, SameLeadsBut
<1> QED
  BY <1>2, <1>3

LEMMA GuardLeads ==
    ASSUME NEW s \in LinkRecord, NEW i \in LinkIds, NEW b \in BOOLEAN
    PROVE  Leads(s, [s EXCEPT !.guard[i] = b])
<1> PICK t : t = [s EXCEPT !.guard[i] = b]
  OBVIOUS
<1>1. SameNet(s, t)
  BY DEF SameNet, LinkRecord
<1>2. /\ t.cgatt = s.cgatt /\ t.flymode = s.flymode /\ t.tsetup = s.tsetup
      /\ t.state = s.state
  BY DEF LinkRecord
<1> QED
  BY <1>1, <1>2, SameLeads DEF Sockets

LEMMA LocalLeads ==
    ASSUME NEW s \in LinkRecord, NEW q \in Seq(LocalEvents)
    PROVE  Leads(s, [s EXCEPT !.local = q])
<1> PICK t : t = [s EXCEPT !.local = q]
  OBVIOUS
<1>1. SameNet(s, t)
  BY DEF SameNet, LinkRecord
<1>2. /\ t.cgatt = s.cgatt /\ t.flymode = s.flymode /\ t.tsetup = s.tsetup
      /\ t.state = s.state
  BY DEF LinkRecord
<1> QED
  BY <1>1, <1>2, SameLeads DEF Sockets

LEMMA HoldersLeads ==
    ASSUME NEW s \in LinkRecord, NEW h \in SUBSET Holders
    PROVE  Leads(s, [s EXCEPT !.holders = h])
<1> PICK t : t = [s EXCEPT !.holders = h]
  OBVIOUS
<1>1. SameNet(s, t)
  BY DEF SameNet, LinkRecord
<1>2. /\ t.cgatt = s.cgatt /\ t.flymode = s.flymode /\ t.tsetup = s.tsetup
      /\ t.state = s.state
  BY DEF LinkRecord
<1> QED
  BY <1>1, <1>2, SameLeads DEF Sockets

LEMMA OpenLeads ==
    ASSUME NEW s \in LinkRecord, NEW i \in LinkIds
    PROVE  Leads(s, Open(s, i))
<1> PICK t : t = [s EXCEPT !.state[i] = "INITIAL", !.pending[i] = FALSE]
  OBVIOUS
<1>1. LeadsBut(s, t)
  BY StateLeads DEF LinkStates
<1>2. Leads(s, SetupIP(t))
  BY <1>1, SetupIPLeads
<1>3. ASSUME IpReady(s) PROVE Leads(s, t)
  <2>1. IpReady(t)
    BY <1>1, <1>3 DEF LeadsBut, Grows
  <2>2. SetupFits(t)
    BY <2>1 DEF SetupFits, IpReady
  <2> QED
    BY <1>1, <2>2 DEF Leads
<1> QED
  BY <1>2, <1>3 DEF Open

LEMMA ConnectLeads ==
    ASSUME NEW s \in LinkRecord, NEW i \in LinkIds, NEW call \in BOOLEAN,
           CanConnect(s, i)
    PROVE  Leads(s, Connect(s, i, call))
<1> PICK t : t = [s EXCEPT !.state[i] = "CONNECTING"]
  OBVIOUS
<1>0. s.state[i] # "NIL"
  BY DEF CanConnect
<1>1. Leads(s, t)
  BY <1>0, StateLeads DEF LinkStates
<1>2. t \in LinkRecord
  BY <1>1, LeadsType DEF Leads
<1>3. Leads(s, [t EXCEPT !.local = Append(@, <<"CONNECT_FAIL", i>>)])
  <2> PICK q : q = Append(t.local, <<"CONNECT_FAIL", i>>)
    OBVIOUS
  <2>1. q \in Seq(LocalEvents)
    BY <1>2 DEF LocalEvents, LinkRecord
  <2>2. Leads(t, [t EXCEPT !.local = q])
    BY <1>2, <2>1, LocalLeads
  <2> QED
    BY <1>1, <2>2, LeadsChain
<1>4. ASSUME ~IpReady(s) \/ s.shuting
      PROVE  Leads(s, [t EXCEPT !.pending[i] = TRUE])
  <2> PICK u : u = [t EXCEPT !.pending[i] = TRUE]
    OBVIOUS
  <2>1. t.ip = s.ip /\ t.shuting = s.shuting
    BY DEF LinkRecord
  <2>1a. /\ u \in LinkRecord /\ u.curr = t.curr /\ u.queue = t.queue
         /\ u.ip = t.ip /\ u.shuting = t.shuting
         /\ u.shutpending = t.shutpending /\ u.tciicr = t.tciicr
         /\ u.state = t.state
    BY <1>2 DEF LinkRecord
  <2>1b. ~IpReady(t) \/ t.shuting
    BY <1>4, <2>1 DEF IpReady
  <2>2. SameNet(t, u)
    BY <2>1a, <2>1b DEF SameNet
  <2>3. u.cgatt = t.cgatt /\ u.flymode = t.flymode /\ u.tsetup = t.tsetup
    BY <1>2 DEF LinkRecord
  <2>3a. Sockets(u) => Sockets(t)
    BY <2>1a DEF Sockets
  <2>4. Leads(t, u)
    BY ONLY <2>2, <2>3, <2>3a, SameLeads
  <2> QED
    BY <1>1, <2>4, LeadsChain
<1>5. Leads(s, [Req(t, Cmd("CIPSTART", i)) EXCEPT !.guard[i] = TRUE])
  <2> PICK r : r = Req(t, Cmd("CIPSTART", i))
    OBVIOUS
  <2>1. Leads(t, r)
    BY <1>2, OtherLeads
  <2>2. r \in LinkRecord
    BY <2>1, LeadsType DEF Leads
  <2>3. Leads(r, [r EXCEPT !.guard[i] = TRUE])
    BY <2>2, GuardLeads
  <2> QED
    BY <1>1, <2>1, <2>3, LeadsChain
<1> QED
  BY <1>3, <1>4, <1>5 DEF Connect

LEMMA DisconnectLeads ==
    ASSUME NEW s \in LinkRecord, NEW i \in LinkIds, CanDisconnect(s, i)
    PROVE  Leads(s, Disconnect(s, i))
<1> PICK t : t = [s EXCEPT !.state[i] = "DISCONNECTING", !.pending[i] = FALSE]
  OBVIOUS
<1>0. s.state[i] # "NIL"
  BY DEF CanDisconnect
<1>1. Leads(s, t)
  BY <1>0, StateLeads DEF LinkStates
<1>2. t \in LinkRecord
  BY <1>1, LeadsType DEF Leads
<1>3. Leads(s, [t EXCEPT !.local = Append(@, <<"DISCONNECT", i>>)])
  <2> PICK q : q = Append(t.local, <<"DISCONNECT", i>>)
    OBVIOUS
  <2>1. q \in Seq(LocalEvents)
    BY <1>2 DEF LocalEvents, LinkRecord
  <2>2. Leads(t, [t EXCEPT !.local = q])
    BY <1>2, <2>1, LocalLeads
  <2> QED
    BY <1>1, <2>2, LeadsChain
<1>4. Leads(s, Req(t, Cmd("CIPCLOSE", i)))
  BY <1>1, <1>2, OtherLeads, LeadsChain
<1> QED
  BY <1>3, <1>4 DEF Disconnect

LEMMA CloseLeads ==
    ASSUME NEW s \in LinkRecord, NEW i \in LinkIds, CanClose(s, i)
    PROVE  Leads(s, Close(s, i))
<1> PICK t : t = [s EXCEPT !.state[i] = "CLOSING"]
  OBVIOUS
<1>1. Leads(s, t)
  BY StateLeads DEF CanClose, LinkStates
<1>2. t \in LinkRecord
  BY <1>1, LeadsType DEF Leads
<1> QED
  BY <1>1, <1>2, OtherLeads, LeadsChain DEF Close

LEMMA CallLeads ==
    ASSUME NEW s \in LinkRecord, NEW i \in LinkIds, NEW a
    PROVE  Leads(s, Call(s, i, a))
<1>1. \/ Call(s, i, a) = Open(s, i)
      \/ CanConnect(s, i) /\ Call(s, i, a) = Connect(s, i, FALSE)
      \/ CanConnect(s, i) /\ Call(s, i, a) = Connect(s, i, TRUE)
      \/ CanDisconnect(s, i) /\ Call(s, i, a) = Disconnect(s, i)
      \/ CanClose(s, i) /\ Call(s, i, a) = Close(s, i)
      \/ Call(s, i, a) = Req(s, Cmd("CIPSEND", i))
      \/ Call(s, i, a) = Shut(s)
      \/ Call(s, i, a) = s
  BY DEF Call
<1>2. Leads(s, Req(s, Cmd("CIPSEND", i)))
  BY OtherLeads
<1> QED
  BY <1>1, <1>2, LeadsSame, OpenLeads, ConnectLeads, DisconnectLeads,
     CloseLeads, ShutLeads

LEMMA ToldLeads ==
    ASSUME NEW s \in LinkRecord, NEW i \in LinkIds, NEW r
    PROVE  Leads(s, Notify(s, i, r)) /\ Leads(s, StopGuard(Notify(s, i, r), i))
<1> PICK t : t = Notify(s, i, r)
  OBVIOUS
<1>1. Leads(s, t)
  BY CallLeads DEF Notify
<1>2. t \in LinkRecord
  BY <1>1, LeadsType DEF Leads
<1>3. Leads(t, StopGuard(t, i))
  BY <1>2, GuardLeads DEF StopGuard
<1> QED
  BY <1>1, <1>3, LeadsChain

(* The owner is told that its socket, which it has, is in another state. *)
LEMMA TurnedLeads ==
    ASSUME NEW s \in LinkRecord, NEW i \in LinkIds, NEW v \in LinkStates, NEW r,
           s.state[i] # "NIL"
    PROVE  /\ Leads(s, StopGuard(Notify([s EXCEPT !.state[i] = v], i, r), i))
           /\ Leads(s, StopGuard(Notify([s EXCEPT !.state[i] = v,
                                                  !.pending[i] = FALSE], i, r), i))
<1> PICK t : t = [s EXCEPT !.state[i] = v]
  OBVIOUS
<1> PICK u : u = [s EXCEPT !.state[i] = v, !.pending[i] = FALSE]
  OBVIOUS
<1>1. Leads(s, t) /\ Leads(s, u)
  BY StateLeads
<1>2. t \in LinkRecord /\ u \in LinkRecord
  BY <1>1, LeadsType DEF Leads
<1>3. /\ Leads(t, StopGuard(Notify(t, i, r), i))
      /\ Leads(u, StopGuard(Notify(u, i, r), i))
  BY <1>2, ToldLeads
<1> QED
  BY <1>1, <1>3, LeadsChain

LEMMA StatusLeads ==
    ASSUME NEW s \in LinkRecord, NEW i \in LinkIds, NEW v, NEW r
    PROVE  Leads(s, StatusInd(s, i, v, r))
<1>1. CASE s.state[i] = "NIL"
  BY <1>1, LeadsSame DEF StatusInd
<1>2. CASE s.state[i] # "NIL" /\ v = "SEND_FAIL"
  BY <1>2, LeadsSame, ToldLeads DEF StatusInd
<1>3. CASE s.state[i] # "NIL" /\ v # "SEND_FAIL"
  <2> PICK w : w = IF v = "CONNECT_OK" THEN "CONNECTED" ELSE "CLOSED"
    OBVIOUS
  <2>1. StatusInd(s, i, v, r) =
            StopGuard(Notify([s EXCEPT !.state[i] = w], i, r), i)
    BY <1>3 DEF StatusInd
  <2>2. w \in LinkStates
    BY DEF LinkStates
  <2> QED
    BY <1>3, <2>1, <2>2, TurnedLeads
<1> QED
  BY <1>1, <1>2, <1>3

LEMMA CloseCnfLeads ==
    ASSUME NEW s \in LinkRecord, NEW i \in LinkIds, NEW r
    PROVE  Leads(s, CloseCnf(s, i, r))
<1>1. CASE s.state[i] = "DISCONNECTING"
  BY <1>1, TurnedLeads DEF CloseCnf, LinkStates
<1>2. CASE s.state[i] = "CLOSING"
  BY <1>2, TurnedLeads DEF CloseCnf, LinkStates
<1>3. CASE s.state[i] \notin {"DISCONNECTING", "CLOSING"}
  BY <1>3, LeadsSame DEF CloseCnf
<1> QED
  BY <1>1, <1>2, <1>3

LEMMA ShutOneLeads ==
    ASSUME NEW s \in LinkRecord, NEW i \in LinkIds, NEW r
    PROVE  Leads(s, ShutOne(s, i, r))
<1>1. Leads(s, StopGuard(s, i))
  BY GuardLeads DEF StopGuard
<1>2. s.state[i] # "NIL" =>
          Leads(s, StopGuard(Notify([s EXCEPT !.state[i] = "CLOSED"], i, r), i))
  BY TurnedLeads DEF LinkStates
<1> QED
  BY <1>1, <1>2, LeadsSame DEF ShutOne

LEMMA ShutAllLeads ==
    ASSUME NEW s \in LinkRecord, NEW r
    PROVE  Leads(s, ShutAll(s, r))
<1> DEFINE R == {u \in LinkRecord : Leads(s, u)}
<1>1. s \in R
  BY LeadsSame
<1>2. ASSUME NEW u \in R, NEW i \in LinkIds PROVE ShutOne(u, i, r) \in R
  <2>1. Leads(u, ShutOne(u, i, r))
    BY ShutOneLeads
  <2>2. Leads(s, ShutOne(u, i, r))
    BY <2>1, LeadsChain
  <2> QED
    BY <2>2, LeadsType DEF Leads
<1>3. \A t : t \in R => Leads(s, t)
  OBVIOUS
<1> HIDE DEF R
<1>4. PICK g : /\ g[0] = s
               /\ \A n \in LinkIds : g[n + 1] = ShutOne(g[n], n, r)
               /\ ShutAll(s, r) = g[MaxLinks + 1]
  BY <1>1, <1>2, ShutSteps
<1>5. g[MaxLinks + 1] \in R
  BY <1>1, <1>2, <1>4, ChainEnds
<1> QED
  BY <1>3, <1>4, <1>5

(* connpend leaves no connect that waits. *)
Clears(s, t) ==
    /\ Leads(s, t) /\ t.ip = s.ip /\ t.state = s.state
    /\ t.shuting = s.shuting
    /\ \A j \in LinkIds : t.pending[j] => s.pending[j]

LEMMA ConnPendOneClears ==
    ASSUME NEW s \in LinkRecord, NEW i \in LinkIds
    PROVE  /\ Clears(s, ConnPendOne(s, i))
           /\ s.state[i] # "NIL" => ~ConnPendOne(s, i).pending[i]
<1>1. CASE s.state[i] # "NIL" /\ s.pending[i]
  <2> PICK q : q = Req(s, Cmd("CIPSTART", i))
    OBVIOUS
  <2> PICK u : u = [q EXCEPT !.guard[i] = TRUE, !.pending[i] = FALSE]
    OBVIOUS
  <2>1. Leads(s, q)
    BY OtherLeads
  <2>2. q \in LinkRecord
    BY <2>1, LeadsType DEF Leads
  <2>3. /\ q.ip = s.ip /\ q.state = s.state /\ q.pending = s.pending
        /\ q.shuting = s.shuting
    BY CmdType, ReqType DEF Verbs, SocketVerbs
  <2>4. /\ u \in LinkRecord /\ u.curr = q.curr /\ u.queue = q.queue
        /\ u.ip = q.ip /\ u.shuting = q.shuting
        /\ u.shutpending = q.shutpending /\ u.tciicr = q.tciicr
        /\ u.cgatt = q.cgatt /\ u.flymode = q.flymode
        /\ u.tsetup = q.tsetup /\ u.state = q.state
        /\ u.pending = [q.pending EXCEPT ![i] = FALSE]
    BY <2>2 DEF LinkRecord
  <2>5. q.pending \in [LinkIds -> BOOLEAN]
    BY <2>2 DEF LinkRecord
  <2>6. ~u.pending[i] /\ \A j \in LinkIds : u.pending[j] => q.pending[j]
    BY <2>4, <2>5
  <2>7. SameNet(q, u) /\ (Sockets(u) => Sockets(q))
    BY <2>4, <2>6 DEF SameNet, Sockets
  <2>8. Leads(q, u)
    BY ONLY <2>4, <2>7, SameLeads
  <2>9. Leads(s, u)
    BY ONLY <2>1, <2>8, LeadsChain
  <2>10. ConnPendOne(s, i) = u
    BY <1>1 DEF ConnPendOne
  <2> QED
    BY <2>3, <2>4, <2>6, <2>9, <2>10 DEF Clears
<1>2. CASE ~(s.state[i] # "NIL" /\ s.pending[i])
  <2>1. ConnPendOne(s, i) = s
    BY <1>2 DEF ConnPendOne
  <2>2. Clears(s, s)
    BY LeadsSame DEF Clears
  <2> QED
    BY <2>1, <2>2, <1>2
<1> QED
  BY <1>1, <1>2

LEMMA ConnPendClears ==
    ASSUME NEW s \in LinkRecord
    PROVE  /\ Clears(s, ConnPend(s))
           /\ \A i \in LinkIds : ConnPend(s).state[i] # "NIL" =>
                  ~ConnPend(s).pending[i]
<1>1. ASSUME NEW u \in LinkRecord, NEW i \in LinkIds
      PROVE  ConnPendOne(u, i) \in LinkRecord
  BY ConnPendOneClears, LeadsType DEF Clears, Leads
<1>2. PICK g : /\ g[0] = s
               /\ \A n \in LinkIds : g[n + 1] = ConnPendOne(g[n], n)
               /\ ConnPend(s) = g[MaxLinks + 1]
  BY <1>1, ConnPendSteps
<1>3. ASSUME NEW t, NEW u, Clears(s, t), Clears(t, u) PROVE Clears(s, u)
  BY <1>3, LeadsChain DEF Clears
<1> DEFINE T == {n \in 0..(MaxLinks + 1) :
                     /\ g[n] \in LinkRecord /\ Clears(s, g[n])
                     /\ \A i \in LinkIds :
                            i < n /\ s.state[i] # "NIL" => ~g[n].pending[i]}
<1>4. 0 \in T
  <2>1. Clears(s, s)
    BY LeadsSame DEF Clears
  <2>2. 0 \in 0..(MaxLinks + 1) /\ \A i \in LinkIds : ~(i < 0)
    BY LinkAssumption DEF LinkIds
  <2> QED
    BY <2>1, <2>2, <1>2
<1>5. ASSUME NEW n \in LinkIds, n \in T PROVE n + 1 \in T
  <2>1. n + 1 \in 0..(MaxLinks + 1) /\ n \in Nat
    BY LinkAssumption DEF LinkIds
  <2>2. /\ g[n] \in LinkRecord /\ Clears(s, g[n])
        /\ \A i \in LinkIds : i < n /\ s.state[i] # "NIL" => ~g[n].pending[i]
    BY <1>5
  <2>3. /\ Clears(g[n], g[n + 1])
        /\ g[n].state[n] # "NIL" => ~g[n + 1].pending[n]
    BY <2>2, <1>2, ConnPendOneClears
  <2>4. g[n + 1] \in LinkRecord /\ Clears(s, g[n + 1])
    BY <2>2, <2>3, <1>1, <1>2, <1>3
  <2>5. g[n].state = s.state /\ \A j \in LinkIds :
                                    g[n + 1].pending[j] => g[n].pending[j]
    BY <2>2, <2>3 DEF Clears
  <2>6. ASSUME NEW i \in LinkIds, i < n + 1, s.state[i] # "NIL"
        PROVE  ~g[n + 1].pending[i]
    <3>1. i < n \/ i = n
      BY <2>1, <2>6, LinkAssumption DEF LinkIds
    <3> QED
      BY <3>1, <2>2, <2>3, <2>5, <2>6
  <2> QED
    BY <2>1, <2>4, <2>6
<1>6. \A n \in 0..(MaxLinks + 1) : n \in T
  <2> HIDE DEF T
  <2> QED
    BY <1>4, <1>5, UpToLinks
<1>7. MaxLinks + 1 \in T /\ \A i \in LinkIds : i < MaxLinks + 1
  BY <1>6, LinkAssumption DEF LinkIds
<1>8. Clears(s, ConnPend(s)) /\ \A i \in LinkIds :
          s.state[i] # "NIL" => ~ConnPend(s).pending[i]
  BY <1>2, <1>7
<1> QED
  BY <1>8 DEF Clears

(* The state of the network is taken over. *)
LEMMA SetIPStatusGrows ==
    ASSUME NEW s \in LinkRecord, NEW v \in IpStates
    PROVE  LET t == SetIPStatus(s, v)
           IN  /\ t \in LinkRecord /\ t.curr = s.curr /\ t.ip = v
               /\ s.tciicr /\ v # "GPRSACT" => t.tciicr
               /\ SetupFits(s) => SetupFits(t)
               /\ v = "INITIAL" =>
                      t.queue = s.queue /\ t.shuting = s.shuting
<1> PICK n : n = [s EXCEPT !.ip = v, !.tciicr = @ /\ v # "GPRSACT"]
  OBVIOUS
<1>1. /\ n \in LinkRecord /\ n.curr = s.curr /\ n.ip = v
      /\ s.tciicr /\ v # "GPRSACT" => n.tciicr
      /\ n.queue = s.queue /\ n.shuting = s.shuting
  BY DEF LinkRecord
<1>2. ASSUME NEW t, t.ip = v, v # "INITIAL" PROVE SetupFits(t)
  BY <1>2 DEF SetupFits
<1>3. ASSUME NEW t, Leads(n, t), t.ip = n.ip, v # "INITIAL"
      PROVE  /\ t \in LinkRecord /\ t.curr = s.curr /\ t.ip = v
             /\ s.tciicr /\ v # "GPRSACT" => t.tciicr
             /\ SetupFits(t)
  BY <1>1, <1>2, <1>3 DEF Leads, LeadsBut, Grows
<1>4. CASE s.ip = v /\ v \in {"INITIAL", "STATUS", "PROCESSING"}
  <2>1. SetIPStatus(s, v) = s
    BY <1>4 DEF SetIPStatus
  <2> QED
    BY <2>1, <1>4
<1>5. CASE s.ip # v /\ v = "INITIAL"
  <2>t. PICK t : t = [n EXCEPT !.tsetup = TRUE]
    OBVIOUS
  <2>0. n \in LinkRecord
    BY <1>1
  <2>1. /\ t \in LinkRecord /\ t.curr = n.curr /\ t.ip = n.ip
        /\ t.tciicr = n.tciicr /\ t.tsetup
        /\ t.queue = n.queue /\ t.shuting = n.shuting
    BY ONLY <2>0, <2>t DEF LinkRecord
  <2>2. SetIPStatus(s, v) = t
    BY <1>5, <2>t DEF SetIPStatus
  <2>3. SetupFits(t)
    BY <2>1 DEF SetupFits
  <2> QED
    BY <2>1, <2>2, <2>3, <1>1
<1>6. CASE s.ip # v /\ v = "STATUS"
  <2>1. SetIPStatus(s, v) = ConnPend(n)
    BY <1>6 DEF SetIPStatus
  <2>2. Leads(n, ConnPend(n)) /\ ConnPend(n).ip = n.ip
    BY <1>1, ConnPendClears DEF Clears
  <2> QED
    BY <2>1, <2>2, <1>3, <1>6
<1>7. CASE s.ip # v /\ v = "PROCESSING"
  <2>1. SetIPStatus(s, v) = n
    BY <1>7 DEF SetIPStatus
  <2> QED
    BY <2>1, <1>1, <1>2, <1>7
<1>8. CASE v = "START"
  <2> PICK t : t = [n EXCEPT !.tstatus = TRUE]
    OBVIOUS
  <2>1. SetIPStatus(s, v) = t
    BY <1>8 DEF SetIPStatus
  <2>2. Leads(n, t) /\ t.ip = n.ip
    BY <1>1, TimerLeads DEF LinkRecord
  <2> QED
    BY <2>1, <2>2, <1>3, <1>8
<1>9. CASE v = "GPRSACT"
  <2>p. PICK p : p = Req(n, Plain("CIFSR"))
    OBVIOUS
  <2>t. PICK t : t = Req(p, Plain("CIPSTATUS"))
    OBVIOUS
  <2>1. SetIPStatus(s, v) = t
    BY <1>9, <2>p, <2>t DEF SetIPStatus
  <2>0. Plain("CIFSR") \in Command /\ Plain("CIPSTATUS") \in Command
    BY PlainType DEF Verbs
  <2>2. p \in LinkRecord /\ p.curr = n.curr /\ p.ip = n.ip
    BY ONLY <1>1, <2>0, <2>p, ReqType
  <2>3. t \in LinkRecord /\ t.curr = p.curr /\ t.ip = p.ip
    BY ONLY <2>0, <2>2, <2>t, ReqType
  <2>4. SetupFits(t)
    BY <2>2, <2>3, <1>1, <1>2, <1>9
  <2>5. /\ t \in LinkRecord /\ t.curr = s.curr /\ t.ip = v
    BY <2>2, <2>3, <1>1
  <2> QED
    BY ONLY <2>1, <2>4, <2>5, <1>9
<1>10. CASE v = "DEACT"
  <2>t. PICK t : t = [Shut(n) EXCEPT !.tstatus = FALSE]
    OBVIOUS
  <2>1. SetIPStatus(s, v) = t
    BY <1>10, <2>t DEF SetIPStatus
  <2>2. Leads(n, t) /\ t.ip = n.ip
    BY <1>1, <2>t, LostLeads
  <2> QED
    BY ONLY <2>1, <2>2, <1>3, <1>10
<1> QED
  BY <1>4, <1>5, <1>6, <1>7, <1>8, <1>9, <1>10 DEF IpStates

(* An AT+CIFSR is requested, and then the state of the network. *)
LEMMA PairPaired ==
    ASSUME NEW s \in LinkRecord, Paired(s)
    PROVE  LET t == Req(Req(s, Plain("CIFSR")), Plain("CIPSTATUS"))
           IN  /\ Paired(t) /\ Has(t.queue, Plain("CIPSTATUS"))
               /\ \A e : Has(s.queue, e) => Has(t.queue, e)
               /\ t \in LinkRecord /\ t.ip = s.ip /\ t.shuting = s.shuting
<1>p. PICK p : p = Req(s, Plain("CIFSR"))
  OBVIOUS
<1>t. PICK t : t = Req(p, Plain("CIPSTATUS"))
  OBVIOUS
<1>n. PICK n : n = Len(s.queue)
  OBVIOUS
<1>0. Plain("CIFSR") \in Command /\ Plain("CIPSTATUS") \in Command
  BY PlainType DEF Verbs
<1>1. /\ p \in LinkRecord /\ p.queue = Append(s.queue, Plain("CIFSR"))
      /\ p.curr = s.curr /\ p.ip = s.ip /\ p.shuting = s.shuting
  BY <1>0, <1>p, ReqType
<1>2. /\ t \in LinkRecord /\ t.queue = Append(p.queue, Plain("CIPSTATUS"))
      /\ t.curr = p.curr /\ t.ip = p.ip /\ t.shuting = p.shuting
  BY <1>0, <1>1, <1>t, ReqType
<1>3. s.queue \in Seq(Command) /\ p.queue \in Seq(Command)
  BY <1>1 DEF LinkRecord
<1>4. /\ n \in Nat /\ Len(p.queue) = n + 1
      /\ \A k \in 1..n : p.queue[k] = s.queue[k]
      /\ p.queue[n + 1] = Plain("CIFSR")
  BY ONLY <1>0, <1>1, <1>3, <1>n, AppendProperties, LenProperties
<1>5. /\ Len(t.queue) = (n + 1) + 1
      /\ \A k \in 1..(n + 1) : t.queue[k] = p.queue[k]
      /\ t.queue[(n + 1) + 1] = Plain("CIPSTATUS")
  BY ONLY <1>0, <1>2, <1>3, <1>4, AppendProperties
<1>6. /\ \A k \in 1..n : k \in 1..Len(t.queue) /\ t.queue[k] = s.queue[k]
      /\ n + 1 \in 1..Len(t.queue) /\ (n + 1) + 1 \in 1..Len(t.queue)
      /\ t.queue[n + 1] = Plain("CIFSR")
      /\ \A k \in 1..Len(t.queue) : k \in 1..n \/ k = n + 1 \/ k = (n + 1) + 1
  BY ONLY <1>4, <1>5
<1>7. Plain("CIPSTATUS") # Plain("CIFSR")
  BY DEF Plain
<1>8. Paired(t)
  <2>1. t.curr = s.curr
    BY <1>1, <1>2
  <2>2. t.curr = Plain("CIFSR") =>
            1 \in 1..Len(t.queue) /\ t.queue[1] = Plain("CIPSTATUS")
    BY <2>1, <1>6, <1>n DEF Paired
  <2>3. ASSUME NEW k \in 1..Len(t.queue), t.queue[k] = Plain("CIFSR")
        PROVE  k + 1 \in 1..Len(t.queue) /\ t.queue[k + 1] = Plain("CIPSTATUS")
    <3>1. CASE k \in 1..n
      BY <1>6, <1>n, <2>3, <3>1 DEF Paired
    <3>2. CASE k = n + 1
      BY <1>4, <1>5, <1>6, <3>2
    <3>3. CASE k = (n + 1) + 1
      BY <1>5, <1>7, <2>3, <3>3
    <3> QED
      BY <1>6, <3>1, <3>2, <3>3
  <2> QED
    BY <2>2, <2>3 DEF Paired
<1>9. Has(t.queue, Plain("CIPSTATUS"))
  BY <1>5, <1>6 DEF Has
<1>10. \A e : Has(s.queue, e) => Has(t.queue, e)
  BY <1>6, <1>n DEF Has
<1>11. t.ip = s.ip /\ t.shuting = s.shuting
  BY <1>1, <1>2
<1> QED
  BY <1>2, <1>8, <1>9, <1>10, <1>11, <1>p, <1>t

LEMMA LeadsPaired ==
    ASSUME NEW s, NEW t, Leads(s, t), Paired(s)
    PROVE  Paired(t)
<1> PICK e : e = {"shut", "told", "timed"}
  OBVIOUS
<1>1. NetFits(s, e) \/ ~(s.ip = "START" => (s.tciicr \/ ToldWill(s, e)))
  BY DEF NetFits, ToldWill, ShutWill
<1>2. ToldWill(s, e)
  BY DEF ToldWill
<1>3. NetFits(t, e)
  BY <1>1, <1>2 DEF Leads, LeadsBut
<1> QED
  BY <1>3 DEF NetFits

LEMMA LostAsks ==
    ASSUME NEW s \in LinkRecord
    PROVE  LET t == [Shut(s) EXCEPT !.tstatus = FALSE]
           IN  t.shuting => s.shuting \/ Has(t.queue, Plain("CIPSHUT"))
<1> PICK p : p = Req(s, Plain("CIPSHUT"))
  OBVIOUS
<1> PICK t : t = [Shut(s) EXCEPT !.tstatus = FALSE]
  OBVIOUS
<1>1. CASE s.holders # {}
  <2>1. t.shuting = s.shuting
    BY <1>1 DEF Shut, LinkRecord
  <2> QED
    BY <2>1
<1>2. CASE s.holders = {}
  <2>1. p \in LinkRecord /\ Has(p.queue, Plain("CIPSHUT"))
    BY PlainLeads, LeadsType DEF Leads, Verbs
  <2>2. t.queue = p.queue
    BY <1>2, <2>1 DEF Shut, LinkRecord
  <2> QED
    BY <2>1, <2>2
<1> QED
  BY <1>1, <1>2

(* ... and the connects that waited for the network are requested, or the  *)
(* network is still to be found out or to be shut.                         *)
LEMMA SetIPStatusFitsNet ==
    ASSUME NEW s \in LinkRecord, NEW v \in IpStates, NEW e, NEW d,
           NetFits(s, e), e \ {"told"} \subseteq d,
           v = "START" => s.tciicr /\ "timed" \in d,
           v = "PROCESSING" => IpReady(s)
    PROVE  NetFits(SetIPStatus(s, v), d)
<1> PICK n : n = [s EXCEPT !.ip = v, !.tciicr = @ /\ v # "GPRSACT"]
  OBVIOUS
<1>1. /\ n \in LinkRecord /\ n.curr = s.curr /\ n.ip = v
      /\ n.queue = s.queue /\ n.shuting = s.shuting
      /\ n.shutpending = s.shutpending
      /\ n.state = s.state /\ n.pending = s.pending
      /\ s.tciicr /\ v # "GPRSACT" => n.tciicr
  BY DEF LinkRecord
<1>2. /\ Paired(n)
      /\ n.shuting => "shut" \in d \/ Has(n.queue, Plain("CIPSHUT"))
  BY <1>1 DEF NetFits, Paired
<1>3. CASE s.ip = v /\ v \in {"INITIAL", "STATUS", "PROCESSING"}
  <2>1. SetIPStatus(s, v) = s
    BY <1>3 DEF SetIPStatus
  <2>2. ShutWill(s, e) => ShutWill(s, d)
    BY DEF ShutWill
  <2>3. NetFits(s, d)
    BY <2>2, <1>1, <1>2, <1>3 DEF NetFits
  <2> QED
    BY <2>1, <2>3
<1>4. CASE s.ip # v /\ v = "INITIAL"
  <2> PICK t : t = [n EXCEPT !.tsetup = TRUE]
    OBVIOUS
  <2>1. /\ t.curr = n.curr /\ t.ip = n.ip
        /\ t.queue = n.queue /\ t.shuting = n.shuting
    BY <1>1 DEF LinkRecord
  <2>2. SetIPStatus(s, v) = t
    BY <1>4 DEF SetIPStatus
  <2>3. NetFits(t, d)
    BY <2>1, <1>1, <1>2, <1>4 DEF NetFits, Paired, IpReady
  <2> QED
    BY <2>2, <2>3
<1>5. CASE s.ip # v /\ v = "STATUS"
  <2> PICK t : t = ConnPend(n)
    OBVIOUS
  <2>1. SetIPStatus(s, v) = t
    BY <1>5 DEF SetIPStatus
  <2>2. /\ Leads(n, t) /\ t.ip = v
        /\ \A i \in LinkIds : t.state[i] # "NIL" => ~t.pending[i]
    BY <1>1, ConnPendClears DEF Clears
  <2>3. t.shuting = n.shuting /\ Paired(t)
    BY <1>1, <1>2, <2>2, ConnPendClears, LeadsPaired DEF Clears
  <2>4. \A c : Has(n.queue, c) => Has(t.queue, c)
    BY <2>2 DEF Leads, LeadsBut, Grows, Has
  <2>5. NetFits(t, d)
    BY <1>2, <1>5, <2>2, <2>3, <2>4 DEF NetFits
  <2> QED
    BY <2>1, <2>5
<1>6. CASE s.ip # v /\ v = "PROCESSING"
  <2>1. SetIPStatus(s, v) = n
    BY <1>6 DEF SetIPStatus
  <2>2. ShutWill(s, e) => ShutWill(n, d)
    BY <1>1 DEF ShutWill
  <2>3. NetFits(n, d)
    BY <2>2, <1>1, <1>2, <1>6 DEF NetFits
  <2> QED
    BY <2>1, <2>3
<1>7. CASE v = "START"
  <2> PICK t : t = [n EXCEPT !.tstatus = TRUE]
    OBVIOUS
  <2>1. SetIPStatus(s, v) = t
    BY <1>7 DEF SetIPStatus
  <2>2. /\ t.curr = n.curr /\ t.ip = n.ip /\ t.tciicr = n.tciicr
        /\ t.queue = n.queue /\ t.shuting = n.shuting
    BY <1>1 DEF LinkRecord
  <2>3. Paired(t)
    BY <1>2, <2>2 DEF Paired
  <2>4. NetFits(t, d)
    BY <1>1, <1>2, <1>7, <2>2, <2>3 DEF NetFits, IpReady
  <2> QED
    BY <2>1, <2>4
<1>8. CASE v = "GPRSACT"
  <2> PICK t : t = Req(Req(n, Plain("CIFSR")), Plain("CIPSTATUS"))
    OBVIOUS
  <2>1. SetIPStatus(s, v) = t
    BY <1>8 DEF SetIPStatus
  <2>2. /\ Paired(t) /\ Has(t.queue, Plain("CIPSTATUS"))
        /\ \A c : Has(n.queue, c) => Has(t.queue, c)
        /\ t.ip = n.ip /\ t.shuting = n.shuting
    BY <1>1, <1>2, PairPaired
  <2>5. NetFits(t, d)
    BY <1>1, <1>2, <1>8, <2>2 DEF NetFits, IpReady, ToldWill
  <2> QED
    BY <2>1, <2>5
<1>9. CASE v = "DEACT"
  <2> PICK t : t = [Shut(n) EXCEPT !.tstatus = FALSE]
    OBVIOUS
  <2>1. SetIPStatus(s, v) = t
    BY <1>9 DEF SetIPStatus
  <2>2. Leads(n, t) /\ ShutWill(t, d) /\ t.ip = n.ip
    BY <1>1, LostLeads
  <2>3. t.shuting => n.shuting \/ Has(t.queue, Plain("CIPSHUT"))
    BY <1>1, LostAsks
  <2>4. \A c : Has(n.queue, c) => Has(t.queue, c)
    BY <2>2 DEF Leads, LeadsBut, Grows, Has
  <2>5. Paired(t)
    BY <1>2, <2>2, LeadsPaired
  <2>6. NetFits(t, d)
    BY <1>1, <1>2, <1>9, <2>2, <2>3, <2>4, <2>5 DEF NetFits, IpReady
  <2> QED
    BY <2>1, <2>6
<1> QED
  BY <1>3, <1>4, <1>5, <1>6, <1>7, <1>8, <1>9 DEF IpStates

LEMMA NetMono ==
    ASSUME NEW s, NEW e, NEW d, NetFits(s, e), e \subseteq d
    PROVE  NetFits(s, d)
<1>1. /\ ToldWill(s, e) => ToldWill(s, d)
      /\ ShutWill(s, e) => ShutWill(s, d)
  BY DEF ToldWill, ShutWill
<1> QED
  BY <1>1 DEF NetFits

(* The network is shut. *)
LEMMA ShutCnfNet ==
    ASSUME NEW s \in LinkRecord, Paired(s), SetupFits(s), NEW r, NEW d
    PROVE  LET u == ShutCnf(s, TRUE, r)
           IN  /\ u \in LinkRecord /\ u.curr = s.curr
               /\ NetFits(u, d) /\ SetupFits(u)
<1>t. PICK t : t = [s EXCEPT !.shuting = FALSE]
  OBVIOUS
<1>n. PICK n : n = SetIPStatus(t, "INITIAL")
  OBVIOUS
<1>m. PICK m : m = ShutAll(n, r)
  OBVIOUS
<1>u. PICK u : u = [m EXCEPT !.tciicr = FALSE]
  OBVIOUS
<1>1. /\ t \in LinkRecord /\ t.curr = s.curr /\ t.queue = s.queue
      /\ t.ip = s.ip /\ t.state = s.state /\ t.cgatt = s.cgatt
      /\ t.flymode = s.flymode /\ t.tsetup = s.tsetup /\ ~t.shuting
  BY ONLY <1>t, s \in LinkRecord DEF LinkRecord
<1>2. SetupFits(t)
  BY <1>1 DEF SetupFits, Sockets
<1>3. "INITIAL" \in IpStates
  BY DEF IpStates
<1>4. /\ n \in LinkRecord /\ n.curr = t.curr /\ n.ip = "INITIAL"
      /\ n.queue = t.queue /\ n.shuting = t.shuting /\ SetupFits(n)
  BY <1>1, <1>2, <1>3, <1>n, SetIPStatusGrows
<1>5. NetFits(n, {})
  BY <1>1, <1>4 DEF NetFits, Paired, IpReady
<1>6. Leads(n, m)
  BY <1>4, <1>m, ShutAllLeads
<1>7. /\ m \in LinkRecord /\ m.curr = n.curr
      /\ NetFits(m, {}) /\ SetupFits(m)
  BY <1>4, <1>5, <1>6 DEF Leads, LeadsBut, Grows
<1>8. m \in LinkRecord
  BY <1>7
<1>9. /\ u \in LinkRecord /\ u.curr = m.curr /\ u.queue = m.queue
      /\ u.ip = m.ip /\ u.shuting = m.shuting
      /\ u.shutpending = m.shutpending /\ u.state = m.state
      /\ u.pending = m.pending /\ u.cgatt = m.cgatt
      /\ u.flymode = m.flymode /\ u.tsetup = m.tsetup
  BY ONLY <1>8, <1>u DEF LinkRecord
<1>10. NetFits(u, {}) /\ SetupFits(u)
  BY <1>7, <1>9
     DEF NetFits, SetupFits, Sockets, Paired, ToldWill, ShutWill, IpReady
<1>11. NetFits(u, d)
  BY <1>10, NetMono
<1>12. ShutCnf(s, TRUE, r) = u
  BY <1>t, <1>n, <1>m, <1>u DEF ShutCnf
<1> QED
  BY <1>1, <1>4, <1>7, <1>9, <1>10, <1>11, <1>12

LEMMA RspLeads ==
    ASSUME NEW s \in LinkRecord, NEW x \in Command, x.verb # "CIPSHUT",
           NEW v, NEW r
    PROVE  /\ Leads(s, Rsp(s, x, v, r))
           /\ x.verb = "CIICR" /\ v = "OK" => Rsp(s, x, v, r).tciicr
           /\ x.verb \in {"CIPSTATUS", "CIFSR"} => Rsp(s, x, v, r) = s
<1>0. x.id \in LinkIds
  BY DEF Command, SocketVerbs
<1>1. CASE x.verb = "CIPSEND" /\ v = "PDP_DEACT"
  <2>q. PICK q : q = Req(s, Plain("CIPSTATUS"))
    OBVIOUS
  <2>1. Leads(s, q)
    BY <2>q, PlainLeads DEF Verbs
  <2>2. Leads(q, SendCnf(q, x.id, r))
    BY <2>1, <1>0, LeadsType, ToldLeads DEF Leads, SendCnf
  <2>3. Leads(s, SendCnf(q, x.id, r))
    BY <2>1, <2>2, LeadsChain
  <2> QED
    BY <2>3, <2>q, <1>1 DEF Rsp
<1>2. CASE x.verb = "CIPSEND" /\ v # "PDP_DEACT"
  <2>1. Leads(s, SendCnf(s, x.id, r))
    BY <1>0, ToldLeads DEF SendCnf
  <2> QED
    BY <2>1, <1>2 DEF Rsp
<1>3. CASE x.verb = "CIPCLOSE"
  <2>1. Leads(s, CloseCnf(s, x.id, r))
    BY <1>0, CloseCnfLeads
  <2> QED
    BY <2>1, <1>3 DEF Rsp
<1>4. CASE x.verb = "CIPSTART" /\ v = "ERROR"
  <2>1. Leads(s, StatusInd(s, x.id, v, r))
    BY <1>0, StatusLeads
  <2> QED
    BY <2>1, <1>4 DEF Rsp
<1>5. CASE x.verb = "CIICR" /\ v = "OK"
  <2>t. PICK t : t = [s EXCEPT !.tciicr = TRUE]
    OBVIOUS
  <2>1. Leads(s, t)
    BY <2>t, TimerLeads
  <2>2. t.tciicr
    BY ONLY <2>t, s \in LinkRecord DEF LinkRecord
  <2>3. Rsp(s, x, v, r) = t
    BY <2>t, <1>5 DEF Rsp
  <2> QED
    BY <2>1, <2>2, <2>3, <1>5
<1>6. CASE x.verb = "CIICR" /\ v # "OK"
  <2>1. Leads(s, [Shut(s) EXCEPT !.tstatus = FALSE])
    BY LostLeads
  <2> QED
    BY <2>1, <1>6 DEF Rsp
<1>7. CASE /\ x.verb \notin {"CIPSEND", "CIPCLOSE", "CIICR"}
           /\ ~(x.verb = "CIPSTART" /\ v = "ERROR")
  <2>1. Rsp(s, x, v, r) = s
    BY <1>7 DEF Rsp
  <2> QED
    BY <2>1, <1>7, LeadsSame
<1> QED
  BY <1>1, <1>2, <1>3, <1>4, <1>5, <1>6, <1>7

LEMMA UrcLeads ==
    ASSUME NEW s \in LinkRecord, NEW a \in Line, a.t # "STATE", NEW r
    PROVE  Leads(s, Urc(s, a, r))
<1>0. a.id \in LinkIds /\ a.t \in {"ANS", "LINK", "PDP"}
  BY LineFacts
<1>1. CASE a.v = "PDP_DEACT"
  <2>1. Leads(s, [Shut(s) EXCEPT !.tstatus = FALSE])
    BY LostLeads
  <2>2. a.t # "LINK"
    BY <1>1, LineFacts
  <2> QED
    BY <2>1, <2>2, <1>1 DEF Urc
<1>2. CASE a.t = "LINK"
  <2>1. Leads(s, StatusInd(s, a.id, a.v, r))
    BY <1>0, StatusLeads
  <2>2. a.v # "PDP_DEACT"
    BY <1>2, LineFacts
  <2> QED
    BY <2>1, <2>2, <1>2 DEF Urc
<1>3. CASE a.t = "ANS" /\ a.v # "PDP_DEACT"
  BY <1>3, LeadsSame DEF Urc
<1>4. a.t = "PDP" => a.v = "PDP_DEACT"
  BY LineFacts
<1> QED
  BY <1>0, <1>1, <1>2, <1>3, <1>4

(* The modem says whether it is attached. *)
LEMMA CgattLeads ==
    ASSUME NEW s, NEW t, LeadsBut(s, t), NEW a \in BOOLEAN
    PROVE  Leads(s, Cgatt(t, a))
<1>u. PICK u : u = [t EXCEPT !.cgatt = a]
  OBVIOUS
<1>0. t \in LinkRecord
  BY LeadsType
<1>1. LeadsBut(t, u)
  BY <1>0, <1>u, TimerLeads
<1>2. LeadsBut(s, u) /\ u \in LinkRecord
  BY <1>1, LeadsButChain, LeadsType
<1>3. u.cgatt = a /\ u.state = t.state /\ u.ip = t.ip
  BY ONLY <1>0, <1>u, a \in BOOLEAN DEF LinkRecord
<1>4. CASE ~a \/ Free(t) = LinkIds
  <2>1. SetupFits(u)
    BY <1>3, <1>4 DEF SetupFits, Sockets, Free
  <2> QED
    BY <2>1, <1>2, <1>4, <1>u DEF Cgatt, Leads
<1>5. CASE a /\ Free(t) # LinkIds /\ t.ip = "INITIAL"
  <2>1. Leads(s, SetupIP(u))
    BY <1>2, SetupIPLeads
  <2> QED
    BY <2>1, <1>5, <1>u DEF Cgatt
<1>6. CASE a /\ Free(t) # LinkIds /\ t.ip # "INITIAL"
  <2>1. SetupFits(u)
    BY <1>3, <1>6 DEF SetupFits
  <2>2. Leads(s, u)
    BY <2>1, <1>2 DEF Leads
  <2>3. Leads(u, Req(u, Plain("CIPSTATUS")))
    BY <1>2, PlainLeads DEF Verbs
  <2>4. Leads(s, Req(u, Plain("CIPSTATUS")))
    BY <2>2, <2>3, LeadsChain
  <2> QED
    BY <2>4, <1>6, <1>u DEF Cgatt
<1> QED
  BY <1>4, <1>5, <1>6

----------------------------------------------------------------------------
(* NetInv of the initial state, and of the handlers of link.lua *)

LEMMA StartNet ==
    /\ \A e : NetFits(Start, e) /\ SetupFits(Start)
    /\ Start.curr = NoCmd /\ Start.queue = <<>>
<1>1. /\ Start.queue = <<>> /\ Start.curr = NoCmd /\ ~Start.shuting
      /\ Start.ip = "INITIAL" /\ ~Start.cgatt
  BY DEF Start
<1>2. \A k : k \notin 1..Len(Start.queue)
  BY <1>1
<1>3. NoCmd # Plain("CIFSR")
  BY DEF NoCmd, Plain
<1>4. Paired(Start)
  BY <1>1, <1>2, <1>3 DEF Paired
<1>5. \A e : NetFits(Start, e)
  BY <1>1, <1>4 DEF NetFits, IpReady
<1>6. SetupFits(Start)
  BY <1>1 DEF SetupFits
<1> QED
  BY <1>1, <1>5, <1>6

LEMMA NetInit == Init => NetInv
<1> SUFFICES ASSUME Init PROVE NetInv
  OBVIOUS
<1>1. /\ out = <<>> /\ wire = <<>> /\ l = Start /\ mip = "INITIAL"
      /\ \A i \in LinkIds : conn[i] = "free"
  BY DEF Init
<1>2. \A k : k \notin 1..Len(out)
  BY <1>1
<1>3. NoCmd # Plain("CIPSTATUS")
  BY DEF NoCmd, Plain
<1> QED
  BY <1>1, <1>2, <1>3, StartNet DEF NetInv, NetAt, AnswersFit

LEMMA RestartNet == Restart => NetInv'
<1> SUFFICES ASSUME Restart PROVE NetInv'
  OBVIOUS
<1>1. /\ out' = <<>> /\ wire' = <<>> /\ l' = Start /\ mip' = "INITIAL"
      /\ \A i \in LinkIds : conn'[i] = "free"
  BY DEF Restart
<1>2. \A k : k \notin 1..Len(out')
  BY <1>1
<1>3. NoCmd # Plain("CIPSTATUS")
  BY DEF NoCmd, Plain
<1> QED
  BY <1>1, <1>2, <1>3, StartNet DEF NetInv, NetAt, AnswersFit

LEMMA NetKept ==
    ASSUME NetAt(l', out', wire', reading'), UNCHANGED <<mip, conn>>
    PROVE  NetAt(l, out, wire, reading)'
BY DEF NetAt, StateFits, StillSo

LEMMA LeadsNet ==
    ASSUME NEW s, NEW t, NEW q, NEW w, NEW rd, NetAt(s, q, w, rd), Leads(s, t)
    PROVE  NetAt(t, q, w, rd)
<1>1. /\ t.curr = s.curr
      /\ s.tciicr => t.tciicr
      /\ IpReady(s) => IpReady(t)
      /\ \A k \in 1..Len(s.queue) :
             k \in 1..Len(t.queue) /\ t.queue[k] = s.queue[k]
  BY DEF Leads, LeadsBut, Grows
<1>2. Hopes(t, q) = Hopes(s, q)
  BY <1>1 DEF Hopes
<1>3. NetFits(t, Hopes(t, q)) /\ SetupFits(t)
  BY <1>2 DEF NetAt, Leads, LeadsBut
<1>4. \A k \in 1..Len(q) : StateFits(s, q, w, rd, k) => StateFits(t, q, w, rd, k)
  BY <1>1 DEF StateFits, StillSo
<1>5. Finds(s, q, w, rd) => Finds(t, q, w, rd)
  BY <1>1 DEF Finds
<1> QED
  BY <1>1, <1>3, <1>4, <1>5 DEF NetAt

(* sendat: a command goes from the queue to the modem. *)
LEMMA HandleNet ==
    ASSUME NEW s \in LinkRecord, Handle(s), wire \in Seq(Command),
           NEW q, NEW rd \in BOOLEAN, rd => q = <<>>,
           AnswersFit(q, wire, s.curr), NetAt(s, q, wire, rd)
    PROVE  NetAt(l', q, wire', FALSE)
<1>0. rd => \A k : k \notin 1..Len(q)
  OBVIOUS
<1>1. CASE ~Sends(s)
  <2>1. l' = s /\ wire' = wire
    BY <1>1 DEF Handle, SendAt
  <2>2. s.curr = NoCmd => s.queue = <<>>
    BY <1>1 DEF Sends
  <2>3. Finds(s, q, wire, rd) => Finds(s, q, wire, FALSE)
    BY <2>2 DEF Finds
  <2>4. \A k \in 1..Len(q) :
            StateFits(s, q, wire, rd, k) => StateFits(s, q, wire, FALSE, k)
    BY <1>0 DEF StateFits
  <2>5. NetAt(s, q, wire, FALSE)
    BY <2>3, <2>4 DEF NetAt
  <2> QED
    BY <2>1, <2>5
<1>2. CASE Sends(s)
  <2>h. PICK h : h = Head(s.queue)
    OBVIOUS
  <2>t. PICK t : t = [s EXCEPT !.curr = h, !.queue = Tail(s.queue)]
    OBVIOUS
  <2>1. /\ s.curr = NoCmd /\ s.queue # <<>> /\ s.queue \in Seq(Command)
        /\ l' = t /\ wire = <<>> /\ wire' = <<h>> /\ h # NoCmd /\ h \in Command
        /\ \A k \in 1..Len(q) : ~IsAnswer(q[k])
    BY <1>2, <2>h, <2>t, HandleDone
  <2>2. h \in Command /\ Tail(s.queue) \in Seq(Command)
    BY <2>1, TailType
  <2>3. /\ t.curr = h /\ t.queue = Tail(s.queue)
        /\ t.state = s.state /\ t.pending = s.pending /\ t.ip = s.ip
        /\ t.shuting = s.shuting /\ t.shutpending = s.shutpending
        /\ t.tciicr = s.tciicr /\ t.cgatt = s.cgatt
        /\ t.flymode = s.flymode /\ t.tsetup = s.tsetup
    BY ONLY <2>2, <2>t, s \in LinkRecord DEF LinkRecord
  <2>4. /\ h = s.queue[1]
        /\ \A k \in 1..Len(t.queue) :
               k + 1 \in 1..Len(s.queue) /\ t.queue[k] = s.queue[k + 1]
        /\ \A k \in 1..Len(s.queue) :
               k = 1 \/ (k - 1 \in 1..Len(t.queue) /\ t.queue[k - 1] = s.queue[k])
        /\ 1 \in 1..Len(s.queue)
    <3>1. /\ Len(t.queue) = Len(s.queue) - 1 /\ Len(s.queue) \in Nat \ {0}
          /\ \A k \in 1..Len(t.queue) : t.queue[k] = s.queue[k + 1]
          /\ h = s.queue[1]
      BY ONLY <2>1, <2>3, <2>h, HeadTailProperties, EmptySeq, LenProperties
    <3>2. ASSUME NEW k \in 1..Len(s.queue), k # 1
          PROVE  k - 1 \in 1..Len(t.queue) /\ t.queue[k - 1] = s.queue[k]
      BY <3>1, <3>2
    <3> QED
      BY <3>1, <3>2
  <2>5. \A e : Has(s.queue, e) => h = e \/ Has(t.queue, e)
    BY <2>4 DEF Has
  <2>6. /\ NoCmd \notin {Plain("CIPSTATUS"), Plain("CIPSHUT"), Plain("CIFSR"),
                            Plain("CIICR")}
        /\ Plain("CIPSHUT") # Plain("CIPSTATUS")
    BY DEF NoCmd, Plain
  <2>7. Paired(t)
    <3>0. Paired(s)
      BY DEF NetAt, NetFits
    <3>1. h = Plain("CIFSR") =>
              1 \in 1..Len(t.queue) /\ t.queue[1] = Plain("CIPSTATUS")
      <4> SUFFICES ASSUME h = Plain("CIFSR")
                   PROVE  /\ 1 \in 1..Len(t.queue)
                          /\ t.queue[1] = Plain("CIPSTATUS")
        OBVIOUS
      <4>1. 1 + 1 \in 1..Len(s.queue) /\ s.queue[1 + 1] = Plain("CIPSTATUS")
        BY <3>0, <2>4 DEF Paired
      <4>2. 1 + 1 # 1 /\ (1 + 1) - 1 = 1
        OBVIOUS
      <4> QED
        BY <4>1, <4>2, <2>4
    <3>2. ASSUME NEW k \in 1..Len(t.queue), t.queue[k] = Plain("CIFSR")
          PROVE  /\ k + 1 \in 1..Len(t.queue)
                 /\ t.queue[k + 1] = Plain("CIPSTATUS")
      <4>1. /\ k + 1 \in 1..Len(s.queue) /\ s.queue[k + 1] = Plain("CIFSR")
            /\ k \in Nat /\ k >= 1
        BY <3>2, <2>4
      <4>2. /\ (k + 1) + 1 \in 1..Len(s.queue)
            /\ s.queue[(k + 1) + 1] = Plain("CIPSTATUS")
        BY <4>1, <3>0 DEF Paired
      <4>3. (k + 1) + 1 # 1 /\ ((k + 1) + 1) - 1 = k + 1
        BY <4>1
      <4> QED
        BY <4>2, <4>3, <2>4
    <3> QED
      BY <3>1, <3>2, <2>3 DEF Paired
  <2>8. /\ Hopes(s, q) \subseteq Hopes(t, q)
        /\ h = Plain("CIPSHUT") => "shut" \in Hopes(t, q)
        /\ h = Plain("CIPSTATUS") => "told" \in Hopes(t, q)
    BY <2>1, <2>3, <2>6 DEF Hopes
  <2>9. NetFits(t, Hopes(t, q))
    <3>1. /\ ToldWill(s, Hopes(s, q)) => ToldWill(t, Hopes(t, q))
          /\ ShutWill(s, Hopes(s, q)) => ShutWill(t, Hopes(t, q))
      BY <2>3, <2>5, <2>8 DEF ToldWill, ShutWill
    <3>2. NetFits(s, Hopes(s, q))
      BY DEF NetAt
    <3> QED
      BY <3>1, <3>2, <2>3, <2>5, <2>7, <2>8 DEF NetFits, IpReady
  <2>10. SetupFits(t)
    BY <2>3 DEF NetAt, SetupFits, Sockets
  <2>11. \A k \in 1..Len(q) : q[k].t # "STATE"
    BY <1>0, <2>1, <2>6 DEF NetAt, StateFits
  <2>12. ~HasState(q) /\ ~HasOk(q)
    BY <2>1, <2>11 DEF HasState, HasOk, IsAnswer
  <2>13. IpReady(t) <=> IpReady(s)
    BY <2>3 DEF IpReady
  <2>14. Finds(s, q, wire, rd) => t.curr = Plain("CIPSTATUS")
    BY <2>1, <2>3, <2>4, <2>6, <2>12 DEF Finds
  <2>15. wire' # <<>>
    BY <2>1
  <2>16. NetAt(t, q, wire', FALSE)
    BY <2>1, <2>3, <2>9, <2>10, <2>11, <2>12, <2>13, <2>14, <2>15
       DEF NetAt, Finds, IsAnswer
  <2> QED
    BY <2>1, <2>16
<1> QED
  BY <1>1, <1>2

LEMMA HandlerNet ==
    ASSUME IInv, NetInv, NEW s, Leads(l, s), Handle(s), reading = FALSE,
           UNCHANGED <<reading, out, mip, conn>>
    PROVE  NetInv'
<1>1. s \in LinkRecord /\ s.curr = l.curr /\ wire \in Seq(Command)
  BY DEF Leads, LeadsBut, Grows, IInv
<1>2. AnswersFit(out, wire, s.curr) /\ NetAt(s, out, wire, FALSE)
  BY <1>1, LeadsNet DEF NetInv
<1>3. NetAt(l', out, wire', FALSE) /\ AnswersFit(out, wire', l'.curr)
  BY <1>1, <1>2, HandleNet, HandleAnswers
<1>4. NetAt(l, out, wire, reading)'
  BY <1>3, NetKept
<1> QED
  BY <1>3, <1>4 DEF NetInv

LEMMA OwnerCallsNet == IInv /\ NetInv /\ OwnerCalls => NetInv'
<1> SUFFICES ASSUME IInv, NetInv, OwnerCalls PROVE NetInv'
  OBVIOUS
<1>1. PICK i \in LinkIds, a \in Calls : Handle(Call(l, i, a))
  BY DEF OwnerCalls
<1>2. l \in LinkRecord /\ reading = FALSE
  BY DEF IInv, Fits, OwnerCalls
<1>3. Leads(l, Call(l, i, a))
  BY <1>2, CallLeads
<1> QED
  BY <1>1, <1>2, <1>3, HandlerNet DEF OwnerCalls

LEMMA LocalEventNet == IInv /\ NetInv /\ LocalEvent => NetInv'
<1> SUFFICES ASSUME IInv, NetInv, LocalEvent PROVE NetInv'
  OBVIOUS
<1>e. PICK e : e = Head(l.local)
  OBVIOUS
<1>s. PICK s : s = [l EXCEPT !.local = Tail(l.local)]
  OBVIOUS
<1>1. /\ l \in LinkRecord /\ l.local # <<>> /\ l.local \in Seq(LocalEvents)
      /\ reading = FALSE
  BY DEF IInv, Fits, LinkRecord, LocalEvent
<1>2. Tail(l.local) \in Seq(LocalEvents) /\ e \in LocalEvents
  BY <1>1, <1>e, TailType
<1>3. Leads(l, s) /\ s \in LinkRecord
  BY <1>1, <1>2, <1>s, LocalLeads, LeadsType DEF Leads
<1>4. e[2] \in LinkIds
  BY <1>2 DEF LocalEvents
<1>5. PICK r \in Replies :
          Handle(IF e[1] = "DISCONNECT" THEN CloseCnf(s, e[2], r)
                 ELSE StatusInd(s, e[2], e[1], r))
  BY <1>e, <1>s DEF LocalEvent
<1>6. Leads(s, CloseCnf(s, e[2], r)) /\ Leads(s, StatusInd(s, e[2], e[1], r))
  BY <1>3, <1>4, CloseCnfLeads, StatusLeads
<1>7. PICK t : Leads(s, t) /\ Handle(t)
  BY <1>5, <1>6
<1>8. Leads(l, t)
  BY <1>3, <1>7, LeadsChain
<1> QED
  BY <1>1, <1>7, <1>8, HandlerNet DEF LocalEvent

LEMMA TimersNet == IInv /\ NetInv /\ (SetupTimer \/ StatusTimer) => NetInv'
<1> SUFFICES ASSUME IInv, NetInv, SetupTimer \/ StatusTimer PROVE NetInv'
  OBVIOUS
<1>1. l \in LinkRecord /\ reading = FALSE
  BY DEF IInv, Fits, SetupTimer, StatusTimer, Idle
<1>2. CASE SetupTimer
  <2>t. PICK t : t = [l EXCEPT !.tsetup = FALSE]
    OBVIOUS
  <2>1. LeadsBut(l, t)
    BY <1>1, <2>t, TimerLeads
  <2>2. Leads(l, SetupIP(t))
    BY <2>1, SetupIPLeads
  <2>3. Handle(SetupIP(t)) /\ UNCHANGED <<reading, out, mip, conn>>
    BY <1>2, <2>t DEF SetupTimer
  <2> QED
    BY <1>1, <2>2, <2>3, HandlerNet
<1>3. CASE StatusTimer
  <2>t. PICK t : t = [l EXCEPT !.tstatus = FALSE]
    OBVIOUS
  <2>1. Leads(l, t) /\ t \in LinkRecord
    BY <1>1, <2>t, TimerLeads, LeadsType DEF Leads
  <2>2. Leads(t, Req(t, Plain("CIPSTATUS")))
    BY <2>1, PlainLeads DEF Verbs
  <2>3. Leads(l, Req(t, Plain("CIPSTATUS")))
    BY <2>1, <2>2, LeadsChain
  <2>4. /\ Handle(Req(t, Plain("CIPSTATUS")))
        /\ UNCHANGED <<reading, out, mip, conn>>
    BY <1>3, <2>t DEF StatusTimer
  <2> QED
    BY <1>1, <2>3, <2>4, HandlerNet
<1> QED
  BY <1>2, <1>3

LEMMA CgattRspNet == IInv /\ NetInv /\ CgattRsp => NetInv'
<1> SUFFICES ASSUME IInv, NetInv, CgattRsp PROVE NetInv'
  OBVIOUS
<1>1. l \in LinkRecord /\ reading = FALSE
  BY DEF IInv, Fits, CgattRsp, Idle
<1>2. PICK a \in BOOLEAN : Handle(Cgatt(l, a))
  BY DEF CgattRsp
<1>3. Leads(l, Cgatt(l, a))
  BY <1>1, LeadsSame, CgattLeads DEF Leads
<1> QED
  BY <1>1, <1>2, <1>3, HandlerNet DEF CgattRsp

LEMMA FlyModeNet == IInv /\ NetInv /\ FlyMode => NetInv'
<1> SUFFICES ASSUME IInv, NetInv, FlyMode PROVE NetInv'
  OBVIOUS
<1>1. l \in LinkRecord /\ reading = FALSE
  BY DEF IInv, Fits, FlyMode, Idle
<1>2. CASE Handle([l EXCEPT !.flymode = TRUE, !.tstatus = FALSE])
  <2>u. PICK u : u = [l EXCEPT !.flymode = TRUE]
    OBVIOUS
  <2>t. PICK t : t = [l EXCEPT !.flymode = TRUE, !.tstatus = FALSE]
    OBVIOUS
  <2>1. LeadsBut(l, u) /\ u \in LinkRecord
    BY <1>1, <2>u, TimerLeads, LeadsType
  <2>2. t = [u EXCEPT !.tstatus = FALSE] /\ u.flymode
    BY ONLY <1>1, <2>t, <2>u DEF LinkRecord
  <2>3. LeadsBut(u, t)
    BY <2>1, <2>2, TimerLeads DEF Leads
  <2>4. t.flymode
    BY ONLY <1>1, <2>t DEF LinkRecord
  <2>5. Leads(l, t)
    BY <2>1, <2>3, <2>4, LeadsButChain DEF Leads, SetupFits
  <2> QED
    BY <2>5, <2>t, <1>1, <1>2, HandlerNet DEF FlyMode
<1>3. ASSUME NEW a \in BOOLEAN, Handle(Cgatt([l EXCEPT !.flymode = FALSE], a))
      PROVE  NetInv'
  <2>t. PICK t : t = [l EXCEPT !.flymode = FALSE]
    OBVIOUS
  <2>1. LeadsBut(l, t)
    BY <1>1, <2>t, TimerLeads
  <2>2. Leads(l, Cgatt(t, a))
    BY <2>1, CgattLeads
  <2> QED
    BY <2>2, <2>t, <1>1, <1>3, HandlerNet DEF FlyMode
<1> QED
  BY <1>2, <1>3 DEF FlyMode

LEMMA HoldNet == IInv /\ NetInv /\ (Hold \/ Release) => NetInv'
<1> SUFFICES ASSUME IInv, NetInv, Hold \/ Release PROVE NetInv'
  OBVIOUS
<1>1. l \in LinkRecord /\ reading = FALSE
  BY DEF IInv, Fits, Hold, Release, Idle
<1>2. ASSUME NEW h \in SUBSET Holders
      PROVE  /\ Leads(l, [l EXCEPT !.holders = h])
             /\ Leads(l, Shut([l EXCEPT !.holders = h]))
  <2>t. PICK t : t = [l EXCEPT !.holders = h]
    OBVIOUS
  <2>1. Leads(l, t) /\ t \in LinkRecord
    BY <1>1, <2>t, HoldersLeads, LeadsType DEF Leads
  <2>2. Leads(t, Shut(t))
    BY <2>1, ShutLeads
  <2>3. Leads(l, Shut(t))
    BY <2>1, <2>2, LeadsChain
  <2> QED
    BY <2>1, <2>3, <2>t
<1>3. l.holders \in SUBSET Holders
  BY <1>1 DEF LinkRecord
<1>4. CASE Hold
  <2>1. PICK h \in Holders : Handle([l EXCEPT !.holders = l.holders \union {h}])
    BY <1>4 DEF Hold
  <2>2. l.holders \union {h} \in SUBSET Holders
    BY <1>3
  <2> QED
    BY <2>1, <2>2, <1>1, <1>2, <1>4, HandlerNet DEF Hold
<1>5. CASE Release
  <2>1. PICK h \in l.holders :
            \/ Handle([l EXCEPT !.holders = l.holders \ {h}])
            \/ Handle(Shut([l EXCEPT !.holders = l.holders \ {h}]))
    BY <1>5 DEF Release
  <2>2. l.holders \ {h} \in SUBSET Holders
    BY <1>3
  <2> QED
    BY <2>1, <2>2, <1>1, <1>2, <1>5, HandlerNet DEF Release
<1> QED
  BY <1>4, <1>5

----------------------------------------------------------------------------
(* NetInv of the reader: a line and what comes after it *)

LEMMA TailLines ==
    ASSUME NEW f \in Seq(Line), f # <<>>, NEW q, q = Tail(f),
           NEW a, a = Head(f)
    PROVE  /\ a \in Line /\ a = f[1] /\ 1 \in 1..Len(f)
           /\ \A k \in 1..Len(q) : k + 1 \in 1..Len(f) /\ q[k] = f[k + 1]
           /\ \A k \in 1..Len(f) :
                  k = 1 \/ (k - 1 \in 1..Len(q) /\ q[k - 1] = f[k])
<1>1. /\ a \in Line /\ a = f[1]
      /\ Len(q) = Len(f) - 1 /\ Len(f) \in Nat \ {0}
      /\ \A k \in 1..Len(q) : q[k] = f[k + 1]
  BY TailType, HeadTailProperties, EmptySeq, LenProperties
<1>2. ASSUME NEW k \in 1..Len(f), k # 1
      PROVE  k - 1 \in 1..Len(q) /\ q[k - 1] = f[k]
  BY <1>1, <1>2
<1> QED
  BY <1>1, <1>2

(* The lines behind a line that is not the state of the network *)
LEMMA TailStates ==
    ASSUME NEW f \in Seq(Line), f # <<>>, NEW q, q = Tail(f),
           NEW a, a = Head(f), a.t # "STATE"
    PROVE  /\ HasState(f) <=> HasState(q)
           /\ ~IsAnswer(a) => (HasOk(f) <=> HasOk(q))
<1>1. /\ a = f[1]
      /\ \A k \in 1..Len(q) : k + 1 \in 1..Len(f) /\ q[k] = f[k + 1]
      /\ \A k \in 1..Len(f) :
             k = 1 \/ (k - 1 \in 1..Len(q) /\ q[k - 1] = f[k])
  BY TailLines
<1>2. HasState(f) <=> HasState(q)
  BY <1>1 DEF HasState
<1>3. ~IsAnswer(a) => (HasOk(f) <=> HasOk(q))
  BY <1>1 DEF HasOk, IsAnswer
<1> QED
  BY <1>2, <1>3

(* A line that is neither an answer nor the state of the network is taken. *)
LEMMA DropNet ==
    ASSUME NEW s, NEW f \in Seq(Line), f # <<>>, NEW q, q = Tail(f),
           NEW a, a = Head(f), ~IsAnswer(a), a.t # "STATE",
           NEW w, NEW rd \in BOOLEAN, NetAt(s, f, w, rd)
    PROVE  NetAt(s, q, w, TRUE)
<1>1. /\ a = f[1]
      /\ \A k \in 1..Len(q) : k + 1 \in 1..Len(f) /\ q[k] = f[k + 1]
      /\ \A k \in 1..Len(f) :
             k = 1 \/ (k - 1 \in 1..Len(q) /\ q[k - 1] = f[k])
  BY TailLines
<1>2. /\ HasState(f) <=> HasState(q)
      /\ HasOk(f) <=> HasOk(q)
  BY TailStates
<1>3. Hopes(s, q) = Hopes(s, f)
  BY <1>2 DEF Hopes
<1>4. ASSUME NEW k \in 1..Len(q), q[k].t = "STATE"
      PROVE  StateFits(s, q, w, TRUE, k)
  <2>1. StateFits(s, f, w, rd, k + 1)
    BY <1>1, <1>4 DEF NetAt
  <2>2. ASSUME s.curr # NoCmd
        PROVE  \E j \in 1..Len(q) : j < k /\ IsAnswer(q[j])
    <3>1. PICK j \in 1..Len(f) : j < k + 1 /\ IsAnswer(f[j])
      BY <2>1, <2>2 DEF StateFits
    <3>2. j - 1 \in 1..Len(q) /\ q[j - 1] = f[j]
      BY <3>1, <1>1
    <3>3. j - 1 < k
      BY <3>1
    <3> QED
      BY <3>1, <3>2, <3>3
  <2>3. ASSUME NEW j \in 1..Len(q), q[j].t = "STATE" PROVE j = k
    <3>1. j + 1 = k + 1
      BY <2>1, <2>3, <1>1 DEF StateFits
    <3> QED
      BY <3>1
  <2>4. q[k] = f[k + 1]
    BY <1>1
  <2> QED
    BY <2>1, <2>2, <2>3, <2>4 DEF StateFits
<1>5. Finds(s, f, w, rd) => Finds(s, q, w, TRUE)
  BY <1>2 DEF Finds
<1>6. \A k \in 1..Len(q) :
          /\ q[k].t = "ANS" /\ q[k].v = "SHUT_OK" => mip = "INITIAL"
          /\ s.curr = Plain("CIPSHUT") /\ IsAnswer(q[k]) => q[k].v = "SHUT_OK"
  BY <1>1 DEF NetAt
<1> QED
  BY <1>2, <1>3, <1>4, <1>5, <1>6 DEF NetAt

(* The answer of the command in execution is taken. *)
LEMMA AnswerNet ==
    ASSUME NEW u \in LinkRecord, NEW f \in Seq(Line), f # <<>>,
           NEW q, q = Tail(f), NEW a, a = Head(f), IsAnswer(a),
           NEW w, NEW rd \in BOOLEAN, AnswersFit(f, w, u.curr),
           u.curr # Plain("CIPSHUT"),
           u.curr = Plain("CIICR") /\ a.v = "OK" => u.tciicr,
           NetAt(u, f, w, rd), NEW s, s = [u EXCEPT !.curr = NoCmd]
    PROVE  NetAt(s, q, w, TRUE)
<1>0. /\ s.curr = NoCmd /\ s.queue = u.queue
      /\ s.state = u.state /\ s.pending = u.pending /\ s.ip = u.ip
      /\ s.shuting = u.shuting /\ s.shutpending = u.shutpending
      /\ s.tciicr = u.tciicr /\ s.cgatt = u.cgatt
      /\ s.flymode = u.flymode /\ s.tsetup = u.tsetup
  BY ONLY s = [u EXCEPT !.curr = NoCmd], u \in LinkRecord
     DEF LinkRecord
<1>1. /\ a = f[1] /\ 1 \in 1..Len(f)
      /\ \A k \in 1..Len(q) : k + 1 \in 1..Len(f) /\ q[k] = f[k + 1]
      /\ \A k \in 1..Len(f) :
             k = 1 \/ (k - 1 \in 1..Len(q) /\ q[k - 1] = f[k])
  BY TailLines
<1>2. a.t # "STATE"
  BY DEF IsAnswer
<1>3. HasState(f) <=> HasState(q)
  BY <1>2, TailStates
<1>4. u.curr # NoCmd /\ w = <<>>
  BY <1>1 DEF AnswersFit, Answering
<1>5. \A k \in 1..Len(q) : ~IsAnswer(q[k])
  <2> SUFFICES ASSUME NEW k \in 1..Len(q), IsAnswer(q[k]) PROVE FALSE
    OBVIOUS
  <2>1. AnswersFit(f, w, u.curr) /\ IsAnswer(f[1]) /\ IsAnswer(f[k + 1])
    BY <1>1
  <2>2. k + 1 = 1
    BY ONLY <2>1, <1>1, k \in 1..Len(q) DEF AnswersFit
  <2> QED
    BY ONLY <2>2, k \in 1..Len(q)
<1>6. /\ NoCmd \notin {Plain("CIPSTATUS"), Plain("CIPSHUT"), Plain("CIFSR")}
      /\ Plain("CIFSR") # Plain("CIPSTATUS")
  BY DEF NoCmd, Plain
<1>7. u.curr = Plain("CIPSTATUS") => HasState(q)
  BY <1>3, <1>4 DEF NetAt
<1>8. Hopes(u, f) \subseteq Hopes(s, q)
  BY <1>0, <1>3, <1>7 DEF Hopes
<1>9. NetFits(s, Hopes(s, q))
  <2>1. NetFits(u, Hopes(u, f))
    BY DEF NetAt
  <2>2. NetFits(u, Hopes(s, q))
    BY <2>1, <1>8, NetMono
  <2>3. Paired(s)
    BY <2>1, <1>0, <1>6 DEF NetFits, Paired
  <2> QED
    BY <2>2, <2>3, <1>0 DEF NetFits, ToldWill, ShutWill, IpReady
<1>10. SetupFits(s)
  BY <1>0 DEF NetAt, SetupFits, Sockets
<1>11. ASSUME NEW k \in 1..Len(q), q[k].t = "STATE"
       PROVE  StateFits(s, q, w, TRUE, k)
  <2>1. StateFits(u, f, w, rd, k + 1)
    BY <1>1, <1>11 DEF NetAt
  <2>2. ASSUME NEW j \in 1..Len(q), q[j].t = "STATE" PROVE j = k
    <3>1. j + 1 = k + 1
      BY <2>1, <2>2, <1>1 DEF StateFits
    <3> QED
      BY <3>1
  <2>3. StillSo(s, q[k].v)
    BY <2>1, <1>0, <1>1 DEF StateFits, StillSo, IpReady
  <2> QED
    BY <2>2, <2>3, <1>0, <1>4 DEF StateFits
<1>12. mip = "START" => s.tciicr
  <2> SUFFICES ASSUME mip = "START", ~u.tciicr PROVE FALSE
    BY <1>0
  <2>1. u.curr = Plain("CIICR") /\ HasOk(f)
    BY DEF NetAt
  <2>2. PICK k \in 1..Len(f) : f[k].t = "ANS" /\ f[k].v = "OK"
    BY <2>1 DEF HasOk
  <2>3. k = 1
    BY <2>2, <1>1 DEF AnswersFit, IsAnswer
  <2> QED
    BY <2>1, <2>2, <2>3, <1>1
<1>13. mip = "STATUS" => IpReady(s) \/ Finds(s, q, w, TRUE)
  <2> SUFFICES ASSUME mip = "STATUS", ~IpReady(u)
               PROVE  Finds(s, q, w, TRUE)
    BY <1>0 DEF IpReady
  <2>1. Finds(u, f, w, rd)
    BY DEF NetAt
  <2>2. CASE HasState(q)
    BY <2>2 DEF Finds
  <2>3. CASE u.curr = Plain("CIFSR")
    <3>1. 1 \in 1..Len(u.queue) /\ u.queue[1] = Plain("CIPSTATUS")
      BY <2>3 DEF NetAt, NetFits, Paired
    <3> QED
      BY <3>1, <1>0 DEF Finds
  <2> QED
    BY <2>1, <2>2, <2>3, <1>3, <1>4, <1>7 DEF Finds
<1>14. \A i \in LinkIds : conn[i] # "free" => mip = "STATUS" /\ IpReady(s)
  BY <1>0 DEF NetAt, IpReady
<1>15. \A k \in 1..Len(q) : ~(q[k].t = "ANS")
  BY <1>5 DEF IsAnswer
<1>16. mip # "PROCESSING"
  BY DEF NetAt
<1> QED
  BY <1>0, <1>6, <1>9, <1>10, <1>11, <1>12, <1>13, <1>14, <1>15, <1>16
     DEF NetAt

(* The network is shut: the answer of AT+CIPSHUT is taken. *)
LEMMA ShutNet ==
    ASSUME NEW s \in LinkRecord, NEW f \in Seq(Line), f # <<>>,
           NEW q, q = Tail(f), NEW a, a = Head(f), IsAnswer(a), NEW r,
           NEW w, NEW rd \in BOOLEAN, AnswersFit(f, w, s.curr),
           s.curr = Plain("CIPSHUT"), NetAt(s, f, w, rd),
           NEW u, u = Rsp(s, s.curr, a.v, r)
    PROVE  u \in LinkRecord /\ NetAt([u EXCEPT !.curr = NoCmd], q, w, TRUE)
<1>t. PICK t : t = [u EXCEPT !.curr = NoCmd]
  OBVIOUS
<1>1. /\ a \in Line /\ a = f[1] /\ 1 \in 1..Len(f)
      /\ \A k \in 1..Len(q) : k + 1 \in 1..Len(f) /\ q[k] = f[k + 1]
  BY TailLines
<1>2. a.v = "SHUT_OK" /\ a.t = "ANS"
  <2>1. a.v = "SHUT_OK"
    BY <1>1 DEF NetAt
  <2> QED
    BY <2>1 DEF IsAnswer
<1>3. mip = "INITIAL"
  BY <1>1, <1>2 DEF NetAt
<1>4. Paired(s) /\ SetupFits(s)
  BY DEF NetAt, NetFits
<1>5. /\ u \in LinkRecord /\ u.curr = s.curr /\ SetupFits(u)
      /\ NetFits(u, Hopes(t, q))
  <2>1. u = ShutCnf(s, TRUE, r)
    <3>1. ASSUME NEW x, x.verb = "CIPSHUT", NEW v, v = "SHUT_OK"
          PROVE  Rsp(s, x, v, r) = ShutCnf(s, TRUE, r)
      <4>1. Rsp(s, x, v, r) = ShutCnf(s, v = "SHUT_OK", r)
        BY <3>1, Zenon DEF Rsp
      <4>2. (v = "SHUT_OK") = TRUE
        BY <3>1
      <4> QED
        BY ONLY <4>1, <4>2, Zenon
    <3>2. s.curr.verb = "CIPSHUT"
      BY DEF Plain
    <3> QED
      BY ONLY <3>1, <3>2, <1>2, u = Rsp(s, s.curr, a.v, r)
  <2> QED
    BY <1>4, <2>1, ShutCnfNet
<1>6. u \in LinkRecord
  BY <1>5
<1>7. /\ t.curr = NoCmd /\ t.queue = u.queue
      /\ t.state = u.state /\ t.pending = u.pending /\ t.ip = u.ip
      /\ t.shuting = u.shuting /\ t.shutpending = u.shutpending
      /\ t.tciicr = u.tciicr /\ t.cgatt = u.cgatt
      /\ t.flymode = u.flymode /\ t.tsetup = u.tsetup
  BY ONLY <1>6, <1>t DEF LinkRecord
<1>8. /\ NoCmd \notin {Plain("CIPSTATUS"), Plain("CIPSHUT"), Plain("CIFSR")}
      /\ Plain("CIPSHUT") \notin {Plain("CIPSTATUS"), NoCmd}
  BY DEF NoCmd, Plain
<1>9. Paired(t)
  BY <1>5, <1>7, <1>8 DEF NetFits, Paired
<1>10. NetFits(t, Hopes(t, q)) /\ SetupFits(t)
  BY <1>5, <1>7, <1>9
     DEF NetFits, ToldWill, ShutWill, IpReady, SetupFits, Sockets
<1>11. \A k \in 1..Len(q) : q[k].t # "STATE"
  BY <1>1, <1>8 DEF NetAt, StateFits
<1>12. \A k \in 1..Len(q) : q[k].t # "ANS"
  <2> SUFFICES ASSUME NEW k \in 1..Len(q), q[k].t = "ANS" PROVE FALSE
    OBVIOUS
  <2>1. k + 1 = 1
    BY <1>1 DEF AnswersFit, IsAnswer
  <2> QED
    BY <2>1
<1>13. \A i \in LinkIds : conn[i] = "free"
  BY <1>3 DEF NetAt
<1>14. NetAt(t, q, w, TRUE)
  BY <1>3, <1>7, <1>8, <1>10, <1>11, <1>12, <1>13 DEF NetAt
<1> QED
  BY <1>5, <1>14, <1>t

(* The state of the network is taken over. *)
LEMMA StateNet ==
    ASSUME NEW s \in LinkRecord, NEW f \in Seq(Line), f # <<>>,
           NEW q, q = Tail(f), NEW a, a = Head(f), a.t = "STATE",
           NEW w, NEW rd \in BOOLEAN, AnswersFit(f, w, s.curr),
           NetAt(s, f, w, rd)
    PROVE  /\ SetIPStatus(s, a.v) \in LinkRecord
           /\ SetIPStatus(s, a.v).curr = s.curr
           /\ NetAt(SetIPStatus(s, a.v), q, w, TRUE)
<1>t. PICK t : t = SetIPStatus(s, a.v)
  OBVIOUS
<1>1. /\ a \in Line /\ a = f[1] /\ 1 \in 1..Len(f)
      /\ \A k \in 1..Len(q) : k + 1 \in 1..Len(f) /\ q[k] = f[k + 1]
  BY TailLines
<1>2. a.v \in IpStates
  BY <1>1 DEF Line
<1>3. StateFits(s, f, w, rd, 1)
  BY <1>1 DEF NetAt
<1>4. s.curr = NoCmd /\ rd /\ w = <<>>
  <2>1. \A j \in 1..Len(f) : ~(j < 1)
    OBVIOUS
  <2>2. s.curr = NoCmd
    BY <1>3, <2>1 DEF StateFits
  <2>3. NoCmd # Plain("CIPSTATUS")
    BY DEF NoCmd, Plain
  <2> QED
    BY <1>3, <2>2, <2>3 DEF StateFits
<1>5. StillSo(s, a.v)
  BY <1>1, <1>3 DEF StateFits
<1>6. \A k \in 1..Len(f) : ~IsAnswer(f[k])
  BY <1>4 DEF AnswersFit
<1>7. \A k \in 1..Len(q) : q[k].t # "STATE" /\ ~IsAnswer(q[k])
  <2> SUFFICES ASSUME NEW k \in 1..Len(q)
               PROVE  q[k].t # "STATE" /\ ~IsAnswer(q[k])
    OBVIOUS
  <2>1. k + 1 \in 1..Len(f) /\ q[k] = f[k + 1] /\ k + 1 # 1
    BY <1>1
  <2> QED
    BY <2>1, <1>3, <1>6 DEF StateFits
<1>8. ~HasState(q) /\ ~HasOk(q)
  BY <1>7 DEF HasState, HasOk, IsAnswer
<1>9. /\ NoCmd \notin {Plain("CIPSTATUS"), Plain("CIPSHUT"), Plain("CIFSR"),
                       Plain("CIICR")}
  BY DEF NoCmd, Plain
<1>10. /\ t \in LinkRecord /\ t.curr = s.curr /\ t.ip = a.v
       /\ s.tciicr /\ a.v # "GPRSACT" => t.tciicr
       /\ SetupFits(s) => SetupFits(t)
  BY <1>2, <1>t, SetIPStatusGrows
<1>11. mip = "START" => s.tciicr
  BY <1>4, <1>9 DEF NetAt
<1>12. Hopes(s, f) \ {"told"} \subseteq Hopes(t, q) /\ "timed" \in Hopes(t, q)
  BY <1>10 DEF Hopes
<1>13. /\ a.v = "START" => s.tciicr
       /\ a.v = "PROCESSING" => IpReady(s)
  BY <1>5, <1>11 DEF StillSo
<1>14. NetFits(s, Hopes(s, f))
  BY DEF NetAt
<1>15. NetFits(t, Hopes(t, q))
  BY <1>2, <1>12, <1>13, <1>14, <1>t, SetIPStatusFitsNet
<1>16. mip = "STATUS" => IpReady(t)
  BY <1>2, <1>5, <1>10 DEF StillSo, IpReady, IpStates
<1>17. mip = "START" => t.tciicr
  BY <1>5, <1>10, <1>11 DEF StillSo
<1>18. \A i \in LinkIds : conn[i] # "free" => mip = "STATUS" /\ IpReady(t)
  BY <1>16 DEF NetAt
<1>19. mip # "PROCESSING" /\ SetupFits(t)
  BY <1>10 DEF NetAt
<1>20. NetAt(t, q, w, TRUE)
  BY <1>4, <1>7, <1>9, <1>10, <1>15, <1>16, <1>17, <1>18, <1>19
     DEF NetAt, IsAnswer
<1> QED
  BY <1>10, <1>20, <1>t

(* What a line does to link and what it knows of the network *)
LEMMA LineNet ==
    ASSUME IInv, NetInv, out # <<>>, NEW a, a = Head(out), NEW q, q = Tail(out),
           ~Crossing(l, a), NEW r
    PROVE  LET s == Process(l, a, r)
           IN  /\ s \in LinkRecord /\ NetAt(s, q, wire, TRUE)
               /\ s.curr = IF IsAnswer(a) THEN NoCmd ELSE l.curr
<1>0. /\ l \in LinkRecord /\ out \in Seq(Line) /\ reading \in BOOLEAN
      /\ AnswersFit(out, wire, l.curr) /\ NetAt(l, out, wire, reading)
  BY DEF IInv, Fits, NetInv
<1>1. a \in Line /\ a = out[1] /\ 1 \in 1..Len(out)
  BY <1>0, TailLines
<1>2. /\ IsFinal(l, a) <=> IsAnswer(a)
      /\ IsAnswer(a) => Answering(a, l.curr)
  BY <1>0, <1>1, FinalIsAnswer
<1>3. CASE IsAnswer(a)
  <2>c. PICK c : c = l.curr
    OBVIOUS
  <2>u. PICK u : u = Rsp(l, c, a.v, r)
    OBVIOUS
  <2>s. PICK s : s = [u EXCEPT !.curr = NoCmd]
    OBVIOUS
  <2>1. Process(l, a, r) = s
    BY <1>2, <1>3, <2>c, <2>u, <2>s DEF Process
  <2>2. c \in Command
    BY <1>0, <1>2, <1>3, <2>c DEF LinkRecord, Answering
  <2>3. ASSUME u \in LinkRecord PROVE s \in LinkRecord /\ s.curr = NoCmd
    BY ONLY <2>3, <2>s DEF LinkRecord
  <2>4. CASE c.verb = "CIPSHUT"
    <3>1. l.curr = Plain("CIPSHUT")
      BY <2>2, <2>4, <2>c DEF Command, SocketVerbs, Plain
    <3>2. u = Rsp(l, l.curr, a.v, r)
      BY <2>c, <2>u
    <3>3. u \in LinkRecord /\ NetAt([u EXCEPT !.curr = NoCmd], q, wire, TRUE)
      BY ONLY <1>0, <1>3, <3>1, <3>2, out # <<>>, a = Head(out),
         q = Tail(out), ShutNet
    <3>4. NetAt(s, q, wire, TRUE)
      BY <3>3, <2>s
    <3> QED
      BY <1>3, <2>1, <2>3, <3>3, <3>4
  <2>5. CASE c.verb # "CIPSHUT"
    <3>1. /\ Leads(l, u)
          /\ c.verb = "CIICR" /\ a.v = "OK" => u.tciicr
      BY <1>0, <2>2, <2>5, <2>u, RspLeads
    <3>2. u \in LinkRecord /\ u.curr = c
      BY <3>1, <2>c DEF Leads, LeadsBut, Grows
    <3>3. NetAt(u, out, wire, reading)
      BY <1>0, <3>1, LeadsNet
    <3>4. u.curr # Plain("CIPSHUT")
      BY <2>5, <3>2 DEF Plain
    <3>5. u.curr = Plain("CIICR") /\ a.v = "OK" => u.tciicr
      BY <3>1, <3>2 DEF Plain
    <3>6. AnswersFit(out, wire, u.curr)
      BY <1>0, <3>2, <2>c
    <3>7. NetAt(s, q, wire, TRUE)
      BY ONLY <1>0, <1>3, <2>s, <3>2, <3>3, <3>4, <3>5, <3>6, out # <<>>,
         a = Head(out), q = Tail(out), AnswerNet
    <3> QED
      BY <1>3, <2>1, <2>3, <3>2, <3>7
  <2> QED
    BY <2>4, <2>5
<1>4. CASE a.t = "STATE"
  <2>1. ~IsAnswer(a)
    BY <1>4 DEF IsAnswer
  <2>2. a.v # "PDP_DEACT"
    BY <1>1, <1>4, LineFacts
  <2>3. Process(l, a, r) = SetIPStatus(l, a.v)
    BY <1>2, <1>4, <2>1, <2>2 DEF Process, Urc
  <2>4. /\ SetIPStatus(l, a.v) \in LinkRecord
        /\ SetIPStatus(l, a.v).curr = l.curr
        /\ NetAt(SetIPStatus(l, a.v), q, wire, TRUE)
    BY ONLY <1>0, <1>4, out # <<>>, a = Head(out), q = Tail(out), StateNet
  <2> QED
    BY ONLY <2>1, <2>3, <2>4
<1>5. CASE ~IsAnswer(a) /\ a.t # "STATE"
  <2>u. PICK u : u = Urc(l, a, r)
    OBVIOUS
  <2>1. Process(l, a, r) = u
    BY <1>2, <1>5, <2>u DEF Process
  <2>2. Leads(l, u)
    BY <1>0, <1>1, <1>5, <2>u, UrcLeads
  <2>3. u \in LinkRecord /\ u.curr = l.curr
    BY <2>2 DEF Leads, LeadsBut, Grows
  <2>4. NetAt(u, out, wire, reading)
    BY <1>0, <2>2, LeadsNet
  <2>5. NetAt(u, q, wire, TRUE)
    BY <1>0, <1>5, <2>4, DropNet
  <2> QED
    BY <1>5, <2>1, <2>3, <2>5
<1> QED
  BY <1>3, <1>4, <1>5

LEMMA ReadLineNet == Obedient /\ IInv /\ NetInv /\ ReadLine => NetInv'
<1> SUFFICES ASSUME Obedient, IInv, NetInv, ReadLine PROVE NetInv'
  OBVIOUS
<1>a. PICK a : a = Head(out)
  OBVIOUS
<1>q. PICK q : q = Tail(out)
  OBVIOUS
<1>1. /\ out # <<>> /\ out \in Seq(Line) /\ out' = q
      /\ wire \in Seq(Command) /\ mip' = mip /\ conn' = conn
      /\ ~Crossing(l, a) /\ reading' = (q # <<>>)
  BY <1>a, <1>q DEF IInv, ReadLine, Obedient
<1>2. PICK r \in Replies :
          LET s == Process(l, a, r)
          IN  IF reading' THEN l' = s /\ wire' = wire ELSE Handle(s)
  BY <1>a DEF ReadLine
<1>s. PICK s : s = Process(l, a, r)
  OBVIOUS
<1>3. /\ s \in LinkRecord /\ NetAt(s, q, wire, TRUE)
      /\ s.curr = IF IsAnswer(a) THEN NoCmd ELSE l.curr
  BY <1>1, <1>a, <1>q, <1>s, LineNet
<1>4. AnswersFit(q, wire, s.curr)
  BY <1>1, <1>3, <1>a, <1>q, TailAnswers DEF NetInv
<1>5. CASE q # <<>>
  <2>1. l' = s /\ wire' = wire /\ reading' = TRUE
    BY <1>1, <1>2, <1>5, <1>s
  <2>2. NetAt(l', out', wire', reading')
    BY <1>1, <1>3, <2>1
  <2>3. NetAt(l, out, wire, reading)'
    BY <1>1, <2>2, NetKept
  <2> QED
    BY <1>1, <1>4, <2>1, <2>3 DEF NetInv
<1>6. CASE q = <<>>
  <2>1. Handle(s) /\ reading' = FALSE
    BY <1>1, <1>2, <1>6, <1>s
  <2>2. NetAt(l', q, wire', FALSE) /\ AnswersFit(q, wire', l'.curr)
    BY <1>1, <1>3, <1>4, <1>6, <2>1, HandleNet, HandleAnswers
  <2>3. NetAt(l', out', wire', reading')
    BY <1>1, <2>1, <2>2
  <2>4. NetAt(l, out, wire, reading)'
    BY <1>1, <2>3, NetKept
  <2> QED
    BY <1>1, <2>2, <2>4 DEF NetInv
<1> QED
  BY <1>5, <1>6

----------------------------------------------------------------------------
(* NetInv of the modem *)

(* A report that nothing asked for is sent; a connection may be lost, and  *)
(* the network.                                                            *)
LEMMA ReportNet ==
    ASSUME IInv, NetInv, UNCHANGED <<l, reading, wire>>,
           NEW a \in Line, a.t \in {"LINK", "PDP"}, ~IsAnswer(a), Say(<<a>>),
           mip' = mip \/ (mip \in {"GPRSACT", "STATUS"} /\ mip' = "DEACT"),
           \A i \in LinkIds : conn'[i] # "free" =>
               conn[i] # "free" /\ mip' = mip
    PROVE  NetInv'
<1>n. PICK n : n = Len(out)
  OBVIOUS
<1>0. /\ out \in Seq(Line) /\ NetAt(l, out, wire, reading)
      /\ AnswersFit(out, wire, l.curr)
      /\ l' = l /\ wire' = wire /\ reading' = reading
  BY DEF IInv, NetInv
<1>1. /\ n \in Nat
      /\ \A k \in 1..n : k \in 1..Len(out') /\ out'[k] = out[k]
      /\ \A k \in 1..Len(out') : k \in 1..n \/ out'[k] = a
  <2>l. PICK lines : lines = <<a>>
    OBVIOUS
  <2>1. lines \in Seq(Line) /\ Say(lines) /\ Len(lines) = 1 /\ lines[1] = a
    BY <2>l
  <2>2. /\ n \in Nat
        /\ \A k \in 1..n : k \in 1..Len(out') /\ out'[k] = out[k]
        /\ \A k \in 1..Len(lines) : out'[n + k] = lines[k]
        /\ \A k \in 1..Len(out') :
               k \in 1..n \/ \E m \in 1..Len(lines) : k = n + m
    BY <1>0, <1>n, <2>1, SaidLines
  <2>3. \A m \in 1..Len(lines) : m = 1
    BY <2>1
  <2> QED
    BY <2>1, <2>2, <2>3
<1>2. AnswersFit(out', wire', l.curr)
  BY <1>0, ReportFits
<1>3. HasState(out') <=> HasState(out)
  BY <1>1, <1>n DEF HasState
<1>4. HasOk(out) => HasOk(out')
  BY <1>1, <1>n DEF HasOk
<1>5. Hopes(l, out') = Hopes(l, out)
  BY <1>3 DEF Hopes
<1>6. NetFits(l, Hopes(l, out')) /\ SetupFits(l)
  BY <1>0, <1>5 DEF NetAt
<1>7. ASSUME NEW k \in 1..Len(out'), out'[k].t = "STATE"
      PROVE  StateFits(l, out, wire, reading, k)'
  <2>1. k \in 1..n /\ out'[k] = out[k]
    BY <1>1, <1>7
  <2>2. StateFits(l, out, wire, reading, k)
    BY <1>0, <1>7, <1>n, <2>1 DEF NetAt
  <2>3. l.curr # NoCmd => \E j \in 1..Len(out') : j < k /\ IsAnswer(out'[j])
    BY <1>1, <1>n, <2>2 DEF StateFits
  <2>4. ASSUME NEW j \in 1..Len(out'), out'[j].t = "STATE" PROVE j = k
    <3>1. j \in 1..n /\ out'[j] = out[j]
      BY <1>1, <2>4
    <3> QED
      BY <1>n, <2>2, <2>4, <3>1 DEF StateFits
  <2>5. StillSo(l, out[k].v)
    BY <2>2 DEF StateFits
  <2>6. StillSo(l, out[k].v)'
    BY <1>0, <2>1, <2>5 DEF StillSo, IpReady
  <2> QED
    BY <1>0, <2>1, <2>2, <2>3, <2>4, <2>6 DEF StateFits
<1>8. \A k \in 1..Len(out') :
          /\ out'[k].t = "ANS" /\ out'[k].v = "SHUT_OK" => mip' = "INITIAL"
          /\ l.curr = Plain("CIPSHUT") /\ IsAnswer(out'[k]) =>
                 out'[k].v = "SHUT_OK"
  <2> SUFFICES ASSUME NEW k \in 1..Len(out'), IsAnswer(out'[k])
               PROVE  /\ out'[k].t = "ANS" /\ out'[k].v = "SHUT_OK" =>
                             mip' = "INITIAL"
                      /\ l.curr = Plain("CIPSHUT") => out'[k].v = "SHUT_OK"
    BY DEF IsAnswer
  <2>1. k \in 1..Len(out) /\ out'[k] = out[k]
    BY <1>1, <1>n
  <2> QED
    BY <1>0, <2>1 DEF NetAt
<1>9. l.curr = Plain("CIPSTATUS") /\ wire = <<>> => HasState(out')
  BY <1>0, <1>3 DEF NetAt
<1>10. /\ mip' # "PROCESSING"
       /\ \A i \in LinkIds : conn'[i] # "free" => mip' = "STATUS" /\ IpReady(l)
       /\ mip' = "START" => l.tciicr \/ (l.curr = Plain("CIICR") /\ HasOk(out'))
  BY <1>0, <1>4 DEF NetAt
<1>11. mip' = "STATUS" => IpReady(l) \/ Finds(l, out', wire, reading)
  <2> SUFFICES ASSUME mip' = "STATUS", ~IpReady(l)
               PROVE  Finds(l, out', wire, reading)
    OBVIOUS
  <2>1. Finds(l, out, wire, reading)
    BY <1>0 DEF NetAt
  <2> QED
    BY <2>1, <1>3 DEF Finds
<1>12. NetAt(l, out, wire, reading)'
  BY <1>0, <1>6, <1>7, <1>8, <1>9, <1>10, <1>11 DEF NetAt
<1> QED
  BY <1>0, <1>2, <1>12 DEF NetInv

LEMMA ConnectsNet == IInv /\ NetInv /\ Connects => NetInv'
<1> SUFFICES ASSUME IInv, NetInv, Connects PROVE NetInv'
  OBVIOUS
<1>1. PICK i \in LinkIds, v \in {"CONNECT_OK", "CONNECT_FAIL"} :
          /\ Say(<<Ln("LINK", i, v)>>) /\ conn[i] = "opening"
          /\ conn' = [conn EXCEPT ![i] = IF v = "CONNECT_OK" THEN "open"
                                         ELSE "free"]
  BY DEF Connects
<1>a. PICK a : a = Ln("LINK", i, v)
  OBVIOUS
<1>2. a \in Line /\ ~IsAnswer(a) /\ a.t \in {"LINK", "PDP"}
  BY <1>a, LnType DEF Ln, IsAnswer
<1>3. UNCHANGED <<l, reading, wire>> /\ mip' = mip
  BY DEF Connects
<1>4. conn \in [LinkIds -> {"free", "opening", "open"}]
  BY DEF IInv
<1>5. \A j \in LinkIds : conn'[j] # "free" => conn[j] # "free" /\ mip' = mip
  BY <1>1, <1>3, <1>4
<1>6. Say(<<a>>)
  BY <1>1, <1>a
<1> QED
  BY ONLY IInv, NetInv, <1>2, <1>3, <1>5, <1>6, ReportNet

LEMMA PeerClosesNet == IInv /\ NetInv /\ PeerCloses => NetInv'
<1> SUFFICES ASSUME IInv, NetInv, PeerCloses PROVE NetInv'
  OBVIOUS
<1>1. PICK i \in LinkIds : /\ Say(<<Ln("LINK", i, "CLOSED")>>)
                           /\ conn' = [conn EXCEPT ![i] = "free"]
  BY DEF PeerCloses
<1>a. PICK a : a = Ln("LINK", i, "CLOSED")
  OBVIOUS
<1>2. a \in Line /\ ~IsAnswer(a) /\ a.t \in {"LINK", "PDP"}
  BY <1>a, LnType DEF Ln, IsAnswer
<1>3. UNCHANGED <<l, reading, wire>> /\ mip' = mip
  BY DEF PeerCloses
<1>4. conn \in [LinkIds -> {"free", "opening", "open"}]
  BY DEF IInv
<1>5. \A j \in LinkIds : conn'[j] # "free" => conn[j] # "free" /\ mip' = mip
  BY <1>1, <1>3, <1>4
<1>6. Say(<<a>>)
  BY <1>1, <1>a
<1> QED
  BY ONLY IInv, NetInv, <1>2, <1>3, <1>5, <1>6, ReportNet

(* While the modem has a command, nothing is unread that link waits for.   *)
LEMMA AskedNet ==
    ASSUME NetInv, wire # <<>>
    PROVE  /\ wire = <<l.curr>> /\ l.curr # NoCmd
           /\ \A k \in 1..Len(out) :
                  ~IsAnswer(out[k]) /\ out[k].t # "STATE"
           /\ mip = "START" => l.tciicr
           /\ mip = "STATUS" => IpReady(l) \/ l.curr = Plain("CIPSTATUS")
           /\ \A i \in LinkIds : conn[i] # "free" => mip = "STATUS" /\ IpReady(l)
<1>0. /\ AnswersFit(out, wire, l.curr) /\ NetAt(l, out, wire, reading)
  BY DEF NetInv
<1>1. /\ wire = <<l.curr>> /\ l.curr # NoCmd
      /\ \A k \in 1..Len(out) : ~IsAnswer(out[k])
  BY <1>0 DEF AnswersFit
<1>2. \A k \in 1..Len(out) : out[k].t # "STATE"
  BY <1>0 DEF NetAt, StateFits
<1>3. ~HasState(out) /\ ~HasOk(out)
  BY <1>1, <1>2 DEF HasState, HasOk, IsAnswer
<1>4. mip = "START" => l.tciicr
  BY <1>0, <1>3 DEF NetAt
<1>5. mip = "STATUS" => IpReady(l) \/ l.curr = Plain("CIPSTATUS")
  BY <1>0, <1>1, <1>3 DEF NetAt, Finds
<1>6. \A i \in LinkIds : conn[i] # "free" => mip = "STATUS" /\ IpReady(l)
  BY <1>0 DEF NetAt
<1> QED
  BY <1>1, <1>2, <1>4, <1>5, <1>6

(* The modem answers in one line a command that does not ask for the state *)
(* of the network.                                                         *)
LEMMA OneLineNet ==
    ASSUME IInv, NetInv, UNCHANGED <<l, reading>>, wire # <<>>,
           wire' = Tail(wire), NEW c, c = Head(wire), c # Plain("CIPSTATUS"),
           NEW a \in Line, a.t # "STATE", IsAnswer(a), Answering(a, c),
           Say(<<a>>),
           c = Plain("CIPSHUT") => a.v = "SHUT_OK",
           a.t = "ANS" /\ a.v = "SHUT_OK" => mip' = "INITIAL",
           mip' # "PROCESSING",
           \A i \in LinkIds : conn'[i] # "free" => mip' = "STATUS" /\ IpReady(l),
           mip' = "START" =>
               l.tciicr \/ (c = Plain("CIICR") /\ a.t = "ANS" /\ a.v = "OK"),
           mip' = "STATUS" => IpReady(l) \/ c = Plain("CIFSR")
    PROVE  NetInv'
<1>n. PICK n : n = Len(out)
  OBVIOUS
<1>0. /\ out \in Seq(Line) /\ NetAt(l, out, wire, reading)
      /\ AnswersFit(out, wire, l.curr)
      /\ l' = l /\ reading' = reading
  BY DEF IInv, NetInv
<1>1. /\ wire = <<l.curr>> /\ l.curr # NoCmd
      /\ \A k \in 1..n : ~IsAnswer(out[k]) /\ out[k].t # "STATE"
  BY <1>n, AskedNet
<1>2. l.curr = c /\ wire' = <<>>
  BY <1>1
<1>l. PICK lines : lines = <<a>>
  OBVIOUS
<1>3. /\ lines \in Seq(Line) /\ Say(lines) /\ Len(lines) = 1 /\ lines[1] = a
      /\ lines # <<>>
  BY <1>l
<1>4. /\ \A k \in 1..n : k \in 1..Len(out') /\ out'[k] = out[k]
      /\ \A k \in 1..Len(out') : k \in 1..n \/ out'[k] = a
      /\ \E k \in 1..Len(out') : out'[k] = a
  <2>0. out \in Seq(Line) /\ lines \in Seq(Line) /\ Say(lines)
    BY <1>0, <1>3
  <2>1. /\ n \in Nat
        /\ \A k \in 1..n : k \in 1..Len(out') /\ out'[k] = out[k]
        /\ \A k \in 1..Len(lines) :
               n + k \in 1..Len(out') /\ out'[n + k] = lines[k]
        /\ \A k \in 1..Len(out') :
               k \in 1..n \/ \E m \in 1..Len(lines) : k = n + m
    BY ONLY <2>0, <1>n, SaidLines
  <2>2. \A m \in 1..Len(lines) : m = 1
    BY <1>3
  <2>3. 1 \in 1..Len(lines)
    BY <1>3
  <2>4. n + 1 \in 1..Len(out') /\ out'[n + 1] = a
    BY <1>3, <2>1, <2>3
  <2>5. \A k \in 1..Len(out') : k \in 1..n \/ k = n + 1
    BY <2>1, <2>2
  <2> QED
    BY <2>1, <2>4, <2>5
<1>5. AnswersFit(out', wire', l.curr)
  <2>1. \A k \in 1..Len(lines) : k # 1 => ~IsAnswer(lines[k])
    BY <1>3
  <2>2. Answering(lines[1], Head(wire))
    BY <1>3
  <2> QED
    BY ONLY IInv, <1>0, <1>3, <2>1, <2>2, wire # <<>>, wire' = Tail(wire),
       AnswerFits
<1>6. \A k \in 1..Len(out') : out'[k].t # "STATE"
  BY <1>1, <1>4
<1>7. ~HasState(out') /\ ~HasState(out)
  BY <1>1, <1>6, <1>n DEF HasState
<1>8. Hopes(l, out') = Hopes(l, out)
  BY <1>7 DEF Hopes
<1>9. NetFits(l, Hopes(l, out')) /\ SetupFits(l)
  BY <1>0, <1>8 DEF NetAt
<1>10. \A k \in 1..Len(out') :
          /\ out'[k].t = "ANS" /\ out'[k].v = "SHUT_OK" => mip' = "INITIAL"
          /\ l.curr = Plain("CIPSHUT") /\ IsAnswer(out'[k]) =>
                 out'[k].v = "SHUT_OK"
  BY <1>1, <1>2, <1>4 DEF IsAnswer
<1>11. a.t = "ANS" /\ a.v = "OK" => HasOk(out')
  BY <1>4 DEF HasOk
<1>12. mip' = "START" => l.tciicr \/ (l.curr = Plain("CIICR") /\ HasOk(out'))
  BY <1>2, <1>11
<1>13. mip' = "STATUS" => IpReady(l) \/ Finds(l, out', wire', reading)
  BY <1>2 DEF Finds
<1>14. NetAt(l, out, wire, reading)'
  BY <1>0, <1>2, <1>6, <1>9, <1>10, <1>12, <1>13 DEF NetAt
<1> QED
  BY <1>0, <1>5, <1>14 DEF NetInv

(* ... or a command that does *)
LEMMA StatusNet ==
    ASSUME IInv, NetInv, UNCHANGED <<l, reading, conn>>, wire # <<>>,
           wire' = Tail(wire), Head(wire) = Plain("CIPSTATUS"),
           mip' \in {mip} \union (IF mip = "START" THEN {"GPRSACT"} ELSE {}),
           NEW i \in LinkIds,
           Say(<<Ln("ANS", i, "OK"), Ln("STATE", i, Report)>>)
    PROVE  NetInv'
<1>n. PICK n : n = Len(out)
  OBVIOUS
<1>v. PICK v : v = Report
  OBVIOUS
<1>a. PICK a : a = Ln("ANS", i, "OK")
  OBVIOUS
<1>b. PICK b : b = Ln("STATE", i, v)
  OBVIOUS
<1>l. PICK lines : lines = <<a, b>>
  OBVIOUS
<1>0. /\ out \in Seq(Line) /\ NetAt(l, out, wire, reading)
      /\ AnswersFit(out, wire, l.curr) /\ mip \in IpStates
      /\ l' = l /\ reading' = reading /\ conn' = conn
  BY DEF IInv, NetInv
<1>1. /\ wire = <<l.curr>> /\ l.curr # NoCmd
      /\ \A k \in 1..n : ~IsAnswer(out[k]) /\ out[k].t # "STATE"
      /\ mip = "START" => l.tciicr
      /\ \A j \in LinkIds : conn[j] # "free" => mip = "STATUS" /\ IpReady(l)
  BY <1>n, AskedNet
<1>2. l.curr = Plain("CIPSTATUS") /\ wire' = <<>>
  BY <1>1
<1>3. mip # "PROCESSING"
  BY <1>0 DEF NetAt
<1>4. mip' = mip \/ (mip = "START" /\ mip' = "GPRSACT")
  OBVIOUS
<1>5. v \in IpStates
  BY <1>0, <1>4, <1>v DEF Report, IpStates
<1>6. StillSo(l, v)'
  <2>1. CASE mip' = "STATUS" /\ \E j \in LinkIds : conn[j] # "free"
    <3>1. v = "PROCESSING" /\ IpReady(l)
      BY <1>1, <1>v, <2>1 DEF Report
    <3> QED
      BY <3>1, <1>0 DEF StillSo, IpReady
  <2>2. CASE ~(mip' = "STATUS" /\ \E j \in LinkIds : conn[j] # "free")
    <3>1. v = mip' /\ mip' # "PROCESSING"
      BY <1>3, <1>4, <1>v, <2>2 DEF Report
    <3> QED
      BY <3>1 DEF StillSo
  <2> QED
    BY <2>1, <2>2
<1>7. /\ a \in Line /\ a.t = "ANS" /\ a.v = "OK"
      /\ b \in Line /\ b.t = "STATE" /\ b.v = v
  BY <1>5, <1>a, <1>b, LnType DEF Ln
<1>8. /\ lines \in Seq(Line) /\ Say(lines) /\ Len(lines) = 2 /\ lines # <<>>
      /\ lines[1] = a /\ lines[2] = b
  BY <1>7, <1>a, <1>b, <1>l, <1>v
<1>9. /\ n \in Nat
      /\ \A k \in 1..n : k \in 1..Len(out') /\ out'[k] = out[k]
      /\ n + 1 \in 1..Len(out') /\ out'[n + 1] = a
      /\ n + 2 \in 1..Len(out') /\ out'[n + 2] = b
      /\ \A k \in 1..Len(out') : k \in 1..n \/ k = n + 1 \/ k = n + 2
  <2>1. /\ n \in Nat
        /\ \A k \in 1..n : k \in 1..Len(out') /\ out'[k] = out[k]
        /\ \A k \in 1..Len(lines) :
               n + k \in 1..Len(out') /\ out'[n + k] = lines[k]
        /\ \A k \in 1..Len(out') :
               k \in 1..n \/ \E m \in 1..Len(lines) : k = n + m
    BY <1>0, <1>8, <1>n, SaidLines
  <2>2. 1 \in 1..Len(lines) /\ 2 \in 1..Len(lines)
    BY <1>8
  <2>3. \A m \in 1..Len(lines) : m = 1 \/ m = 2
    BY <1>8
  <2> QED
    BY <1>8, <2>1, <2>2, <2>3
<1>10. ~IsAnswer(b) /\ IsAnswer(a)
  BY <1>7 DEF IsAnswer
<1>11. AnswersFit(out', wire', l.curr)
  <2>1. \A k \in 1..Len(lines) : k # 1 => ~IsAnswer(lines[k])
    BY <1>8, <1>10
  <2>2. Answering(lines[1], Head(wire))
    BY <1>1, <1>7, <1>8 DEF Answering
  <2> QED
    BY ONLY IInv, <1>0, <1>8, <2>1, <2>2, wire # <<>>, wire' = Tail(wire),
       AnswerFits
<1>12. \A k \in 1..Len(out') : out'[k].t = "STATE" => k = n + 2
  BY <1>1, <1>7, <1>9
<1>13. HasState(out')
  BY <1>7, <1>9 DEF HasState
<1>14. Hopes(l, out) = Hopes(l, out')
  BY <1>2 DEF Hopes
<1>15. NetFits(l, Hopes(l, out')) /\ SetupFits(l)
  BY <1>0, <1>14 DEF NetAt
<1>16. ASSUME NEW k \in 1..Len(out'), out'[k].t = "STATE"
       PROVE  StateFits(l, out, wire, reading, k)'
  <2>1. k = n + 2 /\ out'[k].v = v
    BY <1>7, <1>9, <1>12, <1>16
  <2>2. \E j \in 1..Len(out') : j < k /\ IsAnswer(out'[j])
    <3>1. n + 1 < k
      BY <1>9, <2>1
    <3> QED
      BY <3>1, <1>9, <1>10
  <2> QED
    BY <1>0, <1>2, <1>6, <1>12, <2>1, <2>2 DEF StateFits
<1>17. \A k \in 1..Len(out') : ~(out'[k].t = "ANS" /\ out'[k].v = "SHUT_OK")
  BY <1>1, <1>7, <1>9 DEF IsAnswer
<1>18. Plain("CIPSTATUS") # Plain("CIPSHUT")
  BY DEF Plain
<1>19. /\ mip' # "PROCESSING"
       /\ mip' = "START" => l.tciicr
       /\ \A j \in LinkIds : conn[j] # "free" => mip' = "STATUS" /\ IpReady(l)
  BY <1>1, <1>3, <1>4
<1>20. NetAt(l, out, wire, reading)'
  BY <1>0, <1>2, <1>13, <1>15, <1>16, <1>17, <1>18, <1>19 DEF NetAt, Finds
<1> QED
  BY <1>0, <1>11, <1>20 DEF NetInv

LEMMA PdpDeactNet == IInv /\ NetInv /\ PdpDeact => NetInv'
<1> SUFFICES ASSUME IInv, NetInv, PdpDeact PROVE NetInv'
  OBVIOUS
<1>1. /\ UNCHANGED <<l, reading>> /\ mip \in {"GPRSACT", "STATUS"}
      /\ mip' = "DEACT" /\ \A i \in LinkIds : conn'[i] = "free"
  BY DEF PdpDeact, AllFree
<1>2. CASE Say(<<Ln("PDP", 0, "PDP_DEACT")>>) /\ UNCHANGED wire
  <2>a. PICK a : a = Ln("PDP", 0, "PDP_DEACT")
    OBVIOUS
  <2>1. a \in Line /\ ~IsAnswer(a) /\ a.t \in {"LINK", "PDP"}
    BY <2>a, LinkZero, LnType DEF Ln, IsAnswer
  <2>2. Say(<<a>>) /\ UNCHANGED <<l, reading, wire>>
    BY <1>1, <1>2, <2>a
  <2> QED
    BY ONLY IInv, NetInv, <1>1, <2>1, <2>2, ReportNet
<1>3. CASE /\ wire # <<>>
           /\ Head(wire).verb \in {"CIPSEND"} \union
                                IF "deact" \in Habits THEN {"CIPCLOSE"} ELSE {}
           /\ Say(<<Ln("ANS", 0, "PDP_DEACT")>>) /\ wire' = Tail(wire)
  <2>a. PICK a : a = Ln("ANS", 0, "PDP_DEACT")
    OBVIOUS
  <2>c. PICK c : c = Head(wire)
    OBVIOUS
  <2>1. a \in Line /\ a.t = "ANS" /\ a.v = "PDP_DEACT" /\ IsAnswer(a)
    BY <2>a, LinkZero, LnType DEF Ln, IsAnswer
  <2>2. c.verb = "CIPSEND" \/ (c.verb = "CIPCLOSE" /\ "deact" \in Habits)
    BY <1>3, <2>c
  <2>3. c \notin {NoCmd, Plain("CIPSTATUS"), Plain("CIPSHUT")}
    BY <2>2 DEF NoCmd, Plain
  <2>4. Answering(a, c)
    BY <2>1, <2>2, <2>3 DEF Answering
  <2>5. Say(<<a>>) /\ wire # <<>> /\ wire' = Tail(wire)
    BY <1>3, <2>a
  <2> QED
    BY ONLY IInv, NetInv, <1>1, <2>1, <2>3, <2>4, <2>5, <2>c, OneLineNet
<1> QED
  BY <1>2, <1>3 DEF PdpDeact

LEMMA ExecuteNet == Obedient /\ IInv /\ NetInv /\ Execute => NetInv'
<1> SUFFICES ASSUME Obedient, IInv, NetInv, Execute PROVE NetInv'
  OBVIOUS
<1>c. PICK c : c = Head(wire)
  OBVIOUS
<1>i. PICK i : i = c.id
  OBVIOUS
<1>1. /\ wire # <<>> /\ wire \in Seq(Command) /\ wire' = Tail(wire)
      /\ UNCHANGED <<l, reading>> /\ mip # "PROCESSING"
      /\ conn \in [LinkIds -> {"free", "opening", "open"}]
  BY DEF IInv, Execute, NetInv, NetAt
<1>2. /\ c \in Command /\ i \in LinkIds /\ c # NoCmd /\ c = Cmd(c.verb, i)
      /\ c.verb \notin SocketVerbs => c = Plain(c.verb)
  <2>1. c \in Command
    BY <1>1, <1>c, TailType
  <2> QED
    BY <2>1, <1>i DEF Command, SocketVerbs, Verbs, NoCmd, Cmd, Plain
<1>3. /\ mip = "START" => l.tciicr
      /\ mip = "STATUS" => IpReady(l) \/ c = Plain("CIPSTATUS")
      /\ \A j \in LinkIds : conn[j] # "free" => mip = "STATUS" /\ IpReady(l)
  <2>1. c = l.curr
    BY <1>1, <1>c, AskedNet
  <2> QED
    BY <1>1, <2>1, AskedNet
<1>ok. PICK ok : ok = Ln("ANS", i, "OK")
  OBVIOUS
<1>error. PICK error : error = Ln("ANS", i, "ERROR")
  OBVIOUS
<1>4. /\ ok \in Line /\ ok.t = "ANS" /\ ok.v = "OK" /\ Answering(ok, c)
      /\ error \in Line /\ error.t = "ANS" /\ error.v = "ERROR"
      /\ Answering(error, c)
  <2>1. /\ ok \in Line /\ ok.t = "ANS" /\ ok.v = "OK"
        /\ error \in Line /\ error.t = "ANS" /\ error.v = "ERROR"
    BY <1>2, <1>ok, <1>error, LnType DEF Ln
  <2> QED
    BY <2>1, <1>2 DEF Answering
<1>5. ASSUME c.verb \notin {"CIPSTATUS", "CIPSHUT"}, NEW a \in Line,
             IsAnswer(a), Answering(a, c), Say(<<a>>), mip' # "PROCESSING",
             a.v # "SHUT_OK",
             \A j \in LinkIds :
                 conn'[j] # "free" => mip' = "STATUS" /\ IpReady(l),
             mip' = "START" =>
                 l.tciicr \/ (c = Plain("CIICR") /\ a.t = "ANS" /\ a.v = "OK"),
             mip' = "STATUS" => IpReady(l) \/ c = Plain("CIFSR")
      PROVE  NetInv'
  <2>1. c # Plain("CIPSTATUS") /\ c # Plain("CIPSHUT")
    BY <1>5 DEF Plain
  <2>2. a.t # "STATE"
    BY <1>5 DEF IsAnswer
  <2> QED
    BY ONLY IInv, NetInv, <1>1, <1>c, <1>5, <2>1, <2>2, OneLineNet
<1>6. ASSUME c.verb \notin {"CIPSTATUS", "CIPSHUT"}, NEW a \in Line,
             IsAnswer(a), Answering(a, c), Say(<<a>>), UNCHANGED mip,
             a.v # "SHUT_OK", \A j \in LinkIds :
                 conn'[j] # "free" => mip = "STATUS" /\ IpReady(l)
      PROVE  NetInv'
  <2>1. c # Plain("CIPSTATUS")
    BY <1>6 DEF Plain
  <2> QED
    BY <1>1, <1>3, <1>5, <1>6, <2>1
<1>7. CASE /\ c.verb = "CIPSTART" /\ mip = "STATUS" /\ Say(<<ok>>)
           /\ conn' = [conn EXCEPT ![i] = "opening"] /\ UNCHANGED mip
  <2>1. c # Plain("CIPSTATUS")
    BY <1>7 DEF Plain
  <2>2. mip = "STATUS" /\ IpReady(l)
    BY <1>3, <1>7, <2>1
  <2> QED
    BY <1>4, <1>6, <1>7, <2>2 DEF IsAnswer
<1>8. CASE /\ c.verb \in {"CIPSTART", "CIICR", "CIPSEND"}
           /\ Say(<<error>>) /\ UNCHANGED <<mip, conn>>
  BY <1>3, <1>4, <1>6, <1>8 DEF IsAnswer
<1>9. ASSUME NEW v \in {"SEND_OK", "SEND_FAIL"}, c.verb = "CIPSEND",
             Say(<<Ln("LINK", i, v)>>), UNCHANGED <<mip, conn>>
      PROVE  NetInv'
  <2>a. PICK a : a = Ln("LINK", i, v)
    OBVIOUS
  <2>1. a \in Line /\ a.t = "LINK" /\ a.id = i /\ a.v = v
    BY <2>a, <1>2, LnType DEF Ln
  <2>2. Answering(a, c) /\ IsAnswer(a) /\ a.v # "SHUT_OK"
    BY <2>1, <1>2, <1>9 DEF Answering, IsAnswer
  <2>3. Say(<<a>>)
    BY <1>9, <2>a
  <2> QED
    BY <1>3, <1>6, <1>9, <2>1, <2>2, <2>3
<1>10. CASE /\ c.verb = "CIPCLOSE" /\ Say(<<Ln("LINK", i, "CLOSE_OK")>>)
            /\ conn' = [conn EXCEPT ![i] = "free"] /\ UNCHANGED mip
  <2>a. PICK a : a = Ln("LINK", i, "CLOSE_OK")
    OBVIOUS
  <2>1. a \in Line /\ a.t = "LINK" /\ a.id = i /\ a.v = "CLOSE_OK"
    BY <2>a, <1>2, LnType DEF Ln
  <2>2. Answering(a, c) /\ IsAnswer(a)
    BY <2>1, <1>2, <1>10 DEF Answering, IsAnswer
  <2>3. Say(<<a>>)
    BY <1>10, <2>a
  <2>4. \A j \in LinkIds : conn'[j] # "free" => conn[j] # "free"
    BY <1>1, <1>10
  <2> QED
    BY <1>3, <1>6, <1>10, <2>1, <2>2, <2>3, <2>4
<1>11. CASE /\ c.verb = "CIPCLOSE" /\ Say(<<error>>)
            /\ conn' = [conn EXCEPT ![i] = "free"] /\ UNCHANGED mip
  <2>1. \A j \in LinkIds : conn'[j] # "free" => conn[j] # "free"
    BY <1>1, <1>11
  <2> QED
    BY <1>3, <1>4, <1>6, <1>11, <2>1 DEF IsAnswer
<1>12. CASE /\ c.verb = "CIPSHUT" /\ Say(<<Ln("ANS", i, "SHUT_OK")>>)
            /\ mip' = "INITIAL" /\ conn' = AllFree
  <2>a. PICK a : a = Ln("ANS", i, "SHUT_OK")
    OBVIOUS
  <2>1. a \in Line /\ a.t = "ANS" /\ a.v = "SHUT_OK"
    BY <2>a, <1>2, LnType DEF Ln
  <2>2. c = Plain("CIPSHUT") /\ c # Plain("CIPSTATUS")
    BY <1>2, <1>12 DEF Plain, SocketVerbs
  <2>3. Answering(a, c) /\ IsAnswer(a)
    BY <2>1, <2>2, <1>2 DEF Answering, IsAnswer
  <2>4. Say(<<a>>) /\ mip' = "INITIAL"
    BY <1>12, <2>a
  <2>5. \A j \in LinkIds : conn'[j] = "free"
    BY <1>12 DEF AllFree
  <2> QED
    BY ONLY IInv, NetInv, <1>1, <1>c, <2>1, <2>2, <2>3, <2>4, <2>5, OneLineNet
<1>13. CASE /\ c.verb = "CIPSTATUS"
            /\ mip' \in {mip} \union (IF mip = "START" THEN {"GPRSACT"} ELSE {})
            /\ Say(<<Ln("ANS", i, "OK"), Ln("STATE", i, Report)>>)
            /\ UNCHANGED conn
  <2>1. Head(wire) = Plain("CIPSTATUS")
    BY <1>2, <1>13, <1>c DEF SocketVerbs
  <2>2. UNCHANGED <<l, reading, conn>>
    BY <1>1, <1>13
  <2> QED
    BY ONLY IInv, NetInv, <1>1, <1>2, <1>13, <2>1, <2>2, StatusNet
<1>14. CASE /\ c.verb = "CIICR" /\ mip = "INITIAL" /\ Say(<<ok>>)
            /\ mip' = "START" /\ UNCHANGED conn
  <2>1. c = Plain("CIICR")
    BY <1>2, <1>14 DEF SocketVerbs
  <2>2. \A j \in LinkIds : conn'[j] = "free"
    BY <1>3, <1>14
  <2> QED
    BY <1>4, <1>5, <1>14, <2>1, <2>2 DEF IsAnswer
<1>15. CASE /\ c.verb = "CIFSR" /\ Say(<<ok>>) /\ UNCHANGED conn
            /\ mip' = IF mip = "GPRSACT" THEN "STATUS" ELSE mip
  <2>1. c = Plain("CIFSR")
    BY <1>2, <1>15 DEF SocketVerbs
  <2>2. \A j \in LinkIds : conn'[j] # "free" => mip' = "STATUS" /\ IpReady(l)
    BY <1>3, <1>15
  <2> QED
    BY <1>1, <1>3, <1>4, <1>5, <1>15, <2>1, <2>2 DEF IsAnswer
<1> QED
  BY <1>7, <1>8, <1>9, <1>10, <1>11, <1>12, <1>13, <1>14, <1>15,
     <1>c, <1>i, <1>ok, <1>error DEF Execute, Obedient

LEMMA StutterNet == NetInv /\ UNCHANGED vars => NetInv'
BY DEF NetInv, NetAt, StateFits, StillSo, vars

LEMMA NextNet == Obedient /\ IInv /\ NetInv /\ [Next]_vars => NetInv'
BY OwnerCallsNet, LocalEventNet, ReadLineNet, TimersNet, RestartNet,
   CgattRspNet, FlyModeNet, HoldNet, ExecuteNet, ConnectsNet,
   PeerClosesNet, PdpDeactNet, StutterNet DEF Next

LEMMA NetHolds == IInv /\ NetInv => PendingWillGo
<1> SUFFICES ASSUME IInv, NetInv, NEW i \in LinkIds,
                    l.state[i] = "CONNECTING", l.pending[i],
                    ~l.flymode, l.cgatt
             PROVE  l.tsetup \/ l.tciicr \/ Asked \/ WillShut
  BY DEF PendingWillGo
<1>0. /\ l \in LinkRecord /\ l.queue \in Seq(Command) /\ out \in Seq(Line)
      /\ l.ip \in IpStates
  BY DEF IInv, Fits, LinkRecord
<1>e. PICK e : e = Hopes(l, out)
  OBVIOUS
<1>1. NetFits(l, e) /\ SetupFits(l)
  BY <1>e DEF NetInv, NetAt
<1>2. \A v : Cmd(v, 0) = Plain(v)
  BY DEF Cmd, Plain
<1>3. ASSUME NEW v, l.curr = Plain(v) \/ Has(l.queue, Plain(v))
      PROVE  Underway(v, 0)
  <2>1. Has(l.queue, Plain(v)) => Plain(v) \in ToSet(l.queue)
    BY <1>0, InSeq
  <2> QED
    BY <1>2, <1>3, <2>1 DEF Underway
<1>4. ASSUME ToldWill(l, e) PROVE Asked
  <2>1. CASE HasState(out)
    <3>1. \E line \in ToSet(out) : line.t = "STATE"
      BY <2>1 DEF HasState, ToSet
    <3> QED
      BY <3>1 DEF Asked, Unread
  <2>2. CASE l.curr = Plain("CIPSTATUS") \/ Has(l.queue, Plain("CIPSTATUS"))
    BY <1>3, <2>2 DEF Asked
  <2> QED
    BY <1>4, <1>e, <2>1, <2>2 DEF ToldWill, Hopes
<1>5. ASSUME ShutWill(l, e) PROVE WillShut
  BY <1>3, <1>5, <1>e DEF ShutWill, Hopes, WillShut
<1>6. CASE l.ip = "INITIAL"
  BY <1>1, <1>6 DEF SetupFits, Sockets
<1>7. CASE l.ip \in {"START", "GPRSACT"}
  BY <1>1, <1>4, <1>7 DEF NetFits
<1>8. CASE l.ip = "DEACT"
  BY <1>1, <1>5, <1>8 DEF NetFits
<1>9. CASE l.ip \in {"STATUS", "PROCESSING"}
  BY <1>1, <1>5, <1>9 DEF NetFits, IpReady
<1> QED
  BY <1>0, <1>6, <1>7, <1>8, <1>9 DEF IpStates

(* When no report is taken for an answer and no AT+CIPSHUT fails, a        *)
(* connect that waits for the network is not forgotten: whatever the       *)
(* owners call, the network is set up, asked for its state or shut, or the *)
(* restart timer of AT+CIICR runs, as long as the modem is attached and    *)
(* not in flight mode.                                                     *)
THEOREM PendingConnectsGo == Obedient => (Spec => []PendingWillGo)
<1>1. Init => NetInv
  BY NetInit
<1>2. Obedient /\ IInv /\ NetInv /\ [Next]_vars => NetInv'
  BY NextNet
<1>3. IInv /\ NetInv => PendingWillGo
  BY NetHolds
<1>4. SUFFICES ASSUME Obedient PROVE Spec => []PendingWillGo
  OBVIOUS
<1>5. IInv /\ NetInv /\ [Next]_vars => NetInv'
  BY <1>2, <1>4
<1> QED
  BY <1>1, <1>3, <1>5, IInvHolds, PTL DEF Spec
=============================================================================
