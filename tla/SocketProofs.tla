---------------------------- MODULE SocketProofs ----------------------------
(***************************************************************************)
(* Proofs about Socket for any number of items, calls and events, and      *)
(* programs that keep out of every one of the Habits.                      *)
(*                                                                         *)
(* What ties an answer to sndingitem is the order of the commands: there   *)
(* is one AT+CIPSEND at most, nothing but AT+CIPCLOSE follows an           *)
(* AT+CIPSTART, and an AT+CIPSTART without an answer means that no         *)
(* connection exists.  Sound says so of a state t of the module with the   *)
(* connection k; each function is shown to lead from Sound to Sound, and   *)
(* to tell results only of items that had none (TellsOnce).                *)
(***************************************************************************)
EXTENDS Socket, SequenceTheorems, FiniteSetTheorems, TLAPS

Commands ==
    {Cmd("CIPSTART", NoItem), Cmd("CIPCLOSE", NoItem)}
        \union {Cmd("CIPSEND", i) : i \in 1..MaxItems}

States == [
    exists     : BOOLEAN,
    state      : LinkStates,
    sndpending : Seq(1..MaxItems),
    sndingitem : 0..MaxItems,
    local      : BOOLEAN,
    cmds       : Seq(Commands),
    sent       : 0..MaxItems,
    told       : [1..MaxItems -> {"no", "ok", "failed"}],
    taken      : [1..MaxItems -> BOOLEAN] ]

Conns == {"free", "opening", "open"}

Has(q, v) == \E a \in 1..Len(q) : q[a].verb = v

(* The commands q that have no answer, it being the item under way *)
CommandsFit(q, it) ==
    /\ \A a \in 1..Len(q) :
         q[a].verb = "CIPSEND" => q[a].item = it /\ it # NoItem
    /\ it # NoItem => Has(q, "CIPSEND")
    /\ \A a, b \in 1..Len(q) : a < b =>
         /\ q[a].verb = "CIPSEND" => q[b].verb # "CIPSEND"
         /\ q[a].verb = "CIPSTART" => q[b].verb = "CIPCLOSE"
         /\ q[b].verb = "CIPSTART" => q[a].verb = "CIPSEND"

(* p waits, it is under way, n items were sent *)
BufferFits(p, it, n, told) ==
    /\ \A a \in 1..Len(p) : p[a] \in 1..n /\ p[a] # it
    /\ \A a, b \in 1..Len(p) : a # b => p[a] # p[b]
    /\ it \in 0..n
    /\ \A i \in 1..MaxItems :
         told[i] = "no" <=> i > n \/ i = it \/ \E a \in 1..Len(p) : p[a] = i

Undone == {"CONNECTING", "DISCONNECTING", "CLOSING"}

(* The state st of the link, its local event lc, and the connection k *)
LinkFits(q, st, it, lc, k) ==
    /\ Has(q, "CIPSTART") => k = "free" /\ st \in Undone
    /\ k = "opening" => st \in Undone /\ ~Has(q, "CIPSEND")
    /\ k = "open" => st \in {"CONNECTED", "DISCONNECTING", "CLOSING"}
    /\ lc => k = "free" /\ st \in Undone /\ it = NoItem /\ ~Has(q, "CIPSTART")

Empty(t) == t.sndpending = <<>> /\ t.sndingitem = NoItem

Sound(t, k) ==
    /\ t \in States /\ k \in Conns
    /\ t.exists = (t.state # "NIL_LINK")
    /\ CommandsFit(t.cmds, t.sndingitem)
    /\ BufferFits(t.sndpending, t.sndingitem, t.sent, t.told)
    /\ LinkFits(t.cmds, t.state, t.sndingitem, t.local, k)
    /\ t.state \in {"CLOSING", "NIL_LINK"} => Empty(t)
    /\ \A i \in 1..MaxItems : (t.told[i] = "ok") = t.taken[i]

IInv == Sound(s, conn)
----------------------------------------------------------------------------
(* The commands *)

LEMMA CommandFields ==
    ASSUME NEW c \in Commands
    PROVE  /\ c.verb \in {"CIPSTART", "CIPCLOSE", "CIPSEND"}
           /\ c.verb = "CIPSEND" => c.item \in 1..MaxItems
           /\ c.verb = "CIPCLOSE" <=> c = Cmd("CIPCLOSE", NoItem)
           /\ c.verb = "CIPSTART" <=> c = Cmd("CIPSTART", NoItem)
BY DEF Commands, Cmd, NoItem

(* What Crosses looks for is a command with that verb, and so for the      *)
(* guard of NetworkShuts.                                                  *)
LEMMA HasInSet ==
    ASSUME NEW q \in Seq(Commands)
    PROVE  /\ Cmd("CIPCLOSE", NoItem) \in ToSet(q) <=> Has(q, "CIPCLOSE")
           /\ Cmd("CIPSTART", NoItem) \in ToSet(q) <=> Has(q, "CIPSTART")
<1>1. DOMAIN q = 1..Len(q) /\ \A a \in 1..Len(q) : q[a] \in Commands
  OBVIOUS
<1>2. \A a \in 1..Len(q) :
        /\ q[a].verb = "CIPCLOSE" <=> q[a] = Cmd("CIPCLOSE", NoItem)
        /\ q[a].verb = "CIPSTART" <=> q[a] = Cmd("CIPSTART", NoItem)
  BY <1>1, CommandFields
<1> QED
  BY <1>1, <1>2 DEF ToSet, Has

(* What Append(q, c) holds *)
LEMMA AppendHas ==
    ASSUME NEW q \in Seq(Commands), NEW c \in Commands
    PROVE  /\ Append(q, c) \in Seq(Commands)
           /\ Len(Append(q, c)) = Len(q) + 1
           /\ \A a \in 1..Len(q) : Append(q, c)[a] = q[a]
           /\ Append(q, c)[Len(q) + 1] = c
           /\ \A v : Has(Append(q, c), v) <=> Has(q, v) \/ v = c.verb
<1> DEFINE r == Append(q, c)
<1>1. /\ r \in Seq(Commands) /\ Len(r) = Len(q) + 1 /\ Len(q) \in Nat
      /\ \A a \in 1..Len(q) : r[a] = q[a]
      /\ r[Len(q) + 1] = c
  BY AppendProperties
<1> HIDE DEF r
<1>2. ASSUME NEW v PROVE Has(r, v) <=> Has(q, v) \/ v = c.verb
  <2>1. Has(q, v) => Has(r, v)
    BY <1>1 DEF Has
  <2>2. v = c.verb => Has(r, v)
    BY <1>1 DEF Has
  <2>3. ASSUME Has(r, v), ~Has(q, v) PROVE v = c.verb
    <3>1. PICK a \in 1..Len(q) + 1 : r[a].verb = v
      BY <2>3, <1>1 DEF Has
    <3>2. a \notin 1..Len(q)
      BY <2>3, <3>1, <1>1 DEF Has
    <3> QED
      BY <3>1, <3>2, <1>1
  <2> QED
    BY <2>1, <2>2, <2>3
<1> QED
  BY <1>1, <1>2 DEF r

LEMMA AppendStart ==
    ASSUME NEW q \in Seq(Commands), NEW it, CommandsFit(q, it),
           ~Has(q, "CIPSTART"), ~Has(q, "CIPCLOSE")
    PROVE  CommandsFit(Append(q, Cmd("CIPSTART", NoItem)), it)
<1> DEFINE c == Cmd("CIPSTART", NoItem)
           r == Append(q, c)
<1>0. c \in Commands /\ c.verb = "CIPSTART"
  BY DEF Commands, Cmd
<1>1. /\ Len(r) = Len(q) + 1 /\ Len(q) \in Nat
      /\ \A a \in 1..Len(q) : r[a] = q[a]
      /\ r[Len(q) + 1] = c
      /\ Has(q, "CIPSEND") => Has(r, "CIPSEND")
  BY <1>0, AppendHas
<1>2. \A a \in 1..Len(q) : q[a].verb = "CIPSEND"
  <2> SUFFICES ASSUME NEW a \in 1..Len(q) PROVE q[a].verb = "CIPSEND"
    OBVIOUS
  <2>1. q[a].verb \in {"CIPSTART", "CIPCLOSE", "CIPSEND"}
    BY CommandFields
  <2> QED
    BY <2>1 DEF Has
<1> HIDE DEF r, c
<1>3. \A a \in 1..Len(r) : a \in 1..Len(q) \/ a = Len(q) + 1
  BY <1>1
<1>4. \A a \in 1..Len(r) : r[a].verb = "CIPSEND" => r[a].item = it /\ it # NoItem
  BY <1>0, <1>1, <1>3 DEF CommandsFit
<1>5. ASSUME NEW a \in 1..Len(r), NEW b \in 1..Len(r), a < b
      PROVE  /\ r[a].verb = "CIPSEND" => r[b].verb # "CIPSEND"
             /\ r[a].verb = "CIPSTART" => r[b].verb = "CIPCLOSE"
             /\ r[b].verb = "CIPSTART" => r[a].verb = "CIPSEND"
  <2>1. a \in 1..Len(q) /\ r[a].verb = "CIPSEND"
    BY <1>1, <1>2, <1>5
  <2>2. CASE b \in 1..Len(q)
    BY <2>1, <2>2, <1>1, <1>2, <1>5 DEF CommandsFit
  <2>3. CASE b = Len(q) + 1
    BY <2>1, <2>3, <1>0, <1>1
  <2> QED
    BY <2>2, <2>3, <1>3
<1> QED
  BY <1>1, <1>4, <1>5 DEF CommandsFit, r, c

LEMMA AppendClose ==
    ASSUME NEW q \in Seq(Commands), NEW it, CommandsFit(q, it)
    PROVE  CommandsFit(Append(q, Cmd("CIPCLOSE", NoItem)), it)
<1> DEFINE c == Cmd("CIPCLOSE", NoItem)
           r == Append(q, c)
<1>0. c \in Commands /\ c.verb = "CIPCLOSE"
  BY DEF Commands, Cmd
<1>1. /\ Len(r) = Len(q) + 1 /\ Len(q) \in Nat
      /\ \A a \in 1..Len(q) : r[a] = q[a]
      /\ r[Len(q) + 1] = c
      /\ Has(q, "CIPSEND") => Has(r, "CIPSEND")
  BY <1>0, AppendHas
<1> HIDE DEF r, c
<1>3. \A a \in 1..Len(r) : a \in 1..Len(q) \/ a = Len(q) + 1
  BY <1>1
<1>4. \A a \in 1..Len(r) : r[a].verb = "CIPSEND" => r[a].item = it /\ it # NoItem
  BY <1>0, <1>1, <1>3 DEF CommandsFit
<1>5. ASSUME NEW a \in 1..Len(r), NEW b \in 1..Len(r), a < b
      PROVE  /\ r[a].verb = "CIPSEND" => r[b].verb # "CIPSEND"
             /\ r[a].verb = "CIPSTART" => r[b].verb = "CIPCLOSE"
             /\ r[b].verb = "CIPSTART" => r[a].verb = "CIPSEND"
  <2>1. a \in 1..Len(q)
    BY <1>1, <1>5
  <2>2. CASE b \in 1..Len(q)
    BY <2>1, <2>2, <1>1, <1>5 DEF CommandsFit
  <2>3. CASE b = Len(q) + 1
    BY <2>1, <2>3, <1>0, <1>1
  <2> QED
    BY <2>2, <2>3, <1>3
<1> QED
  BY <1>1, <1>4, <1>5 DEF CommandsFit, r, c

LEMMA AppendSend ==
    ASSUME NEW q \in Seq(Commands), CommandsFit(q, NoItem),
           ~Has(q, "CIPSTART"), NEW i \in 1..MaxItems
    PROVE  CommandsFit(Append(q, Cmd("CIPSEND", i)), i)
<1> DEFINE c == Cmd("CIPSEND", i)
           r == Append(q, c)
<1>0. c \in Commands /\ c.verb = "CIPSEND" /\ c.item = i /\ i # NoItem
  BY DEF Commands, Cmd, NoItem
<1>1. /\ Len(r) = Len(q) + 1 /\ Len(q) \in Nat
      /\ \A a \in 1..Len(q) : r[a] = q[a]
      /\ r[Len(q) + 1] = c
      /\ Has(r, "CIPSEND")
  BY <1>0, AppendHas
<1>2. \A a \in 1..Len(q) : q[a].verb \notin {"CIPSTART", "CIPSEND"}
  BY DEF CommandsFit, Has
<1> HIDE DEF r, c
<1>3. \A a \in 1..Len(r) : a \in 1..Len(q) \/ a = Len(q) + 1
  BY <1>1
<1>4. \A a \in 1..Len(r) : r[a].verb = "CIPSEND" => r[a].item = i /\ i # NoItem
  BY <1>0, <1>1, <1>2, <1>3
<1>5. ASSUME NEW a \in 1..Len(r), NEW b \in 1..Len(r), a < b
      PROVE  /\ r[a].verb = "CIPSEND" => r[b].verb # "CIPSEND"
             /\ r[a].verb = "CIPSTART" => r[b].verb = "CIPCLOSE"
             /\ r[b].verb = "CIPSTART" => r[a].verb = "CIPSEND"
  <2>1. a \in 1..Len(q) /\ r[a] = q[a]
    BY <1>1, <1>5
  <2>2. r[b].verb # "CIPSTART"
    BY <1>0, <1>1, <1>2, <1>3
  <2> QED
    BY <2>1, <2>2, <1>2
<1> QED
  BY <1>1, <1>4, <1>5 DEF CommandsFit, r, c

(* The parts of a sequence that is not empty *)
LEMMA HeadAndTail ==
    ASSUME NEW S, NEW q \in Seq(S), q # <<>>
    PROVE  /\ Head(q) \in S /\ Tail(q) \in Seq(S) /\ Head(q) = q[1]
           /\ Len(q) \in Nat /\ Len(q) >= 1 /\ Len(Tail(q)) = Len(q) - 1
           /\ \A a \in 1..Len(Tail(q)) : Tail(q)[a] = q[a + 1]
BY HeadTailProperties, EmptySeq

(* The oldest command is answered: what is left *)
LEMMA TailFits ==
    ASSUME NEW q \in Seq(Commands), q # <<>>, NEW it, CommandsFit(q, it)
    PROVE  /\ Head(q) \in Commands /\ Tail(q) \in Seq(Commands)
           /\ Has(q, Head(q).verb)
           /\ \A v : Has(Tail(q), v) => Has(q, v)
           /\ Head(q).verb = "CIPSEND" =>
                /\ Head(q).item = it /\ it # NoItem
                /\ CommandsFit(Tail(q), NoItem) /\ ~Has(Tail(q), "CIPSEND")
           /\ Head(q).verb = "CIPSTART" =>
                /\ it = NoItem /\ CommandsFit(Tail(q), it)
                /\ ~Has(Tail(q), "CIPSTART") /\ ~Has(Tail(q), "CIPSEND")
           /\ Head(q).verb = "CIPCLOSE" =>
                /\ CommandsFit(Tail(q), it) /\ ~Has(q, "CIPSTART")
<1> DEFINE h == Head(q)
           r == Tail(q)
<1>1. /\ h \in Commands /\ r \in Seq(Commands) /\ h = q[1]
      /\ Len(q) \in Nat /\ Len(q) >= 1 /\ Len(r) = Len(q) - 1
      /\ \A a \in 1..Len(r) : r[a] = q[a + 1]
  BY HeadAndTail
<1> HIDE DEF h, r
<1>2. \A a \in 1..Len(r) : a + 1 \in 1..Len(q) /\ 1 < a + 1
  BY <1>1
<1>3. \A a \in 1..Len(q) : a = 1 \/ (a - 1 \in 1..Len(r) /\ q[a] = r[a - 1])
  <2> SUFFICES ASSUME NEW a \in 1..Len(q), a # 1
               PROVE  a - 1 \in 1..Len(r) /\ q[a] = r[a - 1]
    OBVIOUS
  <2>1. a - 1 \in 1..Len(r) /\ (a - 1) + 1 = a
    BY <1>1
  <2> QED
    BY <2>1, <1>1
<1>4. Has(q, h.verb) /\ \A v : Has(r, v) => Has(q, v)
  BY <1>1, <1>2 DEF Has
<1>5. \A a \in 1..Len(r) : r[a].verb = "CIPSEND" => r[a].item = it /\ it # NoItem
  BY <1>1, <1>2 DEF CommandsFit
<1>6. \A a, b \in 1..Len(r) : a < b =>
        /\ r[a].verb = "CIPSEND" => r[b].verb # "CIPSEND"
        /\ r[a].verb = "CIPSTART" => r[b].verb = "CIPCLOSE"
        /\ r[b].verb = "CIPSTART" => r[a].verb = "CIPSEND"
  <2> SUFFICES ASSUME NEW a \in 1..Len(r), NEW b \in 1..Len(r), a < b
               PROVE  /\ r[a].verb = "CIPSEND" => r[b].verb # "CIPSEND"
                      /\ r[a].verb = "CIPSTART" => r[b].verb = "CIPCLOSE"
                      /\ r[b].verb = "CIPSTART" => r[a].verb = "CIPSEND"
    OBVIOUS
  <2>1. a + 1 \in 1..Len(q) /\ b + 1 \in 1..Len(q) /\ a + 1 < b + 1
    BY <1>2
  <2>2. r[a] = q[a + 1] /\ r[b] = q[b + 1]
    BY <1>1
  <2> QED
    BY <2>1, <2>2 DEF CommandsFit
<1>7. \A a \in 1..Len(r) :
        /\ h.verb = "CIPSEND" => r[a].verb # "CIPSEND"
        /\ h.verb = "CIPSTART" => r[a].verb = "CIPCLOSE"
        /\ r[a].verb = "CIPSTART" => h.verb = "CIPSEND"
  <2> SUFFICES ASSUME NEW a \in 1..Len(r)
               PROVE  /\ h.verb = "CIPSEND" => r[a].verb # "CIPSEND"
                      /\ h.verb = "CIPSTART" => r[a].verb = "CIPCLOSE"
                      /\ r[a].verb = "CIPSTART" => h.verb = "CIPSEND"
    OBVIOUS
  <2>1. 1 \in 1..Len(q) /\ a + 1 \in 1..Len(q) /\ 1 < a + 1
    BY <1>1, <1>2
  <2> QED
    BY <2>1, <1>1 DEF CommandsFit
<1>8. CASE h.verb = "CIPSEND"
  <2>1. h.item = it /\ it # NoItem
    BY <1>1, <1>8 DEF CommandsFit
  <2>2. ~Has(r, "CIPSEND")
    BY <1>7, <1>8 DEF Has
  <2>3. CommandsFit(r, NoItem)
    BY <2>2, <1>6 DEF CommandsFit, Has
  <2> QED
    BY <2>1, <2>2, <2>3, <1>1, <1>4, <1>8 DEF h, r
<1>9. CASE h.verb = "CIPSTART"
  <2>1. ~Has(r, "CIPSTART") /\ ~Has(r, "CIPSEND")
    BY <1>7, <1>9 DEF Has
  <2>2. ~Has(q, "CIPSEND")
    BY <2>1, <1>1, <1>3, <1>9 DEF Has
  <2>3. it = NoItem
    BY <2>2 DEF CommandsFit
  <2>4. CommandsFit(r, it)
    BY <2>3, <1>5, <1>6 DEF CommandsFit
  <2> QED
    BY <2>1, <2>3, <2>4, <1>1, <1>4, <1>9 DEF h, r
<1>10. CASE h.verb = "CIPCLOSE"
  <2>1. ~Has(q, "CIPSTART")
    BY <1>1, <1>3, <1>7, <1>10 DEF Has
  <2>2. it # NoItem => Has(r, "CIPSEND")
    <3> SUFFICES ASSUME it # NoItem PROVE Has(r, "CIPSEND")
      OBVIOUS
    <3>1. PICK a \in 1..Len(q) : q[a].verb = "CIPSEND"
      BY DEF CommandsFit, Has
    <3>2. a # 1
      BY <3>1, <1>1, <1>10
    <3> QED
      BY <3>1, <3>2, <1>3 DEF Has
  <2>3. CommandsFit(r, it)
    BY <2>2, <1>5, <1>6 DEF CommandsFit
  <2> QED
    BY <2>1, <2>3, <1>1, <1>4, <1>10 DEF h, r
<1> QED
  BY <1>1, <1>8, <1>9, <1>10, CommandFields DEF h
----------------------------------------------------------------------------
(* The buffer *)

(* An item that waits: Append(p, n + 1) *)
LEMMA QueueFits ==
    ASSUME NEW p \in Seq(1..MaxItems), NEW it, NEW n \in 0..MaxItems, NEW told,
           BufferFits(p, it, n, told), n < MaxItems
    PROVE  /\ Append(p, n + 1) \in Seq(1..MaxItems)
           /\ BufferFits(Append(p, n + 1), it, n + 1, told)
<1> DEFINE r == Append(p, n + 1)
<1>0. n + 1 \in 1..MaxItems
  BY SocketAssumption
<1>1. /\ r \in Seq(1..MaxItems) /\ Len(r) = Len(p) + 1 /\ Len(p) \in Nat
      /\ \A a \in 1..Len(p) : r[a] = p[a]
      /\ r[Len(p) + 1] = n + 1
  BY <1>0, AppendProperties
<1> HIDE DEF r
<1>2. \A a \in 1..Len(r) : a \in 1..Len(p) \/ a = Len(p) + 1
  BY <1>1
<1>3. \A a \in 1..Len(p) : p[a] \in 1..n /\ p[a] # it
  BY DEF BufferFits
<1>4. it \in 0..n
  BY DEF BufferFits
<1>5. \A a \in 1..Len(r) : r[a] \in 1..n + 1 /\ r[a] # it
  <2> SUFFICES ASSUME NEW a \in 1..Len(r)
               PROVE  r[a] \in 1..n + 1 /\ r[a] # it
    OBVIOUS
  <2>1. CASE a \in 1..Len(p)
    BY <2>1, <1>1, <1>3
  <2>2. CASE a = Len(p) + 1
    BY <2>2, <1>1, <1>4
  <2> QED
    BY <2>1, <2>2, <1>2
<1>6. \A a, b \in 1..Len(r) : a # b => r[a] # r[b]
  <2> SUFFICES ASSUME NEW a \in 1..Len(r), NEW b \in 1..Len(r), a < b
               PROVE  r[a] # r[b]
    BY <1>1
  <2>1. a \in 1..Len(p)
    BY <1>1
  <2>2. CASE b \in 1..Len(p)
    BY <2>1, <2>2, <1>1 DEF BufferFits
  <2>3. CASE b = Len(p) + 1
    BY <2>1, <2>3, <1>1, <1>3
  <2> QED
    BY <2>2, <2>3, <1>2
<1>7. ASSUME NEW i \in 1..MaxItems
      PROVE  told[i] = "no" <=> \/ i > n + 1 \/ i = it
                                \/ \E a \in 1..Len(r) : r[a] = i
  <2>1. told[i] = "no" <=> i > n \/ i = it \/ \E a \in 1..Len(p) : p[a] = i
    BY DEF BufferFits
  <2>2. (\E a \in 1..Len(r) : r[a] = i)
          <=> i = n + 1 \/ \E a \in 1..Len(p) : p[a] = i
    <3>1. (\E a \in 1..Len(p) : p[a] = i) => \E a \in 1..Len(r) : r[a] = i
      BY <1>1
    <3>2. i = n + 1 => \E a \in 1..Len(r) : r[a] = i
      BY <1>1
    <3>3. (\E a \in 1..Len(r) : r[a] = i)
            => i = n + 1 \/ \E a \in 1..Len(p) : p[a] = i
      BY <1>1, <1>2
    <3> QED
      BY <3>1, <3>2, <3>3
  <2>3. i > n <=> i > n + 1 \/ i = n + 1
    BY SocketAssumption
  <2> QED
    BY <2>1, <2>2, <2>3
<1>8. it \in 0..n + 1
  BY <1>4
<1> QED
  BY <1>1, <1>5, <1>6, <1>7, <1>8 DEF BufferFits, r

(* An item that is given to the link at once *)
LEMMA DirectFits ==
    ASSUME NEW p \in Seq(1..MaxItems), NEW n \in 0..MaxItems, NEW told,
           BufferFits(p, NoItem, n, told), n < MaxItems
    PROVE  n + 1 \in 1..MaxItems /\ BufferFits(p, n + 1, n + 1, told)
<1>1. n + 1 \in 1..MaxItems
  BY SocketAssumption
<1>2. \A a \in 1..Len(p) : p[a] \in 1..n + 1 /\ p[a] # n + 1
  <2> SUFFICES ASSUME NEW a \in 1..Len(p) PROVE p[a] \in 1..n + 1 /\ p[a] # n + 1
    OBVIOUS
  <2>1. p[a] \in 1..n
    BY DEF BufferFits
  <2> QED
    BY <2>1
<1>3. ASSUME NEW i \in 1..MaxItems
      PROVE  told[i] = "no" <=> \/ i > n + 1 \/ i = n + 1
                                \/ \E a \in 1..Len(p) : p[a] = i
  <2>1. told[i] = "no" <=> i > n \/ i = NoItem \/ \E a \in 1..Len(p) : p[a] = i
    BY DEF BufferFits
  <2>2. (i > n <=> i > n + 1 \/ i = n + 1) /\ i # NoItem
    BY SocketAssumption DEF NoItem
  <2> QED
    BY <2>1, <2>2
<1>4. \A a, b \in 1..Len(p) : a # b => p[a] # p[b]
  BY DEF BufferFits
<1>5. n + 1 \in 0..n + 1
  OBVIOUS
<1> QED
  BY <1>1, <1>2, <1>3, <1>4, <1>5 DEF BufferFits

(* The first of those that wait is given to the link *)
LEMMA TakeFits ==
    ASSUME NEW p \in Seq(1..MaxItems), p # <<>>, NEW n \in 0..MaxItems,
           NEW told, BufferFits(p, NoItem, n, told)
    PROVE  /\ Head(p) \in 1..MaxItems /\ Tail(p) \in Seq(1..MaxItems)
           /\ BufferFits(Tail(p), Head(p), n, told)
<1> DEFINE h == Head(p)
           r == Tail(p)
<1>1. /\ h \in 1..MaxItems /\ r \in Seq(1..MaxItems) /\ h = p[1]
      /\ Len(p) \in Nat /\ Len(p) >= 1 /\ Len(r) = Len(p) - 1
      /\ \A a \in 1..Len(r) : r[a] = p[a + 1]
  BY HeadAndTail
<1> HIDE DEF h, r
<1>2. \A a \in 1..Len(r) : a + 1 \in 1..Len(p) /\ a + 1 # 1
  BY <1>1
<1>3. \A a \in 1..Len(p) : a = 1 \/ (a - 1 \in 1..Len(r) /\ p[a] = r[a - 1])
  <2> SUFFICES ASSUME NEW a \in 1..Len(p), a # 1
               PROVE  a - 1 \in 1..Len(r) /\ p[a] = r[a - 1]
    OBVIOUS
  <2>1. a - 1 \in 1..Len(r) /\ (a - 1) + 1 = a
    BY <1>1
  <2> QED
    BY <2>1, <1>1
<1>4. \A a \in 1..Len(p) : p[a] \in 1..n
  BY DEF BufferFits
<1>5. \A a, b \in 1..Len(p) : a # b => p[a] # p[b]
  BY DEF BufferFits
<1>6. 1 \in 1..Len(p) /\ h \in 1..n
  BY <1>1, <1>4
<1>7. ASSUME NEW a \in 1..Len(r) PROVE r[a] \in 1..n /\ r[a] # h
  <2>1. a + 1 \in 1..Len(p) /\ a + 1 # 1 /\ r[a] = p[a + 1]
    BY <1>1, <1>2
  <2> QED
    BY <2>1, <1>1, <1>4, <1>5, <1>6
<1>8. ASSUME NEW a \in 1..Len(r), NEW b \in 1..Len(r), a # b
      PROVE  r[a] # r[b]
  <2>1. a + 1 \in 1..Len(p) /\ b + 1 \in 1..Len(p) /\ a + 1 # b + 1
    BY <1>2, <1>8
  <2>2. r[a] = p[a + 1] /\ r[b] = p[b + 1]
    BY <1>1
  <2> QED
    BY <2>1, <2>2, <1>5
<1>9. ASSUME NEW i \in 1..MaxItems
      PROVE  told[i] = "no" <=> \/ i > n \/ i = h
                                \/ \E a \in 1..Len(r) : r[a] = i
  <2>1. told[i] = "no" <=> i > n \/ i = NoItem \/ \E a \in 1..Len(p) : p[a] = i
    BY DEF BufferFits
  <2>2. i # NoItem
    BY DEF NoItem
  <2>3. (\E a \in 1..Len(p) : p[a] = i)
          => i = h \/ \E a \in 1..Len(r) : r[a] = i
    BY <1>1, <1>3
  <2>4. i = h => \E a \in 1..Len(p) : p[a] = i
    BY <1>1, <1>6
  <2>5. (\E a \in 1..Len(r) : r[a] = i) => \E a \in 1..Len(p) : p[a] = i
    BY <1>1, <1>2
  <2> QED
    BY <2>1, <2>2, <2>3, <2>4, <2>5
<1>10. h \in 0..n
  BY <1>6
<1> QED
  BY <1>1, <1>7, <1>8, <1>9, <1>10 DEF BufferFits, h, r

(* The item under way is told its result. *)
ToldAt(told, t2, it) ==
    t2[it] # "no" /\ \A i \in 1..MaxItems : i # it => t2[i] = told[i]

LEMMA TellFits ==
    ASSUME NEW p, NEW it, it # NoItem, NEW n \in Nat, NEW told, NEW t2,
           BufferFits(p, it, n, told), ToldAt(told, t2, it)
    PROVE  BufferFits(p, NoItem, n, t2)
<1>1. \A a \in 1..Len(p) : p[a] \in 1..n /\ p[a] # NoItem /\ p[a] # it
  BY DEF BufferFits, NoItem
<1>2. \A a, b \in 1..Len(p) : a # b => p[a] # p[b]
  BY DEF BufferFits
<1>3. NoItem \in 0..n /\ it \in 0..n
  BY DEF BufferFits, NoItem
<1>4. ASSUME NEW i \in 1..MaxItems
      PROVE  t2[i] = "no" <=> \/ i > n \/ i = NoItem
                              \/ \E a \in 1..Len(p) : p[a] = i
  <2>1. i # NoItem
    BY DEF NoItem
  <2>2. CASE i = it
    BY <2>1, <2>2, <1>1, <1>3 DEF ToldAt
  <2>3. CASE i # it
    <3>1. told[i] = "no" <=> i > n \/ i = it \/ \E a \in 1..Len(p) : p[a] = i
      BY DEF BufferFits
    <3> QED
      BY <2>1, <2>3, <3>1 DEF ToldAt
  <2> QED
    BY <2>2, <2>3
<1> QED
  BY <1>1, <1>2, <1>3, <1>4 DEF BufferFits

(* The results t2 are told, but for items that had none.                   *)
ToldOnce(told, t2) ==
    \A i \in 1..MaxItems : t2[i] # told[i] => told[i] = "no"

(* All of p are told that they have failed. *)
Flushed(p, told, t2) ==
    \A i \in 1..MaxItems :
        t2[i] = IF i \in ToSet(p) THEN "failed" ELSE told[i]

LEMMA FlushFits ==
    ASSUME NEW p \in Seq(1..MaxItems), NEW it, NEW n \in Nat, NEW told, NEW t2,
           BufferFits(p, it, n, told), Flushed(p, told, t2)
    PROVE  BufferFits(<<>>, it, n, t2) /\ ToldOnce(told, t2)
<1>1. \A i : i \in ToSet(p) <=> \E a \in 1..Len(p) : p[a] = i
  BY DEF ToSet
<1>2. \A a \in 1..Len(p) : p[a] \in 1..n /\ p[a] # it
  BY DEF BufferFits
<1>3. ASSUME NEW i \in 1..MaxItems
      PROVE  /\ t2[i] = "no" <=> i > n \/ i = it
             /\ t2[i] # told[i] => told[i] = "no"
  <2>1. told[i] = "no" <=> i > n \/ i = it \/ \E a \in 1..Len(p) : p[a] = i
    BY DEF BufferFits
  <2>2. CASE i \in ToSet(p)
    <3>1. PICK a \in 1..Len(p) : p[a] = i
      BY <2>2, <1>1
    <3>2. i \in 1..n /\ i # it
      BY <3>1, <1>2
    <3> QED
      BY <2>1, <2>2, <3>1, <3>2 DEF Flushed
  <2>3. CASE i \notin ToSet(p)
    BY <2>1, <2>3, <1>1 DEF Flushed
  <2> QED
    BY <2>2, <2>3
<1>4. Len(<<>>) = 0 /\ 1..0 = {}
  OBVIOUS
<1>5. it \in 0..n
  BY DEF BufferFits
<1> QED
  BY <1>3, <1>4, <1>5 DEF BufferFits, ToldOnce

----------------------------------------------------------------------------
(* What the functions of link.lua do to a state *)

(* The results of u are those of t, but for items that had none in t. *)
TellsOnce(t, u) == ToldOnce(t.told, u.told)

SameResults(t, u) == u.told = t.told /\ u.taken = t.taken

SameBuffer(t, u) ==
    /\ u.sndpending = t.sndpending /\ u.sndingitem = t.sndingitem
    /\ u.sent = t.sent /\ SameResults(t, u)

LEMMA TellsOnceTwice ==
    ASSUME NEW t, NEW u, NEW v, TellsOnce(t, u), TellsOnce(u, v)
    PROVE  TellsOnce(t, v)
BY DEF TellsOnce, ToldOnce

LEMMA PatientIsEmpty ==
    ASSUME NEW t, NEW k, Sound(t, k), Patient(t)
    PROVE  Empty(t)
<1>1. t.sndpending \in Seq(1..MaxItems)
  BY DEF Sound, States
<1>2. t.sndingitem = NoItem
  BY DEF Patient, Buffered
<1>3. ToSet(t.sndpending) = {}
  BY DEF Patient, Buffered
<1>4. t.sndpending = <<>>
  <2> SUFFICES ASSUME t.sndpending # <<>> PROVE FALSE
    OBVIOUS
  <2>1. Len(t.sndpending) \in Nat /\ Len(t.sndpending) >= 1
    BY <1>1, HeadAndTail
  <2>2. t.sndpending[1] \in ToSet(t.sndpending)
    BY <1>1, <2>1 DEF ToSet
  <2> QED
    BY <1>3, <2>2
<1> QED
  BY <1>2, <1>4 DEF Empty

(* A connection may always be lost. *)
LEMMA Freed ==
    ASSUME NEW t, NEW k, Sound(t, k)
    PROVE  Sound(t, "free")
BY DEF Sound, LinkFits, Conns

(* A link that nothing is under way for has no connection. *)
LEMMA AtRest ==
    ASSUME NEW t, NEW k, Sound(t, k),
           t.state \in {"INITIAL", "CLOSED", "NIL_LINK"}
    PROVE  k = "free" /\ ~Has(t.cmds, "CIPSTART") /\ ~t.local
BY DEF Sound, LinkFits, Undone, Conns, States

(* link.connect succeeds: an AT+CIPSTART, or the local event of c *)
LEMMA ConnectingSound ==
    ASSUME NEW t, NEW k, Sound(t, k),
           t.state \in {"INITIAL", "CLOSED", "NIL_LINK"},
           ~Has(t.cmds, "CIPCLOSE"),
           NEW c \in BOOLEAN, c => t.sndingitem = NoItem,
           NEW u \in States, SameBuffer(t, u),
           u.exists = TRUE, u.state = "CONNECTING",
           c => u.cmds = t.cmds /\ u.local = TRUE,
           ~c => /\ u.cmds = Append(t.cmds, Cmd("CIPSTART", NoItem))
                 /\ u.local = t.local
    PROVE  Sound(u, k)
<1>1. k = "free" /\ ~Has(t.cmds, "CIPSTART") /\ ~t.local
  BY AtRest
<1>2. t.cmds \in Seq(Commands) /\ CommandsFit(t.cmds, t.sndingitem)
  BY DEF Sound, States
<1>3. CommandsFit(u.cmds, u.sndingitem)
  BY <1>1, <1>2, AppendStart DEF SameBuffer
<1>4. c => ~Has(u.cmds, "CIPSTART")
  BY <1>1
<1>5. LinkFits(u.cmds, u.state, u.sndingitem, u.local, k)
  BY <1>1, <1>4 DEF LinkFits, SameBuffer, Undone
<1> QED
  BY <1>1, <1>3, <1>5 DEF Sound, SameBuffer, SameResults, Conns

LEMMA LinkConnectSound ==
    ASSUME NEW t, NEW k, Sound(t, k), t.state \in {"INITIAL", "CLOSED"},
           ~Has(t.cmds, "CIPCLOSE"),
           NEW c \in BOOLEAN, c => t.sndingitem = NoItem
    PROVE  /\ Sound(LinkConnect(t, c), k)
           /\ SameBuffer(t, LinkConnect(t, c))
           /\ LinkConnect(t, c).state = "CONNECTING"
<1> DEFINE u == LinkConnect(t, c)
<1>1. t \in States /\ t.exists
  BY DEF Sound
<1>2. Append(t.cmds, Cmd("CIPSTART", NoItem)) \in Seq(Commands)
  BY <1>1, AppendHas DEF States, Commands
<1>3. /\ u \in States /\ SameBuffer(t, u)
      /\ u.exists = TRUE /\ u.state = "CONNECTING"
      /\ c => u.cmds = t.cmds /\ u.local = TRUE
      /\ ~c => /\ u.cmds = Append(t.cmds, Cmd("CIPSTART", NoItem))
               /\ u.local = t.local
  BY <1>1, <1>2 DEF LinkConnect, Req, States, SameBuffer, SameResults, LinkStates
<1> HIDE DEF u
<1>4. Sound(u, k)
  BY <1>3, ConnectingSound
<1> QED
  BY <1>3, <1>4 DEF u

(* link.disconnect and link.close, when they have something to do *)
LEMMA ClosingSound ==
    ASSUME NEW t, NEW k, Sound(t, k), t.state # "NIL_LINK",
           NEW st \in {"DISCONNECTING", "CLOSING"},
           st = "CLOSING" => Empty(t)
    PROVE  /\ Sound(Req([t EXCEPT !.state = st], "CIPCLOSE", NoItem), k)
           /\ SameBuffer(t, Req([t EXCEPT !.state = st], "CIPCLOSE", NoItem))
<1> DEFINE c == Cmd("CIPCLOSE", NoItem)
           u == Req([t EXCEPT !.state = st], "CIPCLOSE", NoItem)
<1>1. t \in States /\ t.exists
  BY DEF Sound
<1>2. c \in Commands /\ c.verb = "CIPCLOSE"
  BY DEF Commands, Cmd
<1>3. t.cmds \in Seq(Commands)
  BY <1>1 DEF States
<1> HIDE DEF c
<1>4. /\ Append(t.cmds, c) \in Seq(Commands)
      /\ Has(Append(t.cmds, c), "CIPSTART")
           <=> Has(t.cmds, "CIPSTART") \/ "CIPSTART" = "CIPCLOSE"
      /\ Has(Append(t.cmds, c), "CIPSEND")
           <=> Has(t.cmds, "CIPSEND") \/ "CIPSEND" = "CIPCLOSE"
  BY <1>2, <1>3, AppendHas
<1> USE DEF c
<1>5. /\ u \in States /\ SameBuffer(t, u) /\ u.exists = TRUE
      /\ u.state = st /\ u.local = t.local /\ u.cmds = Append(t.cmds, c)
  BY <1>1, <1>4 DEF Req, States, SameBuffer, SameResults, LinkStates
<1>6. CommandsFit(Append(t.cmds, c), t.sndingitem)
  BY <1>3, AppendClose DEF Sound
<1> HIDE DEF u, c
<1>7. LinkFits(u.cmds, u.state, u.sndingitem, u.local, k)
  BY <1>4, <1>5 DEF Sound, LinkFits, SameBuffer, Undone
<1>8. Sound(u, k)
  BY <1>5, <1>6, <1>7 DEF Sound, SameBuffer, SameResults, Empty
<1> QED
  BY <1>5, <1>8 DEF u

LEMMA LinkDisconnectSound ==
    ASSUME NEW t, NEW k, Sound(t, k)
    PROVE  Sound(LinkDisconnect(t), k) /\ SameBuffer(t, LinkDisconnect(t))
BY ClosingSound DEF LinkDisconnect, SameBuffer, SameResults

LEMMA LinkCloseSound ==
    ASSUME NEW t, NEW k, Sound(t, k), Empty(t)
    PROVE  Sound(LinkClose(t), k) /\ SameBuffer(t, LinkClose(t))
BY ClosingSound DEF LinkClose, SameBuffer, SameResults

----------------------------------------------------------------------------
(* What the functions of socket.lua do to a state *)

(* u is t with one more item, which waits. *)
LEMMA QueuedSound ==
    ASSUME NEW t, NEW k, Sound(t, k), t.sent < MaxItems,
           t.state \notin {"CLOSING", "NIL_LINK"},
           NEW u \in States, SameResults(t, u),
           u.exists = t.exists, u.state = t.state, u.local = t.local,
           u.cmds = t.cmds, u.sndingitem = t.sndingitem,
           u.sent = t.sent + 1,
           u.sndpending = Append(t.sndpending, t.sent + 1)
    PROVE  Sound(u, k)
<1>1. /\ t.sndpending \in Seq(1..MaxItems) /\ t.sent \in 0..MaxItems
      /\ BufferFits(t.sndpending, t.sndingitem, t.sent, t.told)
  BY DEF Sound, States
<1>2. BufferFits(u.sndpending, u.sndingitem, u.sent, u.told)
  BY <1>1, QueueFits DEF SameResults
<1> QED
  BY <1>2 DEF Sound, SameResults

(* u is t with one more item, which is given to the link. *)
LEMMA DirectSound ==
    ASSUME NEW t, NEW k, Sound(t, k), t.sent < MaxItems,
           t.state = "CONNECTED", t.sndingitem = NoItem,
           NEW u \in States, SameResults(t, u),
           u.exists = t.exists, u.state = t.state, u.local = t.local,
           u.cmds = Append(t.cmds, Cmd("CIPSEND", t.sent + 1)),
           u.sndingitem = t.sent + 1, u.sent = t.sent + 1,
           u.sndpending = t.sndpending
    PROVE  Sound(u, k)
<1>1. /\ t.sndpending \in Seq(1..MaxItems) /\ t.sent \in 0..MaxItems
      /\ BufferFits(t.sndpending, NoItem, t.sent, t.told)
      /\ t.cmds \in Seq(Commands) /\ CommandsFit(t.cmds, NoItem)
  BY DEF Sound, States
<1>2. ~Has(t.cmds, "CIPSTART") /\ ~t.local /\ k # "opening"
  BY DEF Sound, LinkFits, Undone, States
<1>3. /\ t.sent + 1 \in 1..MaxItems
      /\ BufferFits(u.sndpending, u.sndingitem, u.sent, u.told)
  BY <1>1, DirectFits DEF SameResults
<1>4. CommandsFit(u.cmds, u.sndingitem)
  BY <1>1, <1>2, <1>3, AppendSend
<1>5. ~Has(u.cmds, "CIPSTART")
  <2>1. /\ Cmd("CIPSEND", t.sent + 1) \in Commands
        /\ Cmd("CIPSEND", t.sent + 1).verb = "CIPSEND"
    BY <1>3 DEF Commands, Cmd
  <2>2. Has(u.cmds, "CIPSTART") <=> Has(t.cmds, "CIPSTART") \/ "CIPSTART" = "CIPSEND"
    BY <1>1, <2>1, AppendHas
  <2> QED
    BY <1>2, <2>2
<1>6. LinkFits(u.cmds, u.state, u.sndingitem, u.local, k)
  BY <1>2, <1>5 DEF LinkFits, Sound
<1> QED
  BY <1>3, <1>4, <1>6 DEF Sound, SameResults

LEMMA SndNxtSound ==
    ASSUME NEW t, NEW k, Sound(t, k)
    PROVE  Sound(SndNxt(t), k) /\ SameResults(t, SndNxt(t))
<1> DEFINE u == SndNxt(t)
<1>1. CASE ~(/\ t.sndpending # <<>> /\ t.sndingitem = NoItem
             /\ LinkSends(t, FALSE))
  BY <1>1 DEF SndNxt, SameResults
<1>2. CASE /\ t.sndpending # <<>> /\ t.sndingitem = NoItem
           /\ LinkSends(t, FALSE)
  <2> DEFINE h == Head(t.sndpending)
             c == Cmd("CIPSEND", h)
  <2>1. /\ t \in States /\ t.sndpending \in Seq(1..MaxItems)
        /\ t.sent \in 0..MaxItems
        /\ BufferFits(t.sndpending, NoItem, t.sent, t.told)
        /\ t.cmds \in Seq(Commands) /\ CommandsFit(t.cmds, NoItem)
        /\ t.state = "CONNECTED"
    BY <1>2 DEF Sound, States, LinkSends
  <2>2. ~Has(t.cmds, "CIPSTART") /\ ~t.local /\ k # "opening"
    BY <2>1 DEF Sound, LinkFits, Undone, States
  <2>3. /\ h \in 1..MaxItems /\ Tail(t.sndpending) \in Seq(1..MaxItems)
        /\ BufferFits(Tail(t.sndpending), h, t.sent, t.told)
    BY <1>2, <2>1, TakeFits
  <2>4. c \in Commands /\ c.verb = "CIPSEND"
    BY <2>3 DEF Commands, Cmd
  <2>5. /\ Append(t.cmds, c) \in Seq(Commands)
        /\ Has(Append(t.cmds, c), "CIPSTART")
             <=> Has(t.cmds, "CIPSTART") \/ "CIPSTART" = "CIPSEND"
    BY <2>1, <2>4, AppendHas
  <2>6. CommandsFit(Append(t.cmds, c), h)
    BY <2>1, <2>2, <2>3, AppendSend
  <2>7. h \in 0..MaxItems
    BY <2>3
  <2>8. /\ u \in States /\ SameResults(t, u) /\ u.sent = t.sent
        /\ u.exists = t.exists /\ u.state = t.state /\ u.local = t.local
        /\ u.cmds = Append(t.cmds, c) /\ u.sndingitem = h
        /\ u.sndpending = Tail(t.sndpending)
    BY <1>2, <2>1, <2>3, <2>5, <2>7 DEF SndNxt, Req, States, SameResults
  <2> HIDE DEF u, h, c
  <2>9. LinkFits(u.cmds, u.state, u.sndingitem, u.local, k)
    BY <2>1, <2>2, <2>5, <2>8 DEF LinkFits, Sound
  <2>10. Sound(u, k)
    BY <2>1, <2>3, <2>6, <2>8, <2>9 DEF Sound, SameResults
  <2> QED
    BY <2>8, <2>10 DEF u
<1> QED
  BY <1>1, <1>2

LEMMA FlushSound ==
    ASSUME NEW t, NEW k, Sound(t, k)
    PROVE  /\ Sound(Flush(t), k) /\ TellsOnce(t, Flush(t))
           /\ Flush(t).sndpending = <<>>
           /\ Flush(t).sndingitem = t.sndingitem /\ Flush(t).state = t.state
           /\ Flush(t).cmds = t.cmds /\ Flush(t).exists = t.exists
<1> DEFINE u == Flush(t)
<1>0. /\ t \in States /\ t.sndpending \in Seq(1..MaxItems)
      /\ t.told \in [1..MaxItems -> {"no", "ok", "failed"}]
      /\ t.sent \in 0..MaxItems
  BY DEF Sound, States
<1>1. /\ t.sent \in Nat
      /\ BufferFits(t.sndpending, t.sndingitem, t.sent, t.told)
  <2>1. t.sent \in Nat
    BY <1>0
  <2>2. BufferFits(t.sndpending, t.sndingitem, t.sent, t.told)
    BY DEF Sound
  <2> QED
    BY <2>1, <2>2
<1>2. /\ Flushed(t.sndpending, t.told, u.told)
      /\ u.told \in [1..MaxItems -> {"no", "ok", "failed"}]
  BY <1>0 DEF Flush, Flushed, States
<1>3. /\ u.sndpending = <<>> /\ u.sndingitem = t.sndingitem
      /\ u.state = t.state /\ u.cmds = t.cmds /\ u.exists = t.exists
      /\ u.sent = t.sent /\ u.local = t.local /\ u.taken = t.taken
  BY <1>0 DEF Flush, States
<1>4. u \in States
  <2>1. u = [t EXCEPT !.told = u.told, !.sndpending = <<>>]
    BY <1>0 DEF Flush, States
  <2>2. <<>> \in Seq(1..MaxItems)
    OBVIOUS
  <2> QED
    BY <1>0, <1>2, <2>1, <2>2 DEF States
<1> HIDE DEF u
<1>5. /\ BufferFits(<<>>, t.sndingitem, t.sent, u.told)
      /\ ToldOnce(t.told, u.told)
  BY <1>0, <1>1, <1>2, FlushFits
<1>6. ASSUME NEW i \in 1..MaxItems PROVE (u.told[i] = "ok") = u.taken[i]
  <2>1. (t.told[i] = "ok") = t.taken[i]
    BY DEF Sound
  <2>2. u.told[i] = t.told[i] \/ (t.told[i] = "no" /\ u.told[i] = "failed")
    BY <1>2, <1>5 DEF Flushed, ToldOnce
  <2> QED
    BY <2>1, <2>2, <1>3
<1>7. Sound(u, k)
  BY <1>3, <1>4, <1>5, <1>6 DEF Sound, Empty
<1> QED
  BY <1>3, <1>5, <1>7 DEF u, TellsOnce
----------------------------------------------------------------------------
(* The calls of the program, which keeps out of every habit *)

LEMMA SendSound ==
    ASSUME NEW t, NEW k, Sound(t, k), NEW ins \in BOOLEAN,
           t.state # "CONNECTED" => ~Has(t.cmds, "CIPCLOSE"),
           ins => t.state \notin {"CLOSING", "NIL_LINK"}
    PROVE  Sound(Send(t, ins, FALSE), k) /\ SameResults(t, Send(t, ins, FALSE))
<1> DEFINE i == t.sent + 1
           x == [t EXCEPT !.sent = i]
           u == Send(t, ins, FALSE)
<1> SUFFICES Sound(u, k) /\ SameResults(t, u)
  OBVIOUS
<1>1. /\ t \in States /\ t.sent \in 0..MaxItems
      /\ t.cmds \in Seq(Commands) /\ t.sndpending \in Seq(1..MaxItems)
  BY DEF Sound, States
<1>2. CASE u = t
  BY <1>2 DEF SameResults
<1>3. CASE t.sent < MaxItems /\ t.exists
  <2>1. i \in 1..MaxItems /\ i \in 0..MaxItems
    BY <1>1, <1>3, SocketAssumption
  <2>2. Append(t.sndpending, i) \in Seq(1..MaxItems)
    BY <1>1, <2>1
  <2>3. t.state # "NIL_LINK"
    BY <1>3 DEF Sound
  <2> HIDE DEF i
  <2>4. CASE t.state # "CONNECTED" /\ LinkRefuses(t) /\ ins
    <3>1. u = Queue(x, i)
      BY <2>4, <1>3, <1>1 DEF Send, i
    <3>2. /\ u \in States /\ SameResults(t, u) /\ u.exists = t.exists
          /\ u.state = t.state /\ u.local = t.local /\ u.cmds = t.cmds
          /\ u.sndingitem = t.sndingitem /\ u.sent = i
          /\ u.sndpending = Append(t.sndpending, i)
      BY <3>1, <2>1, <2>2, <1>1 DEF Queue, States, SameResults
    <3> HIDE DEF u
    <3>3. Sound(u, k)
      BY <3>2, <2>4, <1>3, QueuedSound DEF i
    <3> QED
      BY <3>2, <3>3 DEF u
  <2>5. CASE t.state # "CONNECTED" /\ ~LinkRefuses(t)
    <3> DEFINE y == LinkConnect(t, FALSE)
    <3>1. u = Queue(LinkConnect(x, FALSE), i)
      <4>1. t.sent # MaxItems
        BY <1>1, <1>3
      <4> QED
        BY <4>1, <2>5, <1>3 DEF Send, LinkConnect, i
    <3>2. Sound(y, k) /\ SameBuffer(t, y) /\ y.state = "CONNECTING"
      BY <2>5, LinkConnectSound DEF LinkRefuses
    <3>3. /\ y.exists = t.exists /\ y.local = t.local
          /\ y.cmds = Append(t.cmds, Cmd("CIPSTART", NoItem))
      BY <1>1 DEF LinkConnect, Req, States
    <3>4. y.cmds \in Seq(Commands)
      BY <3>2 DEF Sound, States
    <3>5. /\ u \in States /\ SameResults(t, u) /\ u.exists = t.exists
          /\ u.state = "CONNECTING" /\ u.local = t.local
          /\ u.cmds = Append(t.cmds, Cmd("CIPSTART", NoItem))
          /\ u.sndingitem = t.sndingitem /\ u.sent = i
          /\ u.sndpending = Append(t.sndpending, i)
      BY <3>1, <3>3, <3>4, <2>1, <2>2, <1>1
         DEF Queue, LinkConnect, Req, States, SameResults, LinkStates
    <3> HIDE DEF u, y
    <3>6. /\ SameResults(y, u) /\ u.exists = y.exists /\ u.state = y.state
          /\ u.local = y.local /\ u.cmds = y.cmds
          /\ u.sndingitem = y.sndingitem /\ u.sent = y.sent + 1
          /\ u.sndpending = Append(y.sndpending, y.sent + 1)
          /\ y.sent < MaxItems /\ y.state \notin {"CLOSING", "NIL_LINK"}
      BY <3>2, <3>3, <3>5, <1>3 DEF i, SameBuffer, SameResults
    <3>7. Sound(u, k)
      BY <3>2, <3>5, <3>6, QueuedSound
    <3> QED
      BY <3>5, <3>7 DEF u
  <2>6. CASE t.state = "CONNECTED" /\ t.sndingitem # NoItem
    <3>1. u = Queue(x, i)
      BY <2>6, <1>3, <1>1 DEF Send, i
    <3>2. /\ u \in States /\ SameResults(t, u) /\ u.exists = t.exists
          /\ u.state = t.state /\ u.local = t.local /\ u.cmds = t.cmds
          /\ u.sndingitem = t.sndingitem /\ u.sent = i
          /\ u.sndpending = Append(t.sndpending, i)
      BY <3>1, <2>1, <2>2, <1>1 DEF Queue, States, SameResults
    <3> HIDE DEF u
    <3>3. Sound(u, k)
      BY <3>2, <2>6, <1>3, QueuedSound DEF i
    <3> QED
      BY <3>2, <3>3 DEF u
  <2>7. CASE t.state = "CONNECTED" /\ t.sndingitem = NoItem
    <3>1. u = Req([x EXCEPT !.sndingitem = i], "CIPSEND", i)
      BY <2>7, <1>3, <1>1 DEF Send, LinkSends, i
    <3>2. Append(t.cmds, Cmd("CIPSEND", i)) \in Seq(Commands)
      <4>1. Cmd("CIPSEND", i) \in Commands
        BY <2>1 DEF Commands
      <4> QED
        BY <4>1, <1>1
    <3>3. /\ u \in States /\ SameResults(t, u) /\ u.exists = t.exists
          /\ u.state = t.state /\ u.local = t.local
          /\ u.cmds = Append(t.cmds, Cmd("CIPSEND", i))
          /\ u.sndingitem = i /\ u.sent = i /\ u.sndpending = t.sndpending
      BY <3>1, <3>2, <2>1, <1>1 DEF Req, States, SameResults
    <3> HIDE DEF u
    <3>4. Sound(u, k)
      BY <3>3, <2>7, <1>3, DirectSound DEF i
    <3> QED
      BY <3>3, <3>4 DEF u
  <2>8. CASE t.state # "CONNECTED" /\ LinkRefuses(t) /\ ~ins
    BY <2>8, <1>2, <1>3, <1>1 DEF Send
  <2> HIDE DEF x, u
  <2> QED
    BY <2>4, <2>5, <2>6, <2>7, <2>8 DEF LinkRefuses
<1>4. CASE ~t.exists \/ t.sent = MaxItems
  <2>1. u = t
    BY <1>4 DEF Send
  <2> HIDE DEF u
  <2> QED
    BY <2>1, <1>2
<1> HIDE DEF u
<1> QED
  BY <1>1, <1>3, <1>4, SocketAssumption

(* Connect, for a socket without items *)
LEMMA ConnectSound ==
    ASSUME NEW t, NEW k, Sound(t, k), Empty(t),
           t.state # "CONNECTED" => ~Has(t.cmds, "CIPCLOSE"),
           NEW change \in BOOLEAN, NEW c \in BOOLEAN
    PROVE  /\ Sound(Connect(t, change, c), k)
           /\ SameBuffer(t, Connect(t, change, c))
<1> DEFINE u == Connect(t, change, c)
<1>1. /\ t \in States /\ t.cmds \in Seq(Commands)
      /\ t.exists = (t.state # "NIL_LINK") /\ t.exists \in BOOLEAN
      /\ t.sndpending = <<>> /\ t.sndingitem = NoItem
  BY DEF Sound, States, Empty
<1>2. CASE u = t
  BY <1>2 DEF SameBuffer, SameResults
<1>3. CASE t.state = "CONNECTED" /\ change
  <2> DEFINE y == LinkDisconnect(t)
  <2>1. Sound(y, k) /\ SameBuffer(t, y) /\ y \in States /\ y.exists = TRUE
    <3>1. Sound(y, k) /\ SameBuffer(t, y)
      BY LinkDisconnectSound
    <3>2. y.exists = t.exists
      BY <1>1 DEF LinkDisconnect, Req, States
    <3> QED
      BY <3>1, <3>2, <1>1, <1>3 DEF Sound
  <2>2. u = Fresh(y)
    BY <1>1, <1>3 DEF Connect
  <2>3. y.sndpending = <<>> /\ y.sndingitem = NoItem
    BY <2>1, <1>1 DEF SameBuffer
  <2> HIDE DEF y
  <2>4. Fresh(y) = y
    BY <2>1, <2>3 DEF Fresh, States
  <2> QED
    BY <2>1, <2>2, <2>4
<1>4. CASE t.state \in {"INITIAL", "CLOSED", "NIL_LINK"}
           /\ (t.state = "NIL_LINK" => ~t.exists)
  <2> DEFINE x == IF t.exists THEN t ELSE [t EXCEPT !.state = "INITIAL"]
             y == LinkConnect(x, c)
  <2>1. u = Fresh(y)
    BY <1>1, <1>4 DEF Connect, LinkRefuses, States
  <2>2. Append(t.cmds, Cmd("CIPSTART", NoItem)) \in Seq(Commands)
    BY <1>1, AppendHas DEF Commands
  <2>3. /\ x \in States /\ x.cmds = t.cmds /\ x.local = t.local
        /\ SameBuffer(t, x)
    BY <1>1 DEF States, SameBuffer, SameResults, LinkStates
  <2> HIDE DEF x
  <2>4. /\ y \in States /\ SameBuffer(x, y) /\ y.state = "CONNECTING"
        /\ c => y.cmds = t.cmds /\ y.local = TRUE
        /\ ~c => /\ y.cmds = Append(t.cmds, Cmd("CIPSTART", NoItem))
                 /\ y.local = t.local
    <3>1. CASE c
      <4>1. y = [x EXCEPT !.state = "CONNECTING", !.local = TRUE]
        BY <3>1, <2>3 DEF LinkConnect, States
      <4> HIDE DEF y
      <4> QED
        BY <4>1, <3>1, <2>3
           DEF States, SameBuffer, SameResults, LinkStates
    <3>2. CASE ~c
      <4>1. y = [x EXCEPT !.state = "CONNECTING",
                          !.cmds = Append(t.cmds, Cmd("CIPSTART", NoItem))]
        BY <3>2, <2>3 DEF LinkConnect, Req, States
      <4> HIDE DEF y
      <4> QED
        BY <4>1, <3>2, <2>2, <2>3
           DEF States, SameBuffer, SameResults, LinkStates
    <3> QED
      BY <3>1, <3>2
  <2> HIDE DEF y
  <2>5. /\ u \in States /\ SameBuffer(t, u)
        /\ u.exists = TRUE /\ u.state = "CONNECTING"
        /\ c => u.cmds = t.cmds /\ u.local = TRUE
        /\ ~c => /\ u.cmds = Append(t.cmds, Cmd("CIPSTART", NoItem))
                 /\ u.local = t.local
    <3>1. y.sndpending = <<>> /\ y.sndingitem = NoItem
      BY <2>3, <2>4, <1>1 DEF SameBuffer
    <3>2. u = [y EXCEPT !.exists = TRUE]
      BY <2>1, <2>4, <3>1 DEF Fresh, States
    <3> HIDE DEF u
    <3> QED
      BY <3>2, <2>3, <2>4 DEF States, SameBuffer, SameResults
  <2> HIDE DEF u
  <2>6. Sound(u, k)
    BY <2>5, <1>1, <1>4, ConnectingSound
  <2> QED
    BY <2>5, <2>6 DEF u
<1>5. CASE \/ t.state = "CONNECTED" /\ ~change
           \/ t.state \in {"CONNECTING", "DISCONNECTING", "CLOSING"}
  BY <1>1, <1>2, <1>5 DEF Connect, LinkRefuses
<1> QED
  BY <1>1, <1>3, <1>4, <1>5 DEF States, LinkStates

(* For a socket that is connecting, or has been closed, connect is refused *)
(* or finds no items.                                                      *)
LEMMA CallSound ==
    ASSUME NEW t, NEW k, Sound(t, k), Habits = {},
           NEW r \in Callable \union {"none"}, NEW c \in BOOLEAN
    PROVE  /\ Sound(Call(t, r, c), k) /\ SameResults(t, Call(t, r, c))
           /\ Empty(t) /\ r \notin {"send", "insert"} => Empty(Call(t, r, c))
<1> DEFINE u == Call(t, r, c)
           ch == r = "change"
           x == Connect(t, ch, c)
           y == Send(t, FALSE, c)
           z == Send(t, TRUE, c)
<1> SUFFICES /\ Sound(u, k) /\ SameResults(t, u)
             /\ Empty(t) /\ r \notin {"send", "insert"} => Empty(u)
  OBVIOUS
<1>1. t \in States /\ t.cmds \in Seq(Commands)
  BY DEF Sound, States
<1>2. CASE u = t
  BY <1>2 DEF SameResults
<1>3. ~Crosses(t, r) /\ r \in {"connect", "change", "send", "insert"}
        => (t.state # "CONNECTED" => ~Has(t.cmds, "CIPCLOSE"))
  BY <1>1, HasInSet DEF Crosses
<1>4. ASSUME Empty(t), t.state # "CONNECTED" => ~Has(t.cmds, "CIPCLOSE")
      PROVE  Sound(x, k) /\ SameBuffer(t, x)
  <2>1. ch \in BOOLEAN
    OBVIOUS
  <2> HIDE DEF ch
  <2> QED
    BY <1>4, <2>1, ConnectSound
<1>5. CASE /\ ~Crosses(t, r) /\ r \in {"connect", "change"} /\ u = x
           /\ Patient(t) \/ t.state \in {"CONNECTING", "NIL_LINK"}
  <2> HIDE DEF u, x
  <2>1. CASE Patient(t) \/ t.state = "NIL_LINK"
    <3>1. Empty(t)
      BY <2>1, PatientIsEmpty DEF Sound
    <3>2. Sound(x, k) /\ SameBuffer(t, x)
      BY <3>1, <1>3, <1>4, <1>5
    <3> QED
      BY <3>1, <3>2, <1>5 DEF SameBuffer, Empty
  <2>2. CASE t.state = "CONNECTING"
    <3>1. t.exists
      BY <2>2 DEF Sound
    <3>2. x = t
      BY <3>1, <2>2 DEF x, Connect, LinkRefuses
    <3> QED
      BY <3>2, <1>2, <1>5
  <2> QED
    BY <2>1, <2>2, <1>5
<1>6. CASE ~Crosses(t, r) /\ r = "send" /\ ~c /\ u = y
  <2>1. c = FALSE
    BY <1>6
  <2> QED
    BY <2>1, <1>3, <1>6, SendSound
<1>7. CASE /\ ~Crosses(t, r) /\ r = "insert" /\ ~c
           /\ t.state \notin {"CLOSING", "NIL_LINK"} /\ u = z
  <2>1. c = FALSE
    BY <1>7
  <2> QED
    BY <2>1, <1>3, <1>7, SendSound
<1>8. CASE r = "disconnect" /\ u = LinkDisconnect(t)
  BY <1>8, LinkDisconnectSound DEF SameBuffer, Empty
<1>9. CASE r = "close" /\ Patient(t) /\ u = LinkClose(t)
  <2>1. Empty(t)
    BY <1>9, PatientIsEmpty
  <2> QED
    BY <2>1, <1>9, LinkCloseSound DEF SameBuffer, Empty
<1>10. u = CASE Crosses(t, r) -> t
             [] ~Crosses(t, r) /\ r \in {"connect", "change"}
                   /\ (Patient(t) \/ t.state \in {"CONNECTING", "NIL_LINK"}
                                  \/ "redo" \in Habits) -> x
             [] ~Crosses(t, r) /\ r = "send" /\ (~c \/ "call" \in Habits) -> y
             [] ~Crosses(t, r) /\ r = "insert" /\ (~c \/ "call" \in Habits)
                   /\ (t.state \notin {"CLOSING", "NIL_LINK"}
                         \/ "close" \in Habits) -> z
             [] r = "disconnect" /\ t.exists -> LinkDisconnect(t)
             [] r = "close" /\ t.exists /\ (Patient(t) \/ "close" \in Habits) ->
                   LinkClose(t)
             [] OTHER -> t
  BY DEF Call
<1>11. \/ u = t
       \/ /\ ~Crosses(t, r) /\ r \in {"connect", "change"} /\ u = x
          /\ Patient(t) \/ t.state \in {"CONNECTING", "NIL_LINK"}
       \/ ~Crosses(t, r) /\ r = "send" /\ ~c /\ u = y
       \/ /\ ~Crosses(t, r) /\ r = "insert" /\ ~c
          /\ t.state \notin {"CLOSING", "NIL_LINK"} /\ u = z
       \/ r = "disconnect" /\ u = LinkDisconnect(t)
       \/ r = "close" /\ Patient(t) /\ u = LinkClose(t)
  <2> HIDE DEF u, x, y, z
  <2> QED
    BY <1>10
<1> HIDE DEF u, x, y, z
<1> QED
  BY <1>2, <1>5, <1>6, <1>7, <1>8, <1>9, <1>11
----------------------------------------------------------------------------
(* The events of the link *)

LEMMA SameTellsOnce ==
    ASSUME NEW t, NEW u, SameResults(t, u)
    PROVE  TellsOnce(t, u)
BY DEF SameResults, TellsOnce, ToldOnce

LEMMA ReactSound ==
    ASSUME NEW t, NEW k, Sound(t, k), Habits = {},
           NEW r \in Callable \union {"none"}
    PROVE  /\ Sound(React(t, r), k) /\ SameResults(t, React(t, r))
           /\ TellsOnce(t, React(t, r))
           /\ Empty(t) /\ r \notin {"send", "insert"} => Empty(React(t, r))
<1> DEFINE u == Call(t, r, FALSE)
<1>1. FALSE \in BOOLEAN
  OBVIOUS
<1>2. /\ Sound(u, k) /\ SameResults(t, u)
      /\ Empty(t) /\ r \notin {"send", "insert"} => Empty(u)
  BY <1>1, CallSound
<1>3. React(t, r) = u
  BY DEF React
<1> HIDE DEF u
<1> QED
  BY <1>2, <1>3, SameTellsOnce

(* Whatever the program does when it is told that its socket is closed has *)
(* no effect.                                                              *)
LEMMA ReactToClose ==
    ASSUME NEW t, t.exists = TRUE, t.state = "NIL_LINK", Habits = {},
           NEW r \in Callable \union {"none"}
    PROVE  React(t, r) = t
<1> DEFINE u == Call(t, r, FALSE)
           x == Connect(t, r = "change", FALSE)
           y == Send(t, FALSE, FALSE)
           z == Send(t, TRUE, FALSE)
<1>1. u = CASE Crosses(t, r) -> t
            [] ~Crosses(t, r) /\ r \in {"connect", "change"}
                  /\ (Patient(t) \/ t.state \in {"CONNECTING", "NIL_LINK"}
                                 \/ "redo" \in Habits) -> x
            [] ~Crosses(t, r) /\ r = "send" /\ (~FALSE \/ "call" \in Habits) -> y
            [] ~Crosses(t, r) /\ r = "insert" /\ (~FALSE \/ "call" \in Habits)
                  /\ (t.state \notin {"CLOSING", "NIL_LINK"}
                        \/ "close" \in Habits) -> z
            [] r = "disconnect" /\ t.exists -> LinkDisconnect(t)
            [] r = "close" /\ t.exists /\ (Patient(t) \/ "close" \in Habits) ->
                  LinkClose(t)
            [] OTHER -> t
  BY DEF Call
<1>2. x = t
  BY DEF Connect, LinkRefuses
<1>3. y = t
  BY DEF Send, LinkRefuses
<1>4. LinkDisconnect(t) = t /\ LinkClose(t) = t
  BY DEF LinkDisconnect, LinkClose
<1>5. React(t, r) = u
  BY DEF React
<1> HIDE DEF u, x, y, z
<1> QED
  BY <1>1, <1>2, <1>3, <1>4, <1>5

(* The state of the link after an event that ends the connection *)
LEMMA EndedSound ==
    ASSUME NEW t, NEW k, Sound(t, k), t.state # "NIL_LINK",
           ~Has(t.cmds, "CIPSTART"), ~t.local
    PROVE  /\ Sound([t EXCEPT !.state = "CLOSED"], "free")
           /\ SameBuffer(t, [t EXCEPT !.state = "CLOSED"])
           /\ [t EXCEPT !.state = "CLOSED"].state = "CLOSED"
<1> DEFINE u == [t EXCEPT !.state = "CLOSED"]
<1>1. t \in States /\ t.exists = TRUE
  BY DEF Sound
<1>2. /\ u \in States /\ SameBuffer(t, u) /\ u.exists = TRUE
      /\ u.state = "CLOSED" /\ u.cmds = t.cmds /\ u.local = t.local
  BY <1>1 DEF States, SameBuffer, SameResults, LinkStates
<1> HIDE DEF u
<1>3. Sound(u, "free")
  BY <1>2 DEF Sound, SameBuffer, SameResults, LinkFits, Conns
<1> QED
  BY <1>2, <1>3 DEF u

(* The program is told that its connect failed, of all that wait as well.  *)
LEMMA ConAckFails ==
    ASSUME NEW t, Sound(t, "free"), t.sndingitem = NoItem, Habits = {},
           NEW r \in Callable \union {"none"}
    PROVE  Sound(ConAck(t, FALSE, r), "free") /\ TellsOnce(t, ConAck(t, FALSE, r))
<1> DEFINE r1 == IF ~FALSE /\ r \in {"send", "insert"} /\ "answer" \notin Habits
                 THEN "none" ELSE r
           u == Flush(t)
           v == React(u, r1)
           w == ConAck(t, FALSE, r)
<1> SUFFICES Sound(w, "free") /\ TellsOnce(t, w)
  OBVIOUS
<1>1. r1 \in Callable \union {"none"} /\ r1 \notin {"send", "insert"}
  OBVIOUS
<1>2. Sound(u, "free") /\ TellsOnce(t, u) /\ Empty(u)
  BY FlushSound DEF Empty
<1>3. w = [v EXCEPT !.sndpending = <<>>, !.sndingitem = NoItem]
  BY DEF ConAck
<1> HIDE DEF r1, u, w
<1>4. Sound(v, "free") /\ TellsOnce(u, v) /\ Empty(v)
  BY <1>1, <1>2, ReactSound
<1> HIDE DEF v
<1>5. [v EXCEPT !.sndpending = <<>>, !.sndingitem = NoItem] = v
  BY <1>4 DEF Sound, States, Empty
<1> QED
  BY <1>2, <1>3, <1>4, <1>5, TellsOnceTwice

(* CONNECT OK *)
LEMMA ConnectedSound ==
    ASSUME NEW t, Sound(t, "opening"), ~t.local, Habits = {},
           NEW r \in Callable \union {"none"}
    PROVE  /\ Sound(StatusInd(t, "CONNECT_OK", r), "open")
           /\ TellsOnce(t, StatusInd(t, "CONNECT_OK", r))
<1> DEFINE u == [t EXCEPT !.state = "CONNECTED"]
           v == React(u, r)
<1>1. t \in States /\ t.state \in Undone /\ ~Has(t.cmds, "CIPSTART")
  BY DEF Sound, LinkFits
<1>2. StatusInd(t, "CONNECT_OK", r) = SndNxt(v)
  BY <1>1 DEF StatusInd, ConAck, Undone
<1>3. /\ u \in States /\ SameBuffer(t, u) /\ u.exists = t.exists
      /\ u.state = "CONNECTED" /\ u.cmds = t.cmds /\ u.local = t.local
  BY <1>1 DEF States, SameBuffer, SameResults, LinkStates
<1> HIDE DEF u
<1>4. Sound(u, "open")
  BY <1>1, <1>3 DEF Sound, SameBuffer, SameResults, LinkFits, Undone, Conns
<1>5. Sound(v, "open") /\ TellsOnce(u, v)
  BY <1>4, ReactSound
<1> HIDE DEF v
<1>6. Sound(SndNxt(v), "open") /\ TellsOnce(v, SndNxt(v))
  BY <1>5, SndNxtSound, SameTellsOnce
<1>7. TellsOnce(t, u)
  BY <1>3, SameTellsOnce DEF SameBuffer
<1> QED
  BY <1>2, <1>5, <1>6, <1>7, TellsOnceTwice

(* A connect fails: AT+CIPSTART is answered so, the connection could not   *)
(* be opened, or there was a voice call.                                   *)
LEMMA FailedSound ==
    ASSUME NEW t, NEW k, Sound(t, k), ~t.local, ~Has(t.cmds, "CIPSTART"),
           t.state = "CONNECTING" => t.sndingitem = NoItem, Habits = {},
           NEW v \in {"ERROR", "CONNECT_FAIL"},
           NEW r \in Callable \union {"none"}
    PROVE  Sound(StatusInd(t, v, r), "free") /\ TellsOnce(t, StatusInd(t, v, r))
<1> DEFINE u == [t EXCEPT !.state = "CLOSED"]
<1>1. CASE t.state = "NIL_LINK"
  <2>1. StatusInd(t, v, r) = t
    BY <1>1 DEF StatusInd
  <2>2. Sound(t, "free") /\ TellsOnce(t, t)
    BY Freed DEF TellsOnce, ToldOnce
  <2> QED
    BY <2>1, <2>2
<1>2. CASE t.state # "NIL_LINK"
  <2>1. Sound(u, "free") /\ SameBuffer(t, u) /\ u.state = "CLOSED"
    BY <1>2, EndedSound
  <2>2. TellsOnce(t, u)
    BY <2>1, SameTellsOnce DEF SameBuffer
  <2>3. CASE t.state = "CONNECTING"
    <3>1. StatusInd(t, v, r) = ConAck(u, FALSE, r)
      BY <2>3 DEF StatusInd, ConAck
    <3>2. u.sndingitem = NoItem
      BY <2>1, <2>3 DEF SameBuffer
    <3> HIDE DEF u
    <3>3. Sound(ConAck(u, FALSE, r), "free") /\ TellsOnce(u, ConAck(u, FALSE, r))
      BY <2>1, <3>2, ConAckFails
    <3> QED
      BY <2>2, <3>1, <3>3, TellsOnceTwice
  <2>4. CASE t.state # "CONNECTING"
    <3>1. StatusInd(t, v, r) = React(u, r)
      BY <1>2, <2>4 DEF StatusInd
    <3> HIDE DEF u
    <3>2. Sound(React(u, r), "free") /\ TellsOnce(u, React(u, r))
      BY <2>1, ReactSound
    <3> QED
      BY <2>2, <3>1, <3>2, TellsOnceTwice
  <2> QED
    BY <2>3, <2>4
<1> QED
  BY <1>1, <1>2

(* The other side closes an open connection. *)
LEMMA ClosedSound ==
    ASSUME NEW t, Sound(t, "open"), ~t.local, Habits = {},
           NEW r \in Callable \union {"none"}
    PROVE  /\ Sound(StatusInd(t, "CLOSED", r), "free")
           /\ TellsOnce(t, StatusInd(t, "CLOSED", r))
<1> DEFINE u == [t EXCEPT !.state = "CLOSED"]
           v == Flush(u)
<1>1. /\ t.state \in {"CONNECTED", "DISCONNECTING", "CLOSING"}
      /\ ~Has(t.cmds, "CIPSTART")
  BY DEF Sound, LinkFits
<1>2. StatusInd(t, "CLOSED", r) = React(v, r)
  BY <1>1 DEF StatusInd
<1>3. Sound(u, "free") /\ SameBuffer(t, u)
  BY <1>1, EndedSound
<1>4. TellsOnce(t, u)
  BY <1>3, SameTellsOnce DEF SameBuffer
<1> HIDE DEF u
<1>5. Sound(v, "free") /\ TellsOnce(u, v)
  BY <1>3, FlushSound
<1> HIDE DEF v
<1>6. Sound(React(v, r), "free") /\ TellsOnce(v, React(v, r))
  BY <1>5, ReactSound
<1> QED
  BY <1>2, <1>4, <1>5, <1>6, TellsOnceTwice

(* AT+CIPCLOSE is answered. *)
LEMMA CloseCnfSound ==
    ASSUME NEW t, NEW k, Sound(t, k), ~t.local, ~Has(t.cmds, "CIPSTART"),
           Habits = {}, NEW r \in Callable \union {"none"}
    PROVE  Sound(CloseCnf(t, r), "free") /\ TellsOnce(t, CloseCnf(t, r))
<1>1. CASE t.state = "DISCONNECTING"
  <2> DEFINE u == [t EXCEPT !.state = "CLOSED"]
  <2>1. CloseCnf(t, r) = React(u, r)
    BY <1>1 DEF CloseCnf
  <2>2. Sound(u, "free") /\ SameBuffer(t, u)
    BY <1>1, EndedSound
  <2>3. TellsOnce(t, u)
    BY <2>2, SameTellsOnce DEF SameBuffer
  <2> HIDE DEF u
  <2>4. Sound(React(u, r), "free") /\ TellsOnce(u, React(u, r))
    BY <2>2, ReactSound
  <2> QED
    BY <2>1, <2>3, <2>4, TellsOnceTwice
<1>2. CASE t.state = "CLOSING"
  <2> DEFINE u == [t EXCEPT !.state = "NIL_LINK"]
             v == CloseCnf(t, r)
  <2>1. t \in States /\ t.exists = TRUE /\ Empty(t)
    BY <1>2 DEF Sound
  <2>2. u.exists = TRUE /\ u.state = "NIL_LINK"
    BY <2>1 DEF States
  <2>3. React(u, r) = u
    BY <2>2, ReactToClose
  <2>4. v = [u EXCEPT !.exists = FALSE, !.sndpending = <<>>,
                      !.sndingitem = NoItem]
    BY <1>2, <2>3 DEF CloseCnf
  <2>5. /\ v \in States /\ SameBuffer(t, v) /\ v.exists = FALSE
        /\ v.state = "NIL_LINK" /\ v.cmds = t.cmds /\ v.local = t.local
    BY <2>1, <2>4
       DEF States, SameBuffer, SameResults, LinkStates, Empty, NoItem
  <2> HIDE DEF v
  <2>6. Sound(v, "free")
    BY <2>1, <2>5
       DEF Sound, SameBuffer, SameResults, LinkFits, Conns, Empty
  <2>7. TellsOnce(t, v)
    BY <2>5, SameTellsOnce DEF SameBuffer
  <2> QED
    BY <2>6, <2>7 DEF v
<1>3. CASE t.state \notin {"DISCONNECTING", "CLOSING"}
  <2>1. CloseCnf(t, r) = t
    BY <1>3 DEF CloseCnf
  <2>2. Sound(t, "free") /\ TellsOnce(t, t)
    BY Freed DEF TellsOnce, ToldOnce
  <2> QED
    BY <2>1, <2>2
<1> QED
  BY <1>1, <1>2, <1>3

(* The network was shut. *)
LEMMA ShutCnfSound ==
    ASSUME NEW t, NEW k, Sound(t, k), ~t.local, ~Has(t.cmds, "CIPSTART"),
           Habits = {}, NEW r \in Callable \union {"none"}
    PROVE  Sound(ShutCnf(t, r), "free") /\ TellsOnce(t, ShutCnf(t, r))
<1> DEFINE u == [t EXCEPT !.state = "CLOSED"]
<1>1. CASE t.state \in {"NIL_LINK", "INITIAL"}
  <2>1. ShutCnf(t, r) = t
    BY <1>1 DEF ShutCnf
  <2>2. Sound(t, "free") /\ TellsOnce(t, t)
    BY Freed DEF TellsOnce, ToldOnce
  <2> QED
    BY <2>1, <2>2
<1>2. CASE t.state \notin {"NIL_LINK", "INITIAL"}
  <2>1. ShutCnf(t, r) = React(u, r)
    BY <1>2 DEF ShutCnf
  <2>2. Sound(u, "free") /\ SameBuffer(t, u)
    BY <1>2, EndedSound
  <2>3. TellsOnce(t, u)
    BY <2>2, SameTellsOnce DEF SameBuffer
  <2> HIDE DEF u
  <2>4. Sound(React(u, r), "free") /\ TellsOnce(u, React(u, r))
    BY <2>2, ReactSound
  <2> QED
    BY <2>1, <2>3, <2>4, TellsOnceTwice
<1> QED
  BY <1>1, <1>2
(* AT+CIPSEND is answered, and the item under way told so: u is what is    *)
(* left to React to.                                                       *)
LEMMA ToldSound ==
    ASSUME NEW t, NEW k, Sound(t, k), ~t.local,
           t.cmds # <<>>, Head(t.cmds).verb = "CIPSEND",
           NEW res \in {"ok", "failed"},
           NEW u \in States, u.exists = t.exists, u.state = t.state,
           u.local = t.local, u.sent = t.sent, u.sndpending = t.sndpending,
           u.sndingitem = NoItem, u.cmds = Tail(t.cmds),
           u.told = [t.told EXCEPT ![t.sndingitem] = res],
           u.taken = IF res = "ok" THEN [t.taken EXCEPT ![t.sndingitem] = TRUE]
                                   ELSE t.taken
    PROVE  Sound(u, k) /\ TellsOnce(t, u)
<1> DEFINE it == t.sndingitem
<1>1. /\ t \in States /\ t.cmds \in Seq(Commands) /\ it \in 0..MaxItems
      /\ CommandsFit(t.cmds, it) /\ t.sent \in 0..MaxItems
      /\ BufferFits(t.sndpending, it, t.sent, t.told)
      /\ t.told \in [1..MaxItems -> {"no", "ok", "failed"}]
      /\ t.taken \in [1..MaxItems -> BOOLEAN]
  BY DEF Sound, States
<1>2. /\ Has(t.cmds, "CIPSEND") /\ it # NoItem
      /\ Has(u.cmds, "CIPSTART") => Has(t.cmds, "CIPSTART")
      /\ CommandsFit(u.cmds, NoItem)
  BY <1>1, TailFits
<1>3. it \in 1..MaxItems /\ it \in 1..t.sent /\ t.sent \in Nat
  <2>1. it \in 0..t.sent
    BY <1>1 DEF BufferFits
  <2> QED
    BY <2>1, <1>1, <1>2 DEF NoItem
<1>4. t.told[it] = "no" /\ u.told[it] = res /\ res # "no"
  BY <1>1, <1>3 DEF BufferFits
<1>5. \A i \in 1..MaxItems : i # it => u.told[i] = t.told[i]
  BY <1>1
<1>6. BufferFits(u.sndpending, NoItem, u.sent, u.told)
  <2>1. ToldAt(t.told, u.told, it)
    BY <1>4, <1>5 DEF ToldAt
  <2> HIDE DEF it
  <2>2. BufferFits(t.sndpending, NoItem, t.sent, u.told)
    BY <2>1, <1>1, <1>2, <1>3, TellFits
  <2> QED
    BY <2>2
<1>7. ASSUME NEW i \in 1..MaxItems PROVE (u.told[i] = "ok") = u.taken[i]
  <2>1. (t.told[i] = "ok") = t.taken[i]
    BY DEF Sound
  <2>2. CASE i = it
    BY <2>1, <2>2, <1>1, <1>3, <1>4
  <2>3. CASE i # it
    BY <2>1, <2>3, <1>1, <1>5
  <2> QED
    BY <2>2, <2>3
<1>8. LinkFits(u.cmds, u.state, NoItem, u.local, k)
  BY <1>2 DEF Sound, LinkFits
<1>9. u.state \notin {"CLOSING", "NIL_LINK"}
  BY <1>2 DEF Sound, Empty
<1>10. Sound(u, k)
  BY <1>2, <1>6, <1>7, <1>8, <1>9 DEF Sound
<1>11. TellsOnce(t, u)
  BY <1>4, <1>5 DEF TellsOnce, ToldOnce
<1> QED
  BY <1>10, <1>11

LEMMA SendOk ==
    ASSUME NEW t, NEW k, Sound(t, k), ~t.local, Habits = {},
           t.cmds # <<>>, Head(t.cmds).verb = "CIPSEND",
           NEW r \in Callable \union {"none"},
           NEW x, x = [t EXCEPT !.cmds = Tail(t.cmds),
                                !.taken = [t.taken EXCEPT ![t.sndingitem] = TRUE]]
    PROVE  Sound(SendCnf(x, TRUE, r), k) /\ TellsOnce(t, SendCnf(x, TRUE, r))
<1> DEFINE it == t.sndingitem
           y == [Tell(x, x.sndingitem, TRUE) EXCEPT !.sndingitem = NoItem]
           z == React(y, r)
           w == SendCnf(x, TRUE, r)
<1> SUFFICES Sound(w, k) /\ TellsOnce(t, w)
  OBVIOUS
<1>1. /\ t \in States /\ t.cmds \in Seq(Commands) /\ it \in 0..MaxItems
      /\ CommandsFit(t.cmds, it)
  BY DEF Sound, States
<1>2. it # NoItem /\ it \in 1..MaxItems /\ Tail(t.cmds) \in Seq(Commands)
  BY <1>1, TailFits DEF NoItem
<1>3. /\ y \in States /\ y.exists = t.exists /\ y.state = t.state
      /\ y.local = t.local /\ y.sent = t.sent /\ y.sndpending = t.sndpending
      /\ y.sndingitem = NoItem /\ y.cmds = Tail(t.cmds)
      /\ y.told = [t.told EXCEPT ![it] = "ok"]
      /\ y.taken = [t.taken EXCEPT ![it] = TRUE]
  <2>1. /\ x \in States /\ x.exists = t.exists /\ x.state = t.state
        /\ x.local = t.local /\ x.sent = t.sent
        /\ x.sndpending = t.sndpending /\ x.sndingitem = it
        /\ x.cmds = Tail(t.cmds) /\ x.told = t.told
        /\ x.taken = [t.taken EXCEPT ![it] = TRUE]
    BY <1>1, <1>2 DEF States
  <2>2. y = [x EXCEPT !.told = [x.told EXCEPT ![it] = "ok"],
                      !.sndingitem = NoItem]
    BY <2>1, <1>2 DEF Tell, States
  <2>3. NoItem \in 0..MaxItems
    BY SocketAssumption DEF NoItem
  <2> HIDE DEF y, it
  <2> QED
    BY <2>1, <2>2, <2>3 DEF States
<1>4. w = SndNxt(z)
  BY DEF SendCnf, SndAck
<1> HIDE DEF w, y
<1>5. Sound(y, k) /\ TellsOnce(t, y)
  BY <1>3, ToldSound
<1>6. Sound(z, k) /\ TellsOnce(y, z)
  BY <1>5, ReactSound
<1> HIDE DEF z
<1>7. Sound(SndNxt(z), k) /\ TellsOnce(z, SndNxt(z))
  BY <1>6, SndNxtSound, SameTellsOnce
<1> QED
  BY <1>4, <1>5, <1>6, <1>7, TellsOnceTwice

LEMMA SendFails ==
    ASSUME NEW t, NEW k, Sound(t, k), ~t.local, Habits = {},
           t.cmds # <<>>, Head(t.cmds).verb = "CIPSEND",
           NEW r \in Callable \union {"none"},
           NEW x, x = [t EXCEPT !.cmds = Tail(t.cmds)]
    PROVE  Sound(SendCnf(x, FALSE, r), k) /\ TellsOnce(t, SendCnf(x, FALSE, r))
<1> DEFINE it == t.sndingitem
           y == [Tell(x, x.sndingitem, FALSE) EXCEPT !.sndingitem = NoItem]
           z == React(y, r)
           w == SendCnf(x, FALSE, r)
<1> SUFFICES Sound(w, k) /\ TellsOnce(t, w)
  OBVIOUS
<1>1. /\ t \in States /\ t.cmds \in Seq(Commands) /\ it \in 0..MaxItems
      /\ CommandsFit(t.cmds, it)
  BY DEF Sound, States
<1>2. it # NoItem /\ it \in 1..MaxItems /\ Tail(t.cmds) \in Seq(Commands)
  BY <1>1, TailFits DEF NoItem
<1>3. /\ y \in States /\ y.exists = t.exists /\ y.state = t.state
      /\ y.local = t.local /\ y.sent = t.sent /\ y.sndpending = t.sndpending
      /\ y.sndingitem = NoItem /\ y.cmds = Tail(t.cmds)
      /\ y.told = [t.told EXCEPT ![it] = "failed"]
      /\ y.taken = t.taken
  <2>1. /\ x \in States /\ x.exists = t.exists /\ x.state = t.state
        /\ x.local = t.local /\ x.sent = t.sent
        /\ x.sndpending = t.sndpending /\ x.sndingitem = it
        /\ x.cmds = Tail(t.cmds) /\ x.told = t.told
        /\ x.taken = t.taken
    BY <1>1, <1>2 DEF States
  <2>2. y = [x EXCEPT !.told = [x.told EXCEPT ![it] = "failed"],
                      !.sndingitem = NoItem]
    BY <2>1, <1>2 DEF Tell, States
  <2>3. NoItem \in 0..MaxItems
    BY SocketAssumption DEF NoItem
  <2> HIDE DEF y, it
  <2> QED
    BY <2>1, <2>2, <2>3 DEF States
<1>4. w = Flush(z)
  BY DEF SendCnf, SndAck
<1> HIDE DEF w, y
<1>5. Sound(y, k) /\ TellsOnce(t, y)
  BY <1>3, ToldSound
<1>6. Sound(z, k) /\ TellsOnce(y, z)
  BY <1>5, ReactSound
<1> HIDE DEF z
<1>7. Sound(Flush(z), k) /\ TellsOnce(z, Flush(z))
  BY <1>6, FlushSound
<1> QED
  BY <1>4, <1>5, <1>6, <1>7, TellsOnceTwice

----------------------------------------------------------------------------
(* The steps *)

LEMMA InitInv == Init => IInv
<1> SUFFICES ASSUME Init PROVE Sound(Start, "free")
  BY DEF Init, IInv
<1>1. Start \in States
  BY SocketAssumption DEF Start, States, LinkStates, NoItem
<1>2. /\ Start.cmds = <<>> /\ Start.sndpending = <<>>
      /\ Start.sndingitem = NoItem /\ Start.sent = 0
      /\ Start.state = "NIL_LINK" /\ Start.exists = FALSE
      /\ Start.local = FALSE
      /\ \A i \in 1..MaxItems : Start.told[i] = "no" /\ Start.taken[i] = FALSE
  BY DEF Start
<1>3. Len(<<>>) = 0 /\ 1..0 = {} /\ \A i \in 1..MaxItems : i > 0
  OBVIOUS
<1> HIDE DEF Start
<1>4. ~Has(<<>>, "CIPSTART") /\ CommandsFit(<<>>, NoItem)
  BY <1>3 DEF Has, CommandsFit
<1>5. BufferFits(<<>>, NoItem, 0, Start.told)
  BY <1>2, <1>3 DEF BufferFits, NoItem
<1>6. LinkFits(<<>>, "NIL_LINK", NoItem, FALSE, "free")
  BY <1>4 DEF LinkFits
<1> QED
  BY <1>1, <1>2, <1>4, <1>5, <1>6 DEF Sound, Conns, Empty

(* The step leaves the module sound, and tells each result once. *)
Good == IInv' /\ TellsOnce(s, s')

LEMMA CallsGood ==
    ASSUME IInv, Habits = {}, Calls_ PROVE Good
<1>1. PICK r \in Callable, c \in BOOLEAN : s' = Call(s, r, c)
  BY DEF Calls_, Handle
<1> DEFINE u == Call(s, r, c)
<1>2. Sound(u, conn) /\ SameResults(s, u)
  BY CallSound DEF IInv
<1>3. s' = u /\ conn' = conn
  BY <1>1 DEF Calls_
<1> HIDE DEF u
<1> QED
  BY <1>2, <1>3, SameTellsOnce DEF Good, IInv

LEMMA LocalEventGood ==
    ASSUME IInv, Habits = {}, LocalEvent PROVE Good
<1> DEFINE t == [s EXCEPT !.local = FALSE]
<1>1. PICK r \in Callable \union {"none"} : s' = StatusInd(t, "CONNECT_FAIL", r)
  BY DEF LocalEvent, Handle, Reactions
<1>2. /\ s \in States /\ s.local /\ conn = "free" /\ s.sndingitem = NoItem
      /\ ~Has(s.cmds, "CIPSTART")
  BY DEF LocalEvent, IInv, Sound, LinkFits
<1>3. /\ t \in States /\ SameBuffer(s, t) /\ t.exists = s.exists
      /\ t.state = s.state /\ t.cmds = s.cmds /\ t.local = FALSE
  BY <1>2 DEF States, SameBuffer, SameResults
<1> HIDE DEF t
<1>4. Sound(t, "free")
  BY <1>2, <1>3
     DEF IInv, Sound, SameBuffer, SameResults, LinkFits, Empty
<1>5. t.sndingitem = NoItem /\ ~Has(t.cmds, "CIPSTART")
  BY <1>2, <1>3 DEF SameBuffer
<1>6. Sound(s', "free") /\ TellsOnce(t, s')
  BY <1>1, <1>3, <1>4, <1>5, FailedSound
<1>7. TellsOnce(s, t)
  BY <1>3, SameTellsOnce DEF SameBuffer
<1>8. conn' = "free"
  BY <1>2 DEF LocalEvent
<1> QED
  BY <1>6, <1>7, <1>8, TellsOnceTwice DEF Good, IInv

LEMMA ConnectsGood ==
    ASSUME IInv, Habits = {}, Connects PROVE Good
<1>1. PICK r \in Callable \union {"none"}, ok \in BOOLEAN :
        /\ conn' = IF ok THEN "open" ELSE "free"
        /\ s' = StatusInd(s, IF ok THEN "CONNECT_OK" ELSE "CONNECT_FAIL", r)
  BY DEF Connects, Handle, Reactions
<1>2. ~s.local /\ conn = "opening" /\ Sound(s, "opening")
  BY DEF Connects, Idle, IInv
<1>3. CASE ok
  <2>1. s' = StatusInd(s, "CONNECT_OK", r) /\ conn' = "open"
    BY <1>1, <1>3
  <2> QED
    BY <2>1, <1>2, ConnectedSound DEF Good, IInv
<1>4. CASE ~ok
  <2>1. s' = StatusInd(s, "CONNECT_FAIL", r) /\ conn' = "free"
    BY <1>1, <1>4
  <2>2. s.sndingitem = NoItem /\ ~Has(s.cmds, "CIPSTART")
    BY <1>2 DEF Sound, LinkFits, CommandsFit
  <2>3. Sound(s', "free") /\ TellsOnce(s, s')
    BY <2>1, <2>2, <1>2, FailedSound
  <2> QED
    BY <2>1, <2>3 DEF Good, IInv
<1> QED
  BY <1>3, <1>4

LEMMA PeerClosesGood ==
    ASSUME IInv, Habits = {}, PeerCloses PROVE Good
<1>1. PICK r \in Callable \union {"none"} : s' = StatusInd(s, "CLOSED", r)
  BY DEF PeerCloses, Handle, Reactions
<1>2. ~s.local /\ Sound(s, "open") /\ conn' = "free"
  BY DEF PeerCloses, Idle, IInv
<1> QED
  BY <1>1, <1>2, ClosedSound DEF Good, IInv

LEMMA NetworkShutsGood ==
    ASSUME IInv, Habits = {}, NetworkShuts PROVE Good
<1>1. PICK r \in Callable \union {"none"} : s' = ShutCnf(s, r)
  BY DEF NetworkShuts, Handle, Reactions
<1>2. /\ ~s.local /\ Sound(s, conn) /\ conn' = "free"
      /\ Cmd("CIPSTART", NoItem) \notin ToSet(s.cmds)
  BY DEF NetworkShuts, Idle, IInv
<1>3. ~Has(s.cmds, "CIPSTART")
  BY <1>2, HasInSet DEF Sound, States
<1>4. Sound(s', "free") /\ TellsOnce(s, s')
  BY <1>1, <1>2, <1>3, ShutCnfSound
<1> QED
  BY <1>2, <1>4 DEF Good, IInv
(* A command but AT+CIPSEND has its answer, which is not yet handled. *)
LEMMA TailSound ==
    ASSUME NEW t, NEW k, Sound(t, k), t.cmds # <<>>,
           Head(t.cmds).verb \in {"CIPSTART", "CIPCLOSE"},
           NEW u, u = [t EXCEPT !.cmds = Tail(t.cmds)]
    PROVE  /\ Sound(u, k) /\ SameBuffer(t, u) /\ u.state = t.state
           /\ u.local = t.local /\ ~Has(u.cmds, "CIPSTART")
           /\ Head(t.cmds).verb = "CIPSTART" =>
                /\ u.sndingitem = NoItem /\ ~Has(u.cmds, "CIPSEND")
                /\ u.state \in Undone /\ k = "free"
<1>1. t \in States /\ t.cmds \in Seq(Commands) /\ CommandsFit(t.cmds, t.sndingitem)
  BY DEF Sound, States
<1>2. /\ Tail(t.cmds) \in Seq(Commands)
      /\ Has(t.cmds, Head(t.cmds).verb)
      /\ Has(Tail(t.cmds), "CIPSEND") => Has(t.cmds, "CIPSEND")
      /\ CommandsFit(Tail(t.cmds), t.sndingitem)
      /\ ~Has(Tail(t.cmds), "CIPSTART")
      /\ Head(t.cmds).verb = "CIPSTART" =>
           t.sndingitem = NoItem /\ ~Has(Tail(t.cmds), "CIPSEND")
  BY <1>1, TailFits
<1>3. /\ u \in States /\ SameBuffer(t, u) /\ u.exists = t.exists
      /\ u.state = t.state /\ u.local = t.local /\ u.cmds = Tail(t.cmds)
  BY <1>1, <1>2 DEF States, SameBuffer, SameResults
<1>4. LinkFits(u.cmds, u.state, u.sndingitem, u.local, k)
  BY <1>2, <1>3 DEF Sound, LinkFits, SameBuffer
<1>5. Sound(u, k)
  BY <1>2, <1>3, <1>4 DEF Sound, SameBuffer, SameResults, Empty
<1>6. Head(t.cmds).verb = "CIPSTART" => u.state \in Undone /\ k = "free"
  BY <1>2, <1>3 DEF Sound, LinkFits
<1> QED
  BY <1>2, <1>3, <1>5, <1>6 DEF SameBuffer

LEMMA AnswerGood ==
    ASSUME IInv, Habits = {}, Answer PROVE Good
<1> DEFINE c == Head(s.cmds)
           t == [s EXCEPT !.cmds = Tail(@)]
           x == [t EXCEPT !.taken[c.item] = TRUE]
<1>1. ~s.local /\ s.cmds # <<>> /\ Sound(s, conn) /\ s \in States
  BY DEF Answer, Idle, IInv, Sound
<1>2. t = [s EXCEPT !.cmds = Tail(s.cmds)]
  OBVIOUS
<1>3. PICK r \in Callable \union {"none"} :
        \/ c.verb = "CIPSTART" /\ conn' = "opening" /\ s' = t
        \/ c.verb = "CIPSTART" /\ conn' = conn /\ s' = StatusInd(t, "ERROR", r)
        \/ c.verb = "CIPSEND" /\ conn' = conn /\ s' = SendCnf(x, TRUE, r)
        \/ c.verb = "CIPSEND" /\ conn' = conn /\ s' = SendCnf(t, FALSE, r)
        \/ c.verb = "CIPCLOSE" /\ conn' = "free" /\ s' = CloseCnf(t, r)
  BY DEF Answer, Handle, Reactions
<1>4. CASE c.verb \in {"CIPSTART", "CIPCLOSE"}
  <2>1. /\ Sound(t, conn) /\ SameBuffer(s, t) /\ ~t.local
        /\ ~Has(t.cmds, "CIPSTART")
        /\ c.verb = "CIPSTART" =>
             /\ t.sndingitem = NoItem /\ ~Has(t.cmds, "CIPSEND")
             /\ t.state \in Undone /\ conn = "free"
    <3> HIDE DEF t
    <3>1. /\ Sound(t, conn) /\ SameBuffer(s, t) /\ t.local = s.local
          /\ ~Has(t.cmds, "CIPSTART")
      BY <1>1, <1>2, <1>4, TailSound
    <3>2. c.verb = "CIPSTART" =>
            /\ t.sndingitem = NoItem /\ ~Has(t.cmds, "CIPSEND")
            /\ t.state \in Undone /\ conn = "free"
      BY <1>1, <1>2, <1>4, TailSound
    <3> QED
      BY <3>1, <3>2, <1>1
  <2>2. TellsOnce(s, t)
    BY <2>1, SameTellsOnce DEF SameBuffer
  <2> HIDE DEF t, c, x
  <2>3. CASE c.verb = "CIPSTART" /\ conn' = "opening" /\ s' = t
    <3>1. Sound(t, "opening")
      BY <2>1, <2>3 DEF Sound, LinkFits, Conns
    <3> QED
      BY <2>2, <2>3, <3>1 DEF Good, IInv
  <2>4. CASE /\ c.verb = "CIPSTART" /\ conn' = conn
             /\ s' = StatusInd(t, "ERROR", r)
    <3>1. Sound(s', "free") /\ TellsOnce(t, s')
      BY <2>1, <2>4, FailedSound
    <3> QED
      BY <2>1, <2>2, <2>4, <3>1, TellsOnceTwice DEF Good, IInv
  <2>5. CASE c.verb = "CIPCLOSE" /\ conn' = "free" /\ s' = CloseCnf(t, r)
    <3>1. Sound(s', "free") /\ TellsOnce(t, s')
      BY <2>1, <2>5, CloseCnfSound
    <3> QED
      BY <2>2, <2>5, <3>1, TellsOnceTwice DEF Good, IInv
  <2> QED
    BY <1>3, <1>4, <2>3, <2>4, <2>5
<1>5. CASE c.verb = "CIPSEND"
  <2>1. c.item = s.sndingitem
    BY <1>1, <1>5, TailFits DEF Sound, States
  <2>2. x = [s EXCEPT !.cmds = Tail(s.cmds),
                      !.taken = [s.taken EXCEPT ![s.sndingitem] = TRUE]]
    BY <1>1, <2>1 DEF States
  <2>3. CASE conn' = conn /\ s' = SendCnf(x, TRUE, r)
    <3> HIDE DEF x, c
    <3> DEFINE w == SendCnf(x, TRUE, r)
    <3>1. Sound(w, conn) /\ TellsOnce(s, w)
      BY <1>1, <1>5, <2>2, SendOk DEF c
    <3>2. s' = w
      BY <2>3
    <3> HIDE DEF w
    <3> QED
      BY <2>3, <3>1, <3>2 DEF Good, IInv
  <2>4. CASE conn' = conn /\ s' = SendCnf(t, FALSE, r)
    <3> HIDE DEF t, c
    <3> DEFINE w == SendCnf(t, FALSE, r)
    <3>1. Sound(w, conn) /\ TellsOnce(s, w)
      BY <1>1, <1>2, <1>5, SendFails DEF c
    <3>2. s' = w
      BY <2>4
    <3> HIDE DEF w
    <3> QED
      BY <2>4, <3>1, <3>2 DEF Good, IInv
  <2> QED
    BY <1>3, <1>5, <2>3, <2>4
<1> QED
  BY <1>3, <1>4, <1>5

LEMMA StepGood ==
    ASSUME IInv, Habits = {}, [Next]_vars PROVE Good
<1>1. CASE UNCHANGED vars
  BY <1>1 DEF vars, IInv, Good, TellsOnce, ToldOnce
<1>2. CASE Next
  BY <1>2, CallsGood, LocalEventGood, AnswerGood, ConnectsGood,
     PeerClosesGood, NetworkShutsGood DEF Next
<1> QED
  BY <1>1, <1>2

----------------------------------------------------------------------------
(* The properties *)

LEMMA InvHolds == IInv => Inv
<1> SUFFICES ASSUME IInv PROVE Inv
  OBVIOUS
<1>1. /\ s \in States /\ s.sndpending \in Seq(1..MaxItems)
      /\ s.cmds \in Seq(Commands) /\ s.sent \in 0..MaxItems
      /\ BufferFits(s.sndpending, s.sndingitem, s.sent, s.told)
      /\ CommandsFit(s.cmds, s.sndingitem)
  BY DEF IInv, Sound, States
<1>2. \A i : i \in ToSet(s.sndpending)
               <=> \E a \in 1..Len(s.sndpending) : s.sndpending[a] = i
  BY <1>1 DEF ToSet
<1>3. TypeOK
  <2>1. Buffered(s) \subseteq 1..s.sent
    <3> SUFFICES ASSUME NEW i \in Buffered(s) PROVE i \in 1..s.sent
      OBVIOUS
    <3>1. CASE i \in ToSet(s.sndpending)
      BY <3>1, <1>1, <1>2 DEF BufferFits
    <3>2. CASE i = s.sndingitem /\ i # NoItem
      BY <3>2, <1>1 DEF BufferFits, NoItem
    <3> QED
      BY <3>1, <3>2 DEF Buffered
  <2> QED
    BY <2>1, <1>1 DEF TypeOK, IInv, Sound, States, Conns
<1>4. AnswerIsForItem
  <2>1. Sending \subseteq {s.sndingitem}
    <3> SUFFICES ASSUME NEW i \in Sending PROVE i = s.sndingitem
      OBVIOUS
    <3>1. PICK a \in 1..Len(s.cmds) : s.cmds[a] = Cmd("CIPSEND", i)
      BY <1>1 DEF Sending, ToSet
    <3>2. s.cmds[a].verb = "CIPSEND" /\ s.cmds[a].item = i
      BY <3>1 DEF Cmd
    <3> QED
      BY <3>2, <1>1 DEF CommandsFit
  <2>2. IsFiniteSet({s.sndingitem}) /\ Cardinality({s.sndingitem}) = 1
    BY FS_Singleton
  <2>3. Cardinality(Sending) <= Cardinality({s.sndingitem})
    BY <2>1, <2>2, FS_Subset
  <2> QED
    BY <2>1, <2>2, <2>3 DEF AnswerIsForItem
<1>5. NoneIsLost
  <2> SUFFICES ASSUME NEW i \in 1..s.sent, s.told[i] = "no"
               PROVE  i \in Buffered(s)
    BY DEF NoneIsLost
  <2>1. s.sent \in 0..MaxItems /\ MaxItems \in Nat
    BY <1>1, SocketAssumption
  <2>2. i \in 1..MaxItems /\ ~(i > s.sent)
    BY <2>1
  <2>3. i = s.sndingitem \/ i \in ToSet(s.sndpending)
    BY <2>2, <1>1, <1>2 DEF BufferFits
  <2>4. i # NoItem
    BY <2>2 DEF NoItem
  <2> QED
    BY <2>3, <2>4 DEF Buffered
<1> QED
  BY <1>3, <1>4, <1>5 DEF Inv

(* For programs that keep out of the habits: the answer to AT+CIPSEND is   *)
(* that of the item under way, and no item that send has accepted leaves   *)
(* the buffer before the program is told its result.                       *)
THEOREM ItemsAreKept ==
    ASSUME Habits = {} PROVE Spec => []Inv
<1>1. IInv /\ [Next]_vars => IInv'
  BY StepGood DEF Good
<1> QED
  BY <1>1, InitInv, InvHolds, PTL DEF Spec

(* The result of an item is told once, and is what the modem said of it.   *)
THEOREM ResultsAreTold ==
    ASSUME Habits = {} PROVE Spec => ResultIsTrue
<1>1. IInv /\ [Next]_vars => IInv'
  BY StepGood DEF Good
<1> DEFINE Told == \A i \in 1..MaxItems :
                     s'.told[i] # s.told[i] =>
                       s.told[i] = "no" /\ (s'.told[i] = "ok" <=> s'.taken[i])
<1>2. IInv /\ [Next]_vars => Told
  <2> SUFFICES ASSUME IInv, [Next]_vars, NEW i \in 1..MaxItems,
                      s'.told[i] # s.told[i]
               PROVE  s.told[i] = "no" /\ (s'.told[i] = "ok" <=> s'.taken[i])
    OBVIOUS
  <2>1. IInv' /\ TellsOnce(s, s')
    BY StepGood DEF Good
  <2>2. (s'.told[i] = "ok") = s'.taken[i]
    BY <2>1 DEF IInv, Sound
  <2> QED
    BY <2>1, <2>2 DEF TellsOnce, ToldOnce
<1> QED
  BY <1>1, <1>2, InitInv, PTL DEF Spec, ResultIsTrue
=============================================================================
