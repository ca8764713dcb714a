----------------------------- MODULE RilProofs -----------------------------
(***************************************************************************)
(* Proofs about the AT command channel, for every bound.                   *)
(***************************************************************************)
EXTENDS Ril, SequenceTheorems, WellFoundedInduction, TLAPS

(* The commands sendat works on *)
LEMMA NewItemType ==
    ASSUME TypeOK, nreq < Last, NEW k \in Kinds, NEW d \in BOOLEAN
    PROVE  NewItem(k, d) \in Item
  BY RilAssumption DEF TypeOK, NewItem, Item

(* A request leaves a queue of commands. *)
LEMMA CallbackType ==
    ASSUME TypeOK, CallbackRequest
    PROVE  cmdqueue' \in Seq(Item) /\ nreq' \in 2..Last
  <1>1. CASE UNCHANGED <<cmdqueue, nreq>>
    BY <1>1 DEF TypeOK
  <1>2. ASSUME nreq < Last, nreq' = nreq + 1,
               NEW k \in Kinds, NEW d \in BOOLEAN,
               cmdqueue' = Append(cmdqueue, NewItem(k, d))
        PROVE  cmdqueue' \in Seq(Item) /\ nreq' \in 2..Last
    <2>1. NewItem(k, d) \in Item
      BY <1>2, NewItemType
    <2>2. QED
      BY <1>2, <2>1, RilAssumption DEF TypeOK
  <1>3. QED
    BY <1>1, <1>2 DEF CallbackRequest

(* What sendat does to the types, whatever the queue it is given *)
LEMMA SendAtType ==
    ASSUME TypeOK, NEW q \in Seq(Item), NEW reading \in BOOLEAN,
           NEW waiting \in BOOLEAN, SendAt(q, reading, waiting)
    PROVE  /\ cmdqueue' \in Seq(Item)
           /\ currcmd' \in Item \union {NoCmd}
           /\ delaying' \in BOOLEAN
           /\ atimer' \in BOOLEAN
           /\ wire' \in Seq(Sent)
  <1> DEFINE Goal == /\ cmdqueue' \in Seq(Item)
                     /\ currcmd' \in Item \union {NoCmd}
                     /\ delaying' \in BOOLEAN
                     /\ atimer' \in BOOLEAN
                     /\ wire' \in Seq(Sent)
  <1>1. CASE /\ cmdqueue' = q /\ delaying' = waiting
             /\ UNCHANGED <<currcmd, atimer, wire>>
    BY <1>1 DEF TypeOK
  <1>2. CASE /\ cmdqueue' = <<>> /\ delaying' = waiting
             /\ UNCHANGED <<currcmd, atimer, wire>>
    BY <1>2 DEF TypeOK
  <1>3. ASSUME NEW k \in 1..Len(q),
               cmdqueue' = PutBack(q[k], SubSeq(q, k + 1, Len(q))),
               delaying' = TRUE, UNCHANGED <<currcmd, atimer, wire>>
        PROVE  Goal
    <2>1. [q[k] EXCEPT !.delay = FALSE] \in Item
      <3>1. q[k] \in Item
        OBVIOUS
      <3>2. QED
        BY <3>1 DEF Item
    <2>2. SubSeq(q, k + 1, Len(q)) \in Seq(Item)
      OBVIOUS
    <2>3. cmdqueue' \in Seq(Item)
      BY <1>3, <2>1, <2>2 DEF PutBack
    <2>4. QED
      BY <1>3, <2>3 DEF TypeOK
  <1>4. ASSUME NEW k \in 1..Len(q),
               cmdqueue' = SubSeq(q, k + 1, Len(q)), currcmd' = q[k],
               wire' = Append(wire, [n |-> q[k].n, kind |-> q[k].kind,
                                     phase |-> "cmd"]),
               delaying' = waiting, atimer' = TRUE
        PROVE  Goal
    <2>1. q[k] \in Item
      OBVIOUS
    <2>2. [n |-> q[k].n, kind |-> q[k].kind, phase |-> "cmd"] \in Sent
      BY <2>1 DEF Item, Sent
    <2>3. wire' \in Seq(Sent)
      BY <1>4, <2>2 DEF TypeOK
    <2>4. QED
      BY <1>4, <2>1, <2>3
  <1>5. QED
    BY <1>1, <1>2, <1>3, <1>4 DEF SendAt

(* Lines and answers *)
LEMMA LineType ==
    ASSUME NEW t \in Tags, NEW a \in Nat
    PROVE  Ln(t, a) \in Line
  BY DEF Ln, Line

LEMMA AnswerType ==
    ASSUME NEW c \in Sent, NEW a \in Answers(c)
    PROVE  a \in Seq(Line)
  <1>1. c.n \in Nat
    BY RilAssumption DEF Sent
  <1>2. \A t \in Tags : Ln(t, c.n) \in Line
    BY <1>1, LineType
  <1>3. /\ Ln("ERROR", c.n) \in Line /\ Ln("OK", c.n) \in Line
        /\ Ln("INFO", c.n) \in Line /\ Ln("BODY", c.n) \in Line
        /\ Ln("RESULT", c.n) \in Line
    BY <1>2 DEF Tags
  <1>4. \/ a = <<Ln("ERROR", c.n)>> \/ a = <<Ln("OK", c.n)>>
        \/ a = <<Ln("INFO", c.n), Ln("BODY", c.n), Ln("OK", c.n)>>
        \/ a = <<Ln("INFO", c.n), Ln("OK", c.n)>>
        \/ a = <<Ln("RESULT", c.n)>>
    BY DEF Answers
  <1>5. /\ <<Ln("ERROR", c.n)>> \in Seq(Line)
        /\ <<Ln("OK", c.n)>> \in Seq(Line)
        /\ <<Ln("RESULT", c.n)>> \in Seq(Line)
        /\ <<Ln("INFO", c.n), Ln("OK", c.n)>> \in Seq(Line)
    BY <1>3
  <1>6. <<Ln("INFO", c.n), Ln("BODY", c.n), Ln("OK", c.n)>> \in Seq(Line)
    BY <1>3
  <1>7. QED
    BY <1>4, <1>5, <1>6

(* The boot commands are commands. *)
LEMMA BootType == Boot \in Seq(Item) /\ Len(Boot) = 2
  <1>1. /\ [n |-> 1, kind |-> "plain", delay |-> FALSE] \in Item
        /\ [n |-> 2, kind |-> "plain", delay |-> FALSE] \in Item
    BY RilAssumption DEF Item, Kinds
  <1>2. QED
    BY <1>1 DEF Boot

LEMMA SayType ==
    ASSUME TypeOK, NEW lines \in Seq(Line), Say(lines)
    PROVE  rx' \in Seq(Line) /\ wake' \in Nat
  BY DEF TypeOK, Say

(* Every variable keeps its type: for every number of requests, unsolicited *)
(* lines and payload lines, no step of the channel leaves the state its     *)
(* code expects.                                                            *)
THEOREM TypeCorrect == Spec => []TypeOK
  <1>1. Init => TypeOK
    <2> SUFFICES ASSUME Init PROVE TypeOK
      OBVIOUS
    <2>1. /\ cmdqueue \in Seq(Item) /\ nreq \in 2..Last
      BY BootType, RilAssumption DEF Init
    <2>2. rx \in Seq(Line) /\ wire \in Seq(Sent)
      BY DEF Init
    <2>3. QED
      BY <2>1, <2>2 DEF Init, TypeOK
  <1>2. TypeOK /\ [Next]_vars => TypeOK'
    <2> SUFFICES ASSUME TypeOK, [Next]_vars PROVE TypeOK'
      OBVIOUS
    <2>1. CASE Request
      <3>1. PICK k \in Kinds, d \in BOOLEAN :
              SendAt(Append(cmdqueue, NewItem(k, d)), readat, delaying)
        BY <2>1 DEF Request
      <3>2. NewItem(k, d) \in Item
        BY <2>1, NewItemType DEF Request
      <3>3. Append(cmdqueue, NewItem(k, d)) \in Seq(Item)
        BY <3>2 DEF TypeOK
      <3>4. /\ cmdqueue' \in Seq(Item) /\ currcmd' \in Item \union {NoCmd}
            /\ delaying' \in BOOLEAN /\ atimer' \in BOOLEAN
            /\ wire' \in Seq(Sent)
        BY <3>1, <3>3, SendAtType DEF TypeOK
      <3>5. QED
        BY <2>1, <3>4, RilAssumption DEF Request, TypeOK, uart
    <2>2. CASE DelayFunc
      <3>1. /\ cmdqueue' \in Seq(Item) /\ currcmd' \in Item \union {NoCmd}
            /\ delaying' \in BOOLEAN /\ atimer' \in BOOLEAN
            /\ wire' \in Seq(Sent)
        BY <2>2, SendAtType DEF DelayFunc, TypeOK
      <3>2. QED
        BY <2>2, <3>1 DEF DelayFunc, TypeOK, uart
    <2>3. CASE SetTransparentMode
      BY <2>3 DEF SetTransparentMode, TypeOK, uart, modem
    <2>4. CASE AtcBegin
      BY <2>4 DEF AtcBegin, TypeOK, modem
    <2>5. CASE AtcEnd
      <3>1. /\ cmdqueue' \in Seq(Item) /\ currcmd' \in Item \union {NoCmd}
            /\ delaying' \in BOOLEAN /\ atimer' \in BOOLEAN
            /\ wire' \in Seq(Sent)
        BY <2>5, SendAtType DEF AtcEnd, TypeOK
      <3>2. QED
        BY <2>5, <3>1 DEF AtcEnd, TypeOK, uart
    <2>6. CASE AtcTransparent
      BY <2>6 DEF AtcTransparent, TypeOK, lua, modem
    <2>7. CASE ReadLine
      <3> SUFFICES ASSUME TakeLine, ReadLine PROVE TypeOK'
        BY <2>7 DEF ReadLine, LineSwallowed, LineFiltered, LineUrc,
                    LineInfo, LinePrompt, LineFinal
      <3>1. /\ rx' \in Seq(Line) /\ Head(rx) \in Line
            /\ UNCHANGED <<readat, delaying, transparentmode, wake, booted,
                           nurc>>
        BY DEF TakeLine, TypeOK
      <3>2. CASE LineSwallowed
        BY <3>1, <3>2 DEF LineSwallowed, TypeOK
      <3>3. CASE LineFiltered
        BY <3>1, <3>3 DEF LineFiltered, TypeOK
      <3>4. CASE LineUrc
        <4>1. cmdqueue' \in Seq(Item) /\ nreq' \in 2..Last
          BY <3>4, CallbackType DEF LineUrc, TypeOK
        <4>2. urcfilter' \in Nat /\ radioready' \in BOOLEAN
          BY <3>1, <3>4 DEF LineUrc, FilterOf, Line, TypeOK
        <4>3. QED
          BY <3>1, <3>4, <4>1, <4>2 DEF LineUrc, TypeOK
      <3>5. CASE LineInfo
        BY <3>1, <3>5 DEF LineInfo, TypeOK
      <3>6. CASE LinePrompt
        <4>1. wire' \in Seq(Sent)
          <5> DEFINE w == [i \in DOMAIN wire |-> [wire[i] EXCEPT !.phase = "arg"]]
          <5>1. \A i \in DOMAIN wire : [wire[i] EXCEPT !.phase = "arg"] \in Sent
            <6>1. \A i \in DOMAIN wire : wire[i] \in Sent
              BY DEF TypeOK
            <6>2. QED
              BY <6>1 DEF Sent
          <5>2. w \in Seq(Sent)
            <6>1. DOMAIN wire = 1..Len(wire) /\ Len(wire) \in Nat
              BY DEF TypeOK
            <6>2. w \in [1..Len(wire) -> Sent]
              BY <5>1, <6>1
            <6>3. QED
              BY <6>1, <6>2, SeqDef
          <5>3. QED
            BY <3>6, <5>2 DEF LinePrompt, TypeOK
        <4>2. QED
          BY <3>1, <3>6, <4>1 DEF LinePrompt, TypeOK
      <3>7. CASE LineFinal
        <4>1. cmdqueue' \in Seq(Item) /\ nreq' \in 2..Last
          BY <3>7, CallbackType DEF LineFinal
        <4>2. QED
          BY <3>1, <3>7, <4>1 DEF LineFinal, Respond, TypeOK
      <3>8. QED
        BY <3>2, <3>3, <3>4, <3>5, <3>6, <3>7 DEF ReadLine
    <2>8. CASE Atimeout
      <3>1. cmdqueue' \in Seq(Item) /\ nreq' \in 2..Last
        BY <2>8, BootType, RilAssumption DEF Atimeout
      <3>2. rx' \in Seq(Line) /\ wire' \in Seq(Sent)
        BY <2>8 DEF Atimeout
      <3>3. QED
        BY <2>8, <3>1, <3>2 DEF Atimeout, TypeOK
    <2>9. CASE ModemReady
      <3>1. <<Ln("RDY", 0)>> \in Seq(Line)
        BY LineType DEF Tags
      <3>2. rx' \in Seq(Line) /\ wake' \in Nat
        BY <2>9, <3>1, SayType DEF ModemReady
      <3>3. QED
        BY <2>9, <3>2 DEF ModemReady, Say, TypeOK, lua
    <2>10. CASE ModemUrc
      <3>1. rx' \in Seq(Line) /\ wake' \in Nat
        <4>1. <<Ln("URC", 0)>> \in Seq(Line) /\ <<Ln("CLOSED", 0)>> \in Seq(Line)
          BY LineType DEF Tags
        <4>2. ASSUME NEW k \in 1..MaxPayload
              PROVE  <<Ln("RECEIVE", k)>> \o [i \in 1..k |-> Ln("PAYLOAD", 0)]
                       \in Seq(Line)
          <5>1. Ln("RECEIVE", k) \in Line /\ Ln("PAYLOAD", 0) \in Line
            BY LineType, RilAssumption DEF Tags
          <5>2. [i \in 1..k |-> Ln("PAYLOAD", 0)] \in Seq(Line)
            BY <5>1, RilAssumption
          <5>3. QED
            BY <5>1, <5>2
        <4>3. QED
          BY <2>10, <4>1, <4>2, SayType DEF ModemUrc
      <3>2. UNCHANGED lua
        BY <2>10 DEF ModemUrc, Say
      <3>3. nurc' \in Nat /\ UNCHANGED <<wire, booted>>
        BY <2>10 DEF ModemUrc, TypeOK
      <3>4. QED
        BY <3>1, <3>2, <3>3 DEF TypeOK, lua
    <2>11. CASE ModemPrepares
      <3> DEFINE c == Head(wire)
      <3>1. c \in Sent /\ Tail(wire) \in Seq(Sent)
        BY <2>11 DEF ModemPrepares, TypeOK
      <3>2. Ln("INFO", c.n) \in Line /\ Ln("PROMPT", c.n) \in Line
        BY <3>1, LineType, RilAssumption DEF Tags, Sent
      <3>3. rx' \in Seq(Line) /\ wake' \in Nat /\ UNCHANGED lua
        <4>1. <<Ln("INFO", c.n)>> \in Seq(Line) /\ <<Ln("PROMPT", c.n)>> \in Seq(Line)
          BY <3>2
        <4>2. Say(<<Ln("INFO", c.n)>>) \/ Say(<<Ln("PROMPT", c.n)>>)
          BY <2>11 DEF ModemPrepares
        <4>3. QED
          BY <4>1, <4>2, SayType DEF Say
      <3>4. wire' \in Seq(Sent)
        <4>1. /\ [c EXCEPT !.phase = "info"] \in Sent
              /\ [c EXCEPT !.phase = "prompt"] \in Sent
          BY <3>1 DEF Sent
        <4>2. \/ wire' = <<[c EXCEPT !.phase = "info"]>> \o Tail(wire)
              \/ wire' = <<[c EXCEPT !.phase = "prompt"]>> \o Tail(wire)
          BY <2>11 DEF ModemPrepares
        <4>3. /\ <<[c EXCEPT !.phase = "info"]>> \in Seq(Sent)
              /\ <<[c EXCEPT !.phase = "prompt"]>> \in Seq(Sent)
          BY <4>1
        <4>4. \A u, v \in Seq(Sent) : u \o v \in Seq(Sent)
          OBVIOUS
        <4>5. QED
          BY <3>1, <4>2, <4>3, <4>4
      <3>5. QED
        BY <2>11, <3>3, <3>4 DEF ModemPrepares, TypeOK, lua
    <2>12. CASE ModemAnswers
      <3>1. Head(wire) \in Sent /\ wire' \in Seq(Sent)
        BY <2>12 DEF ModemAnswers, TypeOK
      <3>2. PICK a \in Answers(Head(wire)) : Say(a)
        BY <2>12 DEF ModemAnswers
      <3>3. rx' \in Seq(Line) /\ wake' \in Nat /\ UNCHANGED lua
        BY <3>1, <3>2, AnswerType, SayType DEF Say
      <3>4. QED
        BY <2>12, <3>1, <3>3 DEF ModemAnswers, TypeOK, lua
    <2>13. CASE UNCHANGED vars
      BY <2>13 DEF vars, lua, uart, modem, TypeOK
    <2>14. QED
      BY <2>1, <2>2, <2>3, <2>4, <2>5, <2>6, <2>7, <2>8, <2>9, <2>10,
         <2>11, <2>12, <2>13 DEF Next
  <1>3. QED
    BY <1>1, <1>2, PTL DEF Spec

----------------------------------------------------------------------------
(* Order.  Sorted states InOrder of any queue.                             *)

Sorted(q, low, high) ==
    /\ \A i, j \in 1..Len(q) : i < j => q[i].n < q[j].n
    /\ \A i \in 1..Len(q) : low < q[i].n /\ q[i].n <= high

LEMMA ItemNumber ==
    ASSUME NEW q \in Seq(Item), NEW i \in 1..Len(q)
    PROVE  q[i] \in Item /\ q[i].n \in Nat /\ q[i].n # 0
  <1>1. q[i] \in Item
    OBVIOUS
  <1>2. QED
    BY <1>1, RilAssumption DEF Item

LEMMA SortedAppend ==
    ASSUME NEW q \in Seq(Item), NEW low \in Nat, NEW high \in Nat,
           NEW item \in Item, Sorted(q, low, high), low <= high,
           item.n = high + 1
    PROVE  Sorted(Append(q, item), low, high + 1)
  <1> DEFINE r == Append(q, item)
  <1>1. /\ Len(r) = Len(q) + 1 /\ Len(q) \in Nat
        /\ \A i \in 1..Len(q) : r[i] = q[i]
        /\ r[Len(q) + 1] = item
    OBVIOUS
  <1>2. \A i \in 1..Len(q) : q[i].n \in Nat
    BY ItemNumber
  <1>3. QED
    BY <1>1, <1>2 DEF Sorted

LEMMA SortedSuffix ==
    ASSUME NEW q \in Seq(Item), NEW low \in Nat, NEW high \in Nat,
           NEW k \in 1..Len(q), Sorted(q, low, high)
    PROVE  LET r == SubSeq(q, k + 1, Len(q))
           IN  /\ Sorted(r, q[k].n, high)
               /\ \A i \in 1..Len(r) : r[i] = q[k + i]
               /\ Len(r) = Len(q) - k
  <1> DEFINE r == SubSeq(q, k + 1, Len(q))
  <1>1. Len(q) \in Nat /\ Len(r) = Len(q) - k
    OBVIOUS
  <1>2. \A i \in 1..Len(r) : r[i] = q[k + i] /\ k + i \in 1..Len(q)
    BY <1>1
  <1> HIDE DEF r
  <1>3. \A i \in 1..Len(r) : q[k].n < r[i].n /\ r[i].n <= high
    <2> TAKE i \in 1..Len(r)
    <2>1. r[i] = q[k + i] /\ k + i \in 1..Len(q) /\ k < k + i
      BY <1>1, <1>2
    <2>2. QED
      BY <2>1 DEF Sorted
  <1>4. \A i, j \in 1..Len(r) : i < j => r[i].n < r[j].n
    <2> TAKE i, j \in 1..Len(r)
    <2> HAVE i < j
    <2>1. /\ r[i] = q[k + i] /\ k + i \in 1..Len(q)
          /\ r[j] = q[k + j] /\ k + j \in 1..Len(q) /\ k + i < k + j
      BY <1>1, <1>2
    <2>2. QED
      BY <2>1 DEF Sorted
  <1>5. Sorted(r, q[k].n, high)
    BY <1>3, <1>4 DEF Sorted
  <1>6. QED
    BY <1>1, <1>2, <1>5 DEF r

LEMMA SortedWeaker ==
    ASSUME NEW q \in Seq(Item), NEW low \in Nat, NEW high \in Nat,
           NEW lower \in Nat, lower <= low, Sorted(q, low, high)
    PROVE  Sorted(q, lower, high)
  <1>1. \A i \in 1..Len(q) : q[i].n \in Nat
    BY ItemNumber
  <1>2. QED
    BY <1>1 DEF Sorted

LEMMA SortedPutBack ==
    ASSUME NEW q \in Seq(Item), NEW low \in Nat, NEW high \in Nat,
           NEW k \in 1..Len(q), Sorted(q, low, high)
    PROVE  Sorted(PutBack(q[k], SubSeq(q, k + 1, Len(q))), low, high)
  <1> DEFINE r == SubSeq(q, k + 1, Len(q))
             p == PutBack(q[k], r)
             h == [q[k] EXCEPT !.delay = FALSE]
  <1>1. q[k] \in Item /\ q[k].n \in Nat
    BY ItemNumber
  <1>2. h \in Item /\ h.n = q[k].n /\ q[k].n \in Nat
    BY <1>1 DEF Item
  <1>3. r \in Seq(Item) /\ Sorted(r, q[k].n, high)
    BY SortedSuffix
  <1>4. low < q[k].n /\ q[k].n <= high
    BY DEF Sorted
  <1>5. /\ Len(p) = Len(r) + 1 /\ Len(r) \in Nat /\ p[1] = h
        /\ \A i \in 2..Len(p) : p[i] = r[i - 1] /\ i - 1 \in 1..Len(r)
    <2> HIDE DEF r
    <2>1. p = <<h>> \o r /\ <<h>> \in Seq(Item) /\ Len(<<h>>) = 1
      BY <1>2 DEF PutBack
    <2> HIDE DEF p, h
    <2>2. Len(r) \in Nat /\ Len(p) = Len(r) + 1
      BY <1>3, <2>1
    <2>3. p[1] = h
      BY <1>3, <2>1, <2>2
    <2>4. \A i \in 2..Len(p) : p[i] = r[i - 1]
      BY <1>3, <2>1, <2>2
    <2>5. QED
      BY <2>2, <2>3, <2>4
  <1>6. \A i \in 1..Len(r) : r[i].n \in Nat
    BY <1>3, ItemNumber
  <1>7. \A i \in 2..Len(p) : h.n < p[i].n /\ p[i].n <= high /\ p[i].n \in Nat
    BY <1>2, <1>3, <1>5, <1>6 DEF Sorted
  <1>8. \A i, j \in 2..Len(p) : i < j => p[i].n < p[j].n
    <2>1. ASSUME NEW i \in 2..Len(p), NEW j \in 2..Len(p), i < j
          PROVE  p[i].n < p[j].n
      <3>0. i - 1 < j - 1
        BY <2>1
      <3>1. i - 1 \in 1..Len(r) /\ j - 1 \in 1..Len(r) /\ i - 1 < j - 1
        BY <3>0, <1>5
      <3>2. r[i - 1].n < r[j - 1].n
        BY <3>1, <1>3 DEF Sorted
      <3>3. QED
        BY <3>1, <3>2, <1>5
    <2>2. QED
      BY <2>1
  <1>9. \A i \in 1..Len(p) : i = 1 \/ i \in 2..Len(p)
    BY <1>5
  <1>10. \A i, j \in 1..Len(p) : i < j => p[i].n < p[j].n
    <2>1. ASSUME NEW i \in 1..Len(p), NEW j \in 1..Len(p), i < j
          PROVE  p[i].n < p[j].n
      <3>1. j \in 2..Len(p)
        BY <2>1, <1>5
      <3>2. QED
        BY <2>1, <3>1, <1>2, <1>5, <1>7, <1>8, <1>9
    <2>2. QED
      BY <2>1
  <1>11. \A i \in 1..Len(p) : low < p[i].n /\ p[i].n <= high
    <2>1. ASSUME NEW i \in 2..Len(p) PROVE low < p[i].n
      BY <2>1, <1>2, <1>4, <1>7
    <2>2. QED
      BY <2>1, <1>2, <1>4, <1>5, <1>7, <1>9
  <1>12. QED
    BY <1>10, <1>11 DEF Sorted

(* The number of a command in execution *)
LEMMA NumberType ==
    ASSUME TypeOK
    PROVE  /\ currcmd.n \in Nat /\ nreq \in Nat
           /\ \A i \in 1..Len(cmdqueue) : cmdqueue[i].n \in Nat
           /\ currcmd # NoCmd <=> currcmd.n # 0
  <1>1. \A i \in 1..Len(cmdqueue) : cmdqueue[i].n \in Nat
    BY ItemNumber DEF TypeOK
  <1>2. /\ currcmd.n \in Nat /\ nreq \in Nat
        /\ currcmd # NoCmd <=> currcmd.n # 0
    BY RilAssumption DEF TypeOK, Item, NoCmd
  <1>3. QED
    BY <1>1, <1>2

(* InOrder needs the command in execution to be numbered by a request.     *)
Numbered == currcmd.n <= nreq

OrderInv == Sorted(cmdqueue, currcmd.n, nreq) /\ Numbered

LEMMA SendAtOrder ==
    ASSUME TypeOK, NEW q \in Seq(Item), NEW reading \in BOOLEAN,
           NEW waiting \in BOOLEAN, SendAt(q, reading, waiting),
           NEW high \in Nat, Sorted(q, currcmd.n, high), currcmd.n <= high
    PROVE  Sorted(cmdqueue', currcmd'.n, high) /\ currcmd'.n <= high
  <1>0. currcmd.n \in Nat
    BY NumberType
  <1>1. CASE cmdqueue' \in {q, <<>>} /\ UNCHANGED currcmd
    BY <1>1 DEF Sorted
  <1>2. ASSUME NEW k \in 1..Len(q),
               cmdqueue' = PutBack(q[k], SubSeq(q, k + 1, Len(q))),
               UNCHANGED currcmd
        PROVE  Sorted(cmdqueue', currcmd'.n, high) /\ currcmd'.n <= high
    BY <1>0, <1>2, SortedPutBack
  <1>3. ASSUME NEW k \in 1..Len(q),
               cmdqueue' = SubSeq(q, k + 1, Len(q)), currcmd' = q[k]
        PROVE  Sorted(cmdqueue', currcmd'.n, high) /\ currcmd'.n <= high
    <2>1. Sorted(cmdqueue', q[k].n, high)
      BY <1>0, <1>3, SortedSuffix
    <2>2. q[k].n <= high
      BY DEF Sorted
    <2>3. QED
      BY <1>3, <2>1, <2>2
  <1>4. QED
    BY <1>1, <1>2, <1>3 DEF SendAt

LEMMA CallbackOrder ==
    ASSUME TypeOK, OrderInv, CallbackRequest, NEW low \in Nat,
           low <= currcmd.n
    PROVE  Sorted(cmdqueue', low, nreq') /\ low <= nreq'
  <1>0. currcmd.n \in Nat /\ nreq \in Nat /\ cmdqueue \in Seq(Item)
    BY NumberType DEF TypeOK
  <1>1. Sorted(cmdqueue, low, nreq) /\ low <= nreq
    BY <1>0, SortedWeaker DEF OrderInv, Numbered
  <1>2. CASE UNCHANGED <<cmdqueue, nreq>>
    BY <1>1, <1>2
  <1>3. ASSUME nreq < Last, nreq' = nreq + 1,
               NEW k \in Kinds, NEW d \in BOOLEAN,
               cmdqueue' = Append(cmdqueue, NewItem(k, d))
        PROVE  Sorted(cmdqueue', low, nreq') /\ low <= nreq'
    <2>1. NewItem(k, d) \in Item /\ NewItem(k, d).n = nreq + 1
      BY <1>3, NewItemType DEF NewItem
    <2>2. QED
      BY <1>0, <1>1, <1>3, <2>1, SortedAppend
  <1>4. QED
    BY <1>2, <1>3 DEF CallbackRequest

(* Commands are executed in the order of their requests, however handlers, *)
(* the delay and the time-out interleave.                                  *)
THEOREM ExecutedInOrder == Spec => []InOrder
  <1>1. Init => OrderInv
    BY BootType DEF Init, OrderInv, Sorted, Numbered, Boot, NoCmd
  <1>2. TypeOK /\ OrderInv /\ [Next]_vars => OrderInv'
    <2> SUFFICES ASSUME TypeOK, OrderInv, [Next]_vars PROVE OrderInv'
      OBVIOUS
    <2>0. currcmd.n \in Nat /\ nreq \in Nat /\ cmdqueue \in Seq(Item)
      BY NumberType DEF TypeOK
    <2>1. CASE Request
      <3>1. PICK k \in Kinds, d \in BOOLEAN :
              SendAt(Append(cmdqueue, NewItem(k, d)), readat, delaying)
        BY <2>1 DEF Request
      <3>2. NewItem(k, d) \in Item /\ NewItem(k, d).n = nreq + 1
        BY <2>1, NewItemType DEF Request, NewItem
      <3>3. Sorted(Append(cmdqueue, NewItem(k, d)), currcmd.n, nreq + 1)
        BY <2>0, <3>2, SortedAppend DEF OrderInv, Numbered
      <3>4. /\ Append(cmdqueue, NewItem(k, d)) \in Seq(Item)
            /\ nreq + 1 \in Nat /\ currcmd.n <= nreq + 1
        BY <2>0, <3>2 DEF OrderInv, Numbered
      <3>5. Sorted(cmdqueue', currcmd'.n, nreq + 1) /\ currcmd'.n <= nreq + 1
        BY <3>1, <3>3, <3>4, SendAtOrder DEF TypeOK
      <3>6. QED
        BY <2>1, <3>5 DEF Request, OrderInv, Numbered
    <2>2. CASE DelayFunc
      <3>1. Sorted(cmdqueue', currcmd'.n, nreq) /\ currcmd'.n <= nreq
        BY <2>0, <2>2, SendAtOrder DEF DelayFunc, TypeOK, OrderInv, Numbered
      <3>2. QED
        BY <2>2, <3>1 DEF DelayFunc, OrderInv, Numbered
    <2>3. CASE AtcEnd
      <3>1. Sorted(cmdqueue', currcmd'.n, nreq) /\ currcmd'.n <= nreq
        BY <2>0, <2>3, SendAtOrder DEF AtcEnd, TypeOK, OrderInv, Numbered
      <3>2. QED
        BY <2>3, <3>1 DEF AtcEnd, OrderInv, Numbered
    <2>4. CASE LineUrc
      <3>1. CASE UNCHANGED <<cmdqueue, nreq>>
        BY <2>4, <3>1 DEF LineUrc, OrderInv, Numbered
      <3>2. CASE CallbackRequest
        <4>1. Sorted(cmdqueue', currcmd.n, nreq') /\ currcmd.n <= nreq'
          BY <2>0, <3>2, CallbackOrder
        <4>2. QED
          BY <2>4, <4>1 DEF LineUrc, OrderInv, Numbered
      <3>3. QED
        BY <2>4, <3>1, <3>2 DEF LineUrc
    <2>5. CASE LineFinal
      <3>1. Sorted(cmdqueue', 0, nreq') /\ 0 <= nreq'
        BY <2>0, <2>5, CallbackOrder DEF LineFinal
      <3>2. QED
        BY <2>5, <3>1 DEF LineFinal, Respond, OrderInv, Numbered, NoCmd
    <2>6. CASE Atimeout
      BY <2>6, BootType
      DEF Atimeout, OrderInv, Sorted, Numbered, Boot, NoCmd
    <2>7. CASE UNCHANGED <<cmdqueue, currcmd, nreq>>
      BY <2>7 DEF OrderInv, Numbered
    <2>8. QED
      BY <2>1, <2>2, <2>3, <2>4, <2>5, <2>6, <2>7
      DEF Next, ReadLine, LineSwallowed, LineFiltered, LineInfo, LinePrompt,
          SetTransparentMode, AtcBegin, AtcTransparent, ModemReady, ModemUrc,
          ModemPrepares, ModemAnswers, Say, vars, lua
  <1>3. OrderInv => InOrder
    BY DEF OrderInv, Sorted, InOrder
  <1>4. QED
    BY <1>1, <1>2, <1>3, TypeCorrect, PTL DEF Spec

----------------------------------------------------------------------------
(* No stall: the three facts are inductive together.                       *)

StallInv == TimerGuardsCommand /\ NoStall /\ DelayIsForHead

LEMMA PutBackHead ==
    ASSUME NEW item \in Item, NEW q \in Seq(Item)
    PROVE  /\ PutBack(item, q) # <<>>
           /\ Head(PutBack(item, q)).kind = item.kind
           /\ ~Head(PutBack(item, q)).delay
  <1>1. [item EXCEPT !.delay = FALSE] \in Item
    BY DEF Item
  <1>2. [item EXCEPT !.delay = FALSE].kind = item.kind
    BY DEF Item
  <1>3. ~[item EXCEPT !.delay = FALSE].delay
    BY DEF Item
  <1>4. Head(PutBack(item, q)) = [item EXCEPT !.delay = FALSE]
    BY <1>1 DEF PutBack
  <1>5. PutBack(item, q) # <<>>
    BY <1>1 DEF PutBack
  <1>6. QED
    BY <1>2, <1>3, <1>4, <1>5

LEMMA AppendHead ==
    ASSUME NEW item \in Item, NEW q \in Seq(Item)
    PROVE  /\ Append(q, item) # <<>>
           /\ q # <<>> => Head(Append(q, item)) = Head(q)
  BY AppendProperties, HeadTailAppend

(* sendat, called outside the reader with a queue that keeps the head of   *)
(* the one delayed, leaves no command behind.                              *)
LEMMA SendAtStall ==
    ASSUME TypeOK, TimerGuardsCommand, NEW q \in Seq(Item),
           NEW waiting \in BOOLEAN, SendAt(q, FALSE, waiting),
           radioready' = radioready,
           waiting => /\ currcmd = NoCmd /\ q # <<>>
                      /\ Head(q).kind # "bad" /\ ~Head(q).delay
    PROVE  StallInv'
  <1> USE DEF StallInv, TimerGuardsCommand, NoStall, DelayIsForHead
  <1>1. CASE /\ Blocked(FALSE, waiting) \/ q = <<>>
             /\ cmdqueue' = q /\ delaying' = waiting
             /\ UNCHANGED <<currcmd, atimer>>
    BY <1>1 DEF Blocked
  <1>2. CASE /\ ~Blocked(FALSE, waiting)
             /\ cmdqueue' = <<>> /\ delaying' = waiting
             /\ UNCHANGED <<currcmd, atimer>>
    BY <1>2 DEF Blocked
  <1>3. ASSUME ~Blocked(FALSE, waiting),
               NEW k \in 1..Len(q), FirstGood(q, k),
               cmdqueue' = PutBack(q[k], SubSeq(q, k + 1, Len(q))),
               delaying' = TRUE, UNCHANGED <<currcmd, atimer>>
        PROVE  StallInv'
    <2>1. q[k] \in Item /\ SubSeq(q, k + 1, Len(q)) \in Seq(Item)
      OBVIOUS
    <2>2. /\ cmdqueue' # <<>> /\ Head(cmdqueue').kind # "bad"
          /\ ~Head(cmdqueue').delay
      BY <1>3, <2>1, PutBackHead DEF FirstGood
    <2>3. currcmd = NoCmd
      BY <1>3 DEF Blocked
    <2>4. QED
      BY <1>3, <2>2, <2>3
  <1>4. ASSUME ~Blocked(FALSE, waiting), NEW k \in 1..Len(q),
               currcmd' = q[k], delaying' = waiting, atimer' = TRUE
        PROVE  StallInv'
    <2>1. q[k].n # 0
      BY ItemNumber
    <2>2. currcmd' # NoCmd
      BY <1>4, <2>1 DEF NoCmd
    <2>3. ~delaying'
      BY <1>4 DEF Blocked
    <2>4. QED
      BY <1>4, <2>2, <2>3
  <1>5. QED
    BY <1>1, <1>2, <1>3, <1>4 DEF SendAt

(* A handler under the reader may only lengthen the queue. *)
LEMMA CallbackDelay ==
    ASSUME TypeOK, DelayIsForHead, CallbackRequest, delaying' = delaying,
           delaying => currcmd' = NoCmd
    PROVE  DelayIsForHead'
  <1>1. CASE UNCHANGED <<cmdqueue, nreq>>
    BY <1>1 DEF DelayIsForHead
  <1>2. ASSUME nreq < Last, NEW k \in Kinds, NEW d \in BOOLEAN,
               cmdqueue' = Append(cmdqueue, NewItem(k, d))
        PROVE  DelayIsForHead'
    <2>1. NewItem(k, d) \in Item
      BY <1>2, NewItemType
    <2>2. /\ cmdqueue' # <<>>
          /\ cmdqueue # <<>> => Head(cmdqueue') = Head(cmdqueue)
      BY <1>2, <2>1, AppendHead DEF TypeOK
    <2>3. QED
      BY <2>2 DEF DelayIsForHead
  <1>3. QED
    BY <1>1, <1>2 DEF CallbackRequest

LEMMA StallInductive == Spec => []StallInv
  <1>1. Init => StallInv
    BY DEF Init, StallInv, TimerGuardsCommand, NoStall, DelayIsForHead
  <1>2. TypeOK /\ StallInv /\ [Next]_vars => StallInv'
    <2> SUFFICES ASSUME TypeOK, StallInv, [Next]_vars PROVE StallInv'
      OBVIOUS
    <2>0. /\ TimerGuardsCommand
          /\ delaying => /\ currcmd = NoCmd /\ cmdqueue # <<>>
                         /\ Head(cmdqueue).kind # "bad"
                         /\ ~Head(cmdqueue).delay
      BY DEF StallInv, DelayIsForHead
    <2>1. CASE Request
      <3>1. PICK k \in Kinds, d \in BOOLEAN :
              SendAt(Append(cmdqueue, NewItem(k, d)), readat, delaying)
        BY <2>1 DEF Request
      <3> DEFINE q == Append(cmdqueue, NewItem(k, d))
      <3>2. NewItem(k, d) \in Item
        BY <2>1, NewItemType DEF Request
      <3>3. /\ q \in Seq(Item) /\ q # <<>>
            /\ cmdqueue # <<>> => Head(q) = Head(cmdqueue)
        BY <3>2, AppendHead DEF TypeOK
      <3>4. delaying => /\ currcmd = NoCmd /\ q # <<>>
                        /\ Head(q).kind # "bad" /\ ~Head(q).delay
        BY <2>0, <3>3
      <3>5. /\ SendAt(q, FALSE, delaying) /\ radioready' = radioready
            /\ delaying \in BOOLEAN
        BY <2>1, <3>1 DEF Request, TypeOK
      <3> HIDE DEF q
      <3>6. QED
        BY <2>0, <3>3, <3>4, <3>5, SendAtStall
    <2>2. CASE DelayFunc
      <3>1. /\ SendAt(cmdqueue, FALSE, FALSE) /\ radioready' = radioready
            /\ cmdqueue \in Seq(Item)
        BY <2>2 DEF DelayFunc, TypeOK
      <3>2. QED
        BY <2>0, <3>1, SendAtStall
    <2>3. CASE AtcEnd
      <3>1. /\ SendAt(cmdqueue, FALSE, delaying) /\ radioready' = radioready
            /\ cmdqueue \in Seq(Item) /\ delaying \in BOOLEAN
        BY <2>3 DEF AtcEnd, TypeOK
      <3>2. QED
        BY <2>0, <3>1, SendAtStall
    <2>4. CASE LineUrc
      <3>1. readat' /\ UNCHANGED <<currcmd, atimer, delaying>>
        BY <2>4 DEF LineUrc, TakeLine
      <3>2. CallbackRequest
        BY <2>4 DEF LineUrc, CallbackRequest
      <3>3. DelayIsForHead'
        BY <2>0, <3>1, <3>2, CallbackDelay DEF StallInv
      <3>4. QED
        BY <3>1, <3>3 DEF StallInv, TimerGuardsCommand, NoStall
    <2>5. CASE LineFinal
      <3>1. /\ readat' /\ delaying' = delaying /\ CallbackRequest
            /\ atimer' = FALSE /\ currcmd' = NoCmd
        BY <2>5 DEF LineFinal, TakeLine, Respond
      <3>2. DelayIsForHead'
        BY <3>1, CallbackDelay DEF StallInv
      <3>3. QED
        BY <3>1, <3>2 DEF StallInv, TimerGuardsCommand, NoStall
    <2>6. CASE Atimeout
      BY <2>6
      DEF Atimeout, StallInv, TimerGuardsCommand, NoStall, DelayIsForHead
    <2>7. CASE /\ UNCHANGED <<radioready, currcmd, atimer, delaying, cmdqueue>>
               /\ readat => readat'
      BY <2>7 DEF StallInv, TimerGuardsCommand, NoStall, DelayIsForHead
    <2>8. CASE LineSwallowed \/ LineFiltered \/ LineInfo \/ LinePrompt
      BY <2>7, <2>8
      DEF LineSwallowed, LineFiltered, LineInfo, LinePrompt, TakeLine
    <2>9. CASE SetTransparentMode \/ AtcBegin \/ AtcTransparent
      BY <2>7, <2>9 DEF SetTransparentMode, AtcBegin, AtcTransparent, lua
    <2>10. CASE \/ ModemReady \/ ModemUrc \/ ModemPrepares \/ ModemAnswers
                \/ UNCHANGED vars
      <3>1. UNCHANGED lua
        BY <2>10 DEF ModemReady, ModemUrc, ModemPrepares, ModemAnswers, Say,
                     vars
      <3>2. QED
        BY <2>7, <3>1 DEF lua
    <2>11. QED
      BY <2>1, <2>2, <2>3, <2>4, <2>5, <2>6, <2>8, <2>9, <2>10
      DEF Next, ReadLine
  <1>3. QED
    BY <1>1, <1>2, TypeCorrect, PTL DEF Spec

(* The channel is consistent with its timers (ril.lua 93-96, 157-170, 438- *)
(* 492): Inv, for any requests and any modem.                              *)
THEOREM ChannelIsSound == Spec => []Inv
  <1>1. TypeOK /\ StallInv => Inv
    BY DEF Inv, StallInv
  <1>2. QED
    BY <1>1, TypeCorrect, StallInductive, PTL

(* No request is forgotten: between messages a ready channel with commands *)
(* waiting is executing one or waits for a running delay.                  *)
THEOREM NeverStalls == Spec => []NoStall
  <1>1. StallInv => NoStall
    BY DEF StallInv
  <1>2. QED
    BY <1>1, StallInductive, PTL

(* The response time-out runs exactly while a command is in execution: no  *)
(* command can hang the channel, and an idle system is never restarted.    *)
THEOREM TimeoutGuards == Spec => []TimerGuardsCommand
  <1>1. StallInv => TimerGuardsCommand
    BY DEF StallInv
  <1>2. QED
    BY <1>1, StallInductive, PTL

(* During a delay nothing is in execution, and the delayed command is next *)
(* and has no delay left.                                                  *)
THEOREM DelayHoldsHead == Spec => []DelayIsForHead
  <1>1. StallInv => DelayIsForHead
    BY DEF StallInv
  <1>2. QED
    BY <1>1, StallInductive, PTL
----------------------------------------------------------------------------
(* Induction over a set of numbers: a smallest number that is not in the   *)
(* set would have a predecessor that is.                                   *)

LEMMA SmallestOfSet ==
    ASSUME NEW T, T \subseteq Nat, T # {}
    PROVE  \E x \in T : \A y \in T : x <= y
  <1> DEFINE R == OpToRel(<, Nat)
  <1>1. IsWellFoundedOn(R, Nat)
    BY NatLessThanWellFounded
  <1>2. \A x, y \in Nat : x < y => <<x, y>> \in R
    BY DEF OpToRel
  <1> HIDE DEF R
  <1>3. PICK x \in T : \A y \in T : ~ (<<y, x>> \in R)
    BY <1>1, WFMin
  <1>4. ASSUME NEW y \in T PROVE x <= y
    <2>1. x \in Nat /\ y \in Nat /\ ~(y < x)
      BY <1>2, <1>3
    <2>2. QED
      BY <2>1
  <1>5. QED
    BY <1>3, <1>4

LEMMA SetInduction ==
    ASSUME NEW T, 0 \in T, \A n \in Nat : n \in T => n + 1 \in T
    PROVE  \A n \in Nat : n \in T
  <1> SUFFICES ASSUME Nat \ T # {} PROVE FALSE
    OBVIOUS
  <1>1. PICK x \in Nat \ T : \A y \in Nat \ T : x <= y
    BY SmallestOfSet
  <1>2. x - 1 \in Nat /\ x - 1 \in T
    BY <1>1
  <1>3. QED
    BY <1>1, <1>2

----------------------------------------------------------------------------
(* Tickets, which is defined by a recursion over the queue.                *)

(* One turn of the recursion *)
Good(q, f, i) ==
    IF i = 0 THEN <<>>
    ELSE IF q[i].kind = "bad" THEN f[i - 1]
    ELSE Append(f[i - 1], q[i].n)

GoodOf(q) == CHOOSE f : f = [i \in 0..Len(q) |-> Good(q, f, i)]

LEMMA TicketsAreGood ==
    ASSUME NEW q
    PROVE  Tickets(q) = GoodOf(q)[Len(q)]
  BY DEF Tickets, GoodOf, Good

LEMMA GoodExists ==
    ASSUME NEW q
    PROVE  \A n \in Nat : \E f : f = [i \in 0..n |-> Good(q, f, i)]
  <1> DEFINE Solves(f, n) == f = [i \in 0..n |-> Good(q, f, i)]
             T == {n \in Nat : \E f : Solves(f, n)}
  <1>1. 0 \in T
    <2> DEFINE f == [i \in 0..0 |-> <<>>]
    <2>1. [i \in 0..0 |-> Good(q, f, i)] = f
      BY DEF Good
    <2> HIDE DEF f
    <2>2. Solves(f, 0)
      BY <2>1
    <2>3. QED
      BY <2>2
  <1>2. ASSUME NEW n \in Nat, n \in T PROVE n + 1 \in T
    <2>1. PICK f : Solves(f, n)
      BY <1>2
    <2> DEFINE g == [i \in 0..n + 1 |->
                       IF i = n + 1 THEN Good(q, f, n + 1) ELSE f[i]]
    <2>2. ASSUME NEW i \in 0..n + 1 PROVE Good(q, g, i) = g[i]
      <3>1. CASE i = 0
        <4>1. g[i] = f[0] /\ f[0] = Good(q, f, 0)
          BY <3>1, <2>1
        <4>2. QED
          BY <4>1, <3>1 DEF Good
      <3>2. CASE i # 0
        <4>1. i - 1 \in 0..n + 1 /\ i - 1 # n + 1
          BY <3>2
        <4>2. g[i - 1] = f[i - 1]
          BY <4>1
        <4>3. g[i] = Good(q, f, i)
          <5>1. CASE i = n + 1
            BY <5>1
          <5>2. CASE i # n + 1
            <6>1. i \in 0..n
              BY <5>2
            <6>2. f[i] = Good(q, f, i)
              BY <6>1, <2>1
            <6>3. QED
              BY <6>2, <5>2
          <5>3. QED
            BY <5>1, <5>2
        <4> HIDE DEF g
        <4>4. QED
          BY <4>2, <4>3, <3>2 DEF Good
      <3>3. QED
        BY <3>1, <3>2
    <2>3. [i \in 0..n + 1 |-> Good(q, g, i)] = [i \in 0..n + 1 |-> g[i]]
      BY <2>2
    <2>4. g = [i \in 0..n + 1 |-> g[i]]
      OBVIOUS
    <2> HIDE DEF g
    <2>5. Solves(g, n + 1)
      BY <2>3, <2>4
    <2>6. QED
      BY <2>5
  <1>3. \A n \in Nat : n \in T
    <2> HIDE DEF T
    <2>1. QED
      BY <1>1, <1>2, SetInduction
  <1>4. QED
    BY <1>3

LEMMA GoodFacts ==
    ASSUME NEW q \in Seq(Item)
    PROVE  /\ GoodOf(q)[0] = <<>>
           /\ \A i \in 1..Len(q) :
                /\ q[i].kind = "bad" => GoodOf(q)[i] = GoodOf(q)[i - 1]
                /\ q[i].kind # "bad" =>
                     GoodOf(q)[i] = Append(GoodOf(q)[i - 1], q[i].n)
           /\ \A i \in 0..Len(q) : GoodOf(q)[i] \in Seq(Nat)
  <1> DEFINE f == GoodOf(q)
  <1>0. Len(q) \in Nat
    OBVIOUS
  <1>1. f = [i \in 0..Len(q) |-> Good(q, f, i)]
    BY <1>0, GoodExists DEF GoodOf
  <1> HIDE DEF f
  <1>2. \A i \in 0..Len(q) : f[i] = Good(q, f, i)
    BY <1>1
  <1>3. f[0] = <<>>
    BY <1>0, <1>2 DEF Good
  <1>4. ASSUME NEW i \in 1..Len(q)
        PROVE  /\ q[i].kind = "bad" => f[i] = f[i - 1]
               /\ q[i].kind # "bad" => f[i] = Append(f[i - 1], q[i].n)
    <2>1. i \in 0..Len(q) /\ i # 0
      BY <1>0
    <2>2. QED
      BY <2>1, <1>2 DEF Good
  <1>5. \A i \in 0..Len(q) : f[i] \in Seq(Nat)
    <2> DEFINE T == {n \in Nat : n <= Len(q) => f[n] \in Seq(Nat)}
    <2>1. 0 \in T
      <3>1. f[0] \in Seq(Nat)
        BY <1>3
      <3>2. QED
        BY <3>1
    <2>2. ASSUME NEW n \in Nat, n \in T PROVE n + 1 \in T
      <3> SUFFICES ASSUME n + 1 <= Len(q) PROVE f[n + 1] \in Seq(Nat)
        OBVIOUS
      <3> DEFINE m == n + 1
      <3>1. m \in 1..Len(q) /\ m - 1 = n /\ f[n] \in Seq(Nat)
        BY <1>0, <2>2
      <3> HIDE DEF m
      <3>2. q[m].n \in Nat
        BY <3>1, ItemNumber
      <3>3. f[m] = f[m - 1] \/ f[m] = Append(f[m - 1], q[m].n)
        BY <3>1, <1>4
      <3>4. f[m] \in Seq(Nat)
        <4>1. f[m - 1] \in Seq(Nat)
          BY <3>1
        <4>2. Append(f[m - 1], q[m].n) \in Seq(Nat)
          BY <4>1, <3>2, AppendProperties
        <4>3. QED
          BY <4>1, <4>2, <3>3
      <3>5. QED
        BY <3>4 DEF m
    <2>3. \A n \in Nat : n \in T
      <3> HIDE DEF T
      <3>1. QED
        BY <2>1, <2>2, SetInduction
    <2>4. QED
      BY <2>3, <1>0
  <1>6. QED
    BY <1>3, <1>4, <1>5 DEF f

LEMMA AppendConcat ==
    ASSUME NEW s \in Seq(Nat), NEW u \in Seq(Nat), NEW e \in Nat
    PROVE  Append(s \o u, e) = s \o Append(u, e)
  <1> DEFINE t == <<e>>
  <1>1. t \in Seq(Nat) /\ s \o u \in Seq(Nat)
    OBVIOUS
  <1>2. Append(s \o u, e) = (s \o u) \o t
    BY <1>1, AppendIsConcat
  <1>3. Append(u, e) = u \o t
    BY AppendIsConcat
  <1> HIDE DEF t
  <1>4. (s \o u) \o t = s \o (u \o t)
    BY <1>1, ConcatAssociative
  <1>5. QED
    BY <1>2, <1>3, <1>4

(* The queue behind its first k commands: their tickets are in front. *)
LEMMA GoodShift ==
    ASSUME NEW q \in Seq(Item), NEW r \in Seq(Item), NEW k \in Nat,
           k + Len(r) <= Len(q),
           \A i \in 1..Len(r) :
             q[k + i].kind = r[i].kind /\ q[k + i].n = r[i].n
    PROVE  \A i \in 0..Len(r) : GoodOf(q)[k + i] = GoodOf(q)[k] \o GoodOf(r)[i]
  <1> DEFINE f == GoodOf(q)
             g == GoodOf(r)
             H(n) == f[k + n] = f[k] \o g[n]
             T == {n \in Nat : n <= Len(r) => H(n)}
  <1>0. Len(q) \in Nat /\ Len(r) \in Nat
    OBVIOUS
  <1>1. /\ g[0] = <<>>
        /\ \A i \in 1..Len(r) :
             /\ r[i].kind = "bad" => g[i] = g[i - 1]
             /\ r[i].kind # "bad" => g[i] = Append(g[i - 1], r[i].n)
        /\ \A i \in 0..Len(r) : g[i] \in Seq(Nat)
    BY GoodFacts
  <1>2. /\ \A i \in 1..Len(q) :
             /\ q[i].kind = "bad" => f[i] = f[i - 1]
             /\ q[i].kind # "bad" => f[i] = Append(f[i - 1], q[i].n)
        /\ \A i \in 0..Len(q) : f[i] \in Seq(Nat)
    BY GoodFacts
  <1>3. f[k] \in Seq(Nat) /\ f[k + 0] = f[k]
    BY <1>0, <1>2
  <1> HIDE DEF f, g
  <1>4. 0 \in T
    BY <1>1, <1>3, ConcatEmptySeq
  <1>5. ASSUME NEW n \in Nat, n \in T PROVE n + 1 \in T
    <2> SUFFICES ASSUME n + 1 <= Len(r) PROVE H(n + 1)
      <3> HIDE DEF H
      <3>1. QED
        OBVIOUS
    <2> DEFINE m == n + 1
               l == k + m
    <2>1. /\ m \in 1..Len(r) /\ m - 1 = n /\ l \in 1..Len(q)
          /\ l - 1 = k + n /\ n \in 0..Len(r) /\ l = k + m
      BY <1>0
    <2>0. H(n)
      <3> HIDE DEF H
      <3>1. QED
        BY <1>5, <1>0
    <2> HIDE DEF m, l
    <2>2. q[l].kind = r[m].kind /\ q[l].n = r[m].n
      <3>1. q[k + m].kind = r[m].kind /\ q[k + m].n = r[m].n
        BY <2>1
      <3>2. QED
        BY <3>1, <2>1
    <2>3. f[k + n] = f[k] \o g[n] /\ g[n] \in Seq(Nat) /\ r[m].n \in Nat
      BY <1>1, <2>0, <2>1, ItemNumber
    <2>4. CASE r[m].kind = "bad"
      <3>1. f[l] = f[l - 1] /\ g[m] = g[m - 1]
        BY <2>1, <2>2, <2>4, <1>1, <1>2
      <3>2. f[l] = f[k] \o g[m]
        BY <3>1, <2>1, <2>3
      <3>3. QED
        BY <3>2 DEF m, l
    <2>5. CASE r[m].kind # "bad"
      <3>1. /\ f[l] = Append(f[l - 1], r[m].n)
            /\ g[m] = Append(g[m - 1], r[m].n)
        BY <2>1, <2>2, <2>5, <1>1, <1>2
      <3>2. \A s, u \in Seq(Nat), e \in Nat :
               Append(s \o u, e) = s \o Append(u, e)
        BY AppendConcat
      <3>3. f[l] = Append(f[k] \o g[n], r[m].n)
            /\ g[m] = Append(g[n], r[m].n)
        BY <3>1, <2>1, <2>3
      <3>4. f[l] = f[k] \o g[m]
        BY <3>2, <3>3, <2>3, <1>3
      <3>5. QED
        BY <3>4 DEF m, l
    <2>6. QED
      BY <2>4, <2>5
  <1>6. \A n \in Nat : n \in T
    <2> HIDE DEF T
    <2>1. QED
      BY <1>4, <1>5, SetInduction
  <1>7. \A i \in 0..Len(r) : H(i)
    <2> HIDE DEF H
    <2>1. QED
      BY <1>6, <1>0
  <1>8. QED
    BY <1>7 DEF f, g

(* Commands that getcmd refuses have no tickets. *)
LEMMA BadHaveNone ==
    ASSUME NEW q \in Seq(Item), NEW k \in 0..Len(q),
           \A i \in 1..k : q[i].kind = "bad"
    PROVE  GoodOf(q)[k] = <<>>
  <1> DEFINE f == GoodOf(q)
             T == {n \in Nat : n <= k => f[n] = <<>>}
  <1>1. Len(q) \in Nat /\ k \in Nat
    OBVIOUS
  <1>2. /\ f[0] = <<>>
        /\ \A i \in 1..Len(q) : q[i].kind = "bad" => f[i] = f[i - 1]
    BY GoodFacts
  <1> HIDE DEF f
  <1>3. 0 \in T
    BY <1>2
  <1>4. ASSUME NEW n \in Nat, n \in T PROVE n + 1 \in T
    <2> SUFFICES ASSUME n + 1 <= k PROVE f[n + 1] = <<>>
      OBVIOUS
    <2>1. /\ n + 1 \in 1..Len(q) /\ n + 1 \in 1..k /\ (n + 1) - 1 = n
          /\ f[n] = <<>>
      BY <1>1, <1>4
    <2>2. QED
      BY <2>1, <1>2
  <1>5. \A n \in Nat : n \in T
    <2> HIDE DEF T
    <2>1. QED
      BY <1>3, <1>4, SetInduction
  <1>6. QED
    BY <1>5, <1>1 DEF f

(* What requesting, issuing and delaying a command do to the tickets *)
LEMMA TicketsAppend ==
    ASSUME NEW q \in Seq(Item), NEW item \in Item
    PROVE  /\ Tickets(q) \in Seq(Nat)
           /\ item.kind = "bad" => Tickets(Append(q, item)) = Tickets(q)
           /\ item.kind # "bad" =>
                Tickets(Append(q, item)) = Append(Tickets(q), item.n)
  <1> DEFINE r == Append(q, item)
             n == Len(q)
  <1>1. /\ r \in Seq(Item) /\ n \in Nat /\ Len(r) = n + 1 /\ r[n + 1] = item
        /\ \A i \in 1..n : r[i] = q[i]
    BY AppendProperties
  <1> HIDE DEF r
  <1>2. GoodOf(r)[0 + n] = GoodOf(r)[0] \o GoodOf(q)[n]
    <2>1. /\ 0 + Len(q) <= Len(r) /\ 0 \in Nat /\ n \in 0..Len(q)
          /\ \A i \in 1..Len(q) :
               r[0 + i].kind = q[i].kind /\ r[0 + i].n = q[i].n
      BY <1>1
    <2>2. QED
      BY <2>1, <1>1, GoodShift
  <1>3. GoodOf(r)[0] = <<>> /\ GoodOf(q)[n] \in Seq(Nat)
    BY <1>1, GoodFacts
  <1>4. GoodOf(r)[n] = GoodOf(q)[n]
    BY <1>1, <1>2, <1>3, ConcatEmptySeq
  <1>5. /\ item.kind = "bad" => GoodOf(r)[n + 1] = GoodOf(r)[n]
        /\ item.kind # "bad" =>
             GoodOf(r)[n + 1] = Append(GoodOf(r)[n], item.n)
    <2>1. n + 1 \in 1..Len(r) /\ (n + 1) - 1 = n
      BY <1>1
    <2>2. QED
      BY <2>1, <1>1, GoodFacts
  <1>6. QED
    BY <1>1, <1>3, <1>4, <1>5, TicketsAreGood DEF r

LEMMA TicketsOfBad ==
    ASSUME NEW q \in Seq(Item), \A i \in 1..Len(q) : q[i].kind = "bad"
    PROVE  Tickets(q) = <<>>
  <1>1. Len(q) \in 0..Len(q)
    OBVIOUS
  <1>2. QED
    BY <1>1, BadHaveNone, TicketsAreGood

LEMMA TicketsOfNone == Tickets(<<>>) = <<>>
  <1> DEFINE q == <<>>
  <1>1. q \in Seq(Item) /\ Len(q) = 0
    OBVIOUS
  <1> HIDE DEF q
  <1>2. \A i \in 1..Len(q) : q[i].kind = "bad"
    BY <1>1
  <1>3. Tickets(q) = <<>>
    BY <1>1, <1>2, TicketsOfBad
  <1>4. QED
    BY <1>3 DEF q

LEMMA TicketsFirst ==
    ASSUME NEW q \in Seq(Item), NEW k \in 1..Len(q), FirstGood(q, k)
    PROVE  LET r == SubSeq(q, k + 1, Len(q))
           IN  /\ r \in Seq(Item) /\ Tickets(r) \in Seq(Nat)
               /\ Tickets(q) = <<q[k].n>> \o Tickets(r)
  <1> DEFINE r == SubSeq(q, k + 1, Len(q))
  <1>1. /\ r \in Seq(Item) /\ Len(r) = Len(q) - k /\ Len(q) \in Nat
        /\ \A i \in 1..Len(r) : r[i] = q[k + i]
    OBVIOUS
  <1> HIDE DEF r
  <1>2. GoodOf(q)[k - 1] = <<>>
    <2>1. k - 1 \in 0..Len(q) /\ \A i \in 1..k - 1 : q[i].kind = "bad"
      BY <1>1 DEF FirstGood
    <2>2. QED
      BY <2>1, BadHaveNone
  <1>3. GoodOf(q)[k] = <<q[k].n>>
    <2>1. GoodOf(q)[k] = Append(GoodOf(q)[k - 1], q[k].n)
      BY GoodFacts DEF FirstGood
    <2>2. QED
      BY <2>1, <1>2
  <1>4. GoodOf(q)[k + Len(r)] = GoodOf(q)[k] \o GoodOf(r)[Len(r)]
    <2>1. /\ k \in Nat /\ k + Len(r) <= Len(q) /\ Len(r) \in 0..Len(r)
          /\ \A i \in 1..Len(r) :
               q[k + i].kind = r[i].kind /\ q[k + i].n = r[i].n
      BY <1>1
    <2>2. \A i \in 0..Len(r) : GoodOf(q)[k + i] = GoodOf(q)[k] \o GoodOf(r)[i]
      BY ONLY q \in Seq(Item), <1>1, <2>1, GoodShift
    <2>3. Len(r) \in 0..Len(r)
      BY <2>1
    <2>4. QED
      BY <2>2, <2>3, Zenon
  <1>5. GoodOf(r)[Len(r)] \in Seq(Nat) /\ k + Len(r) = Len(q)
    <2>1. Len(r) \in 0..Len(r) /\ k + Len(r) = Len(q)
      BY <1>1
    <2>2. QED
      BY <2>1, <1>1, GoodFacts
  <1>6. QED
    BY <1>1, <1>3, <1>4, <1>5, TicketsAreGood DEF r

LEMMA TicketsPutBack ==
    ASSUME NEW item \in Item, item.kind # "bad", NEW r \in Seq(Item)
    PROVE  Tickets(PutBack(item, r)) = <<item.n>> \o Tickets(r)
  <1> DEFINE h == [item EXCEPT !.delay = FALSE]
             p == PutBack(item, r)
  <1>1. h \in Item /\ h.kind = item.kind /\ h.n = item.n
    BY DEF Item
  <1>2. p = <<h>> \o r
    BY DEF PutBack
  <1> HIDE DEF h, p
  <1>3. /\ p \in Seq(Item) /\ p[1] = h /\ Len(p) = 1 + Len(r)
        /\ Len(r) \in Nat /\ \A i \in 1..Len(r) : p[1 + i] = r[i]
    BY <1>1, <1>2
  <1>4. FirstGood(p, 1) /\ 1 \in 1..Len(p)
    BY <1>1, <1>3 DEF FirstGood
  <1>5. SubSeq(p, 1 + 1, Len(p)) = r
    BY <1>1, <1>2
  <1>6. Tickets(p) = <<p[1].n>> \o Tickets(r)
    BY <1>3, <1>4, <1>5, TicketsFirst
  <1>7. QED
    BY <1>6, <1>1, <1>3 DEF p
----------------------------------------------------------------------------
(* The channel implements AtChannel. *)

Current == IF currcmd = NoCmd THEN <<>> ELSE <<currcmd.n>>

LEMMA NoCmdIsNone ==
    ASSUME NEW item \in Item
    PROVE  item # NoCmd
  BY RilAssumption DEF Item, NoCmd

(* sendat issues the first of the tickets, or leaves them as they are. *)
LEMMA SendAtTakesFirst ==
    ASSUME TypeOK, NEW q \in Seq(Item), NEW reading, NEW waiting,
           SendAt(q, reading, waiting)
    PROVE  \/ Tickets(cmdqueue') = Tickets(q) /\ currcmd' = currcmd
           \/ /\ currcmd = NoCmd /\ currcmd' # NoCmd
              /\ Tickets(cmdqueue') \in Seq(Nat)
              /\ Tickets(q) = <<currcmd'.n>> \o Tickets(cmdqueue')
              /\ currcmd'.n \in Nat
  <1>1. CASE cmdqueue' = q /\ UNCHANGED currcmd
    BY <1>1
  <1>2. CASE /\ \A i \in 1..Len(q) : q[i].kind = "bad"
             /\ cmdqueue' = <<>> /\ UNCHANGED currcmd
    <2>1. Tickets(q) = <<>>
      BY <1>2, TicketsOfBad
    <2>2. QED
      BY <1>2, <2>1, TicketsOfNone
  <1>3. ASSUME NEW k \in 1..Len(q), FirstGood(q, k),
               cmdqueue' = PutBack(q[k], SubSeq(q, k + 1, Len(q))),
               UNCHANGED currcmd
        PROVE  Tickets(cmdqueue') = Tickets(q) /\ currcmd' = currcmd
    <2>1. /\ SubSeq(q, k + 1, Len(q)) \in Seq(Item) /\ q[k] \in Item
          /\ q[k].kind # "bad"
      BY <1>3 DEF FirstGood
    <2>2. QED
      BY <1>3, <2>1, TicketsFirst, TicketsPutBack
  <1>4. ASSUME ~Blocked(reading, waiting),
               NEW k \in 1..Len(q), FirstGood(q, k),
               cmdqueue' = SubSeq(q, k + 1, Len(q)), currcmd' = q[k]
        PROVE  /\ currcmd = NoCmd /\ currcmd' # NoCmd
               /\ Tickets(cmdqueue') \in Seq(Nat)
               /\ Tickets(q) = <<currcmd'.n>> \o Tickets(cmdqueue')
               /\ currcmd'.n \in Nat
    <2>1. q[k] # NoCmd /\ q[k].n \in Nat
      BY ItemNumber, NoCmdIsNone
    <2>2. QED
      BY <1>4, <2>1, TicketsFirst DEF Blocked
  <1>5. QED
    BY <1>1, <1>2, <1>3, <1>4 DEF SendAt

(* A request of a handler that atcreader runs is accepted or rejected. *)
LEMMA CallbackIsRequest ==
    ASSUME TypeOK, CallbackRequest
    PROVE  \/ Tickets(cmdqueue') = Tickets(cmdqueue) /\ nreq' = nreq
           \/ /\ nreq < Last /\ nreq' = nreq + 1
              /\ Tickets(cmdqueue') \in
                   {Tickets(cmdqueue), Append(Tickets(cmdqueue), nreq')}
  <1>1. CASE UNCHANGED <<cmdqueue, nreq>>
    BY <1>1
  <1>2. ASSUME nreq < Last, nreq' = nreq + 1,
               NEW k \in Kinds, NEW d \in BOOLEAN,
               cmdqueue' = Append(cmdqueue, NewItem(k, d))
        PROVE  Tickets(cmdqueue') \in
                 {Tickets(cmdqueue), Append(Tickets(cmdqueue), nreq')}
    <2>1. NewItem(k, d) \in Item /\ NewItem(k, d).n = nreq'
      BY <1>2, NewItemType DEF NewItem
    <2>2. cmdqueue \in Seq(Item)
      BY DEF TypeOK
    <2>3. QED
      BY <1>2, <2>1, <2>2, TicketsAppend
  <1>3. QED
    BY <1>1, <1>2 DEF CallbackRequest

(* A request that is issued at once was made of an empty channel: NoStall. *)
LEMMA RequestRefines ==
    ASSUME TypeOK, NoStall, DelayIsForHead, Request
    PROVE  Channel!Accept \/ Channel!Reject \/ Channel!AcceptAndIssue
  <1>1. PICK k \in Kinds, d \in BOOLEAN :
           SendAt(Append(cmdqueue, NewItem(k, d)), readat, delaying)
    BY DEF Request
  <1> DEFINE item == NewItem(k, d)
             q == Append(cmdqueue, item)
  <1>2. nreq < Last /\ nreq' = nreq + 1 /\ ~readat
    BY DEF Request
  <1>3. item \in Item /\ item.n = nreq' /\ cmdqueue \in Seq(Item)
    BY <1>2, NewItemType DEF NewItem, TypeOK
  <1> HIDE DEF item
  <1>4. /\ q \in Seq(Item) /\ Tickets(cmdqueue) \in Seq(Nat)
        /\ item.kind = "bad" => Tickets(q) = Tickets(cmdqueue)
        /\ item.kind # "bad" => Tickets(q) = Append(Tickets(cmdqueue), nreq')
    BY <1>3, TicketsAppend
  <1>5. CASE Tickets(cmdqueue') = Tickets(q) /\ currcmd' = currcmd
    <2>1. CASE item.kind = "bad"
      BY <1>2, <1>4, <1>5, <2>1 DEF Channel!Reject, Channel!Draw
    <2>2. CASE item.kind # "bad"
      BY <1>2, <1>4, <1>5, <2>2 DEF Channel!Accept, Channel!Draw
    <2>3. QED
      BY <2>1, <2>2
  <1>6. CASE /\ currcmd = NoCmd /\ currcmd' # NoCmd
             /\ Tickets(cmdqueue') \in Seq(Nat)
             /\ Tickets(q) = <<currcmd'.n>> \o Tickets(cmdqueue')
             /\ currcmd'.n \in Nat
    <2>1. ~Blocked(readat, delaying)
      BY <1>1, <1>6 DEF SendAt
    <2>2. cmdqueue = <<>>
      BY <2>1 DEF Blocked, NoStall
    <2>3. Tickets(cmdqueue) = <<>>
      BY <2>2, TicketsOfNone
    <2>4. Tickets(q) = <<nreq'>>
      <3>1. Tickets(q) # <<>>
        BY <1>6
      <3>2. Append(<<>>, nreq') = <<nreq'>>
        OBVIOUS
      <3>3. QED
        BY <1>4, <2>3, <3>1, <3>2
    <2>5. currcmd'.n = nreq' /\ Tickets(cmdqueue') = <<>>
      <3>1. Tickets(q) = <<nreq'>>
        BY <2>4
      <3> DEFINE r == Tickets(cmdqueue')
                 c == currcmd'.n
      <3>2. <<nreq'>> = <<c>> \o r /\ r \in Seq(Nat) /\ c \in Nat
        BY <3>1, <1>6
      <3> HIDE DEF r, c
      <3>3. Len(<<c>> \o r) = 1 + Len(r) /\ (<<c>> \o r)[1] = c
        BY <3>2
      <3>4. c = nreq' /\ Len(r) = 0
        BY <3>2, <3>3
      <3>5. r = <<>>
        BY <3>2, <3>4
      <3>6. QED
        BY <3>4, <3>5 DEF r, c
    <2>6. QED
      BY <1>2, <1>6, <2>3, <2>5 DEF Channel!AcceptAndIssue, Channel!Draw
  <1>7. SendAt(q, readat, delaying) /\ q \in Seq(Item)
    BY <1>1, <1>4 DEF item
  <1> HIDE DEF q
  <1>8. QED
    BY <1>5, <1>6, <1>7, SendAtTakesFirst

(* Outside a request, sendat is a step of its own. *)
LEMMA SendAtRefines ==
    ASSUME TypeOK, NEW reading, NEW waiting,
           SendAt(cmdqueue, reading, waiting), nreq' = nreq
    PROVE  Channel!Issue \/ UNCHANGED Channel!vars
  <1>1. cmdqueue \in Seq(Item)
    BY DEF TypeOK
  <1>2. CASE Tickets(cmdqueue') = Tickets(cmdqueue) /\ currcmd' = currcmd
    BY <1>2 DEF Channel!vars
  <1>3. CASE /\ currcmd = NoCmd /\ currcmd' # NoCmd
             /\ Tickets(cmdqueue') \in Seq(Nat)
             /\ Tickets(cmdqueue) = <<currcmd'.n>> \o Tickets(cmdqueue')
             /\ currcmd'.n \in Nat
    <2> DEFINE r == Tickets(cmdqueue')
               c == currcmd'.n
               t == Tickets(cmdqueue)
    <2>1. t = <<c>> \o r /\ r \in Seq(Nat) /\ c \in Nat
      BY <1>3
    <2> HIDE DEF r, c, t
    <2>2. t # <<>> /\ Head(t) = c /\ Tail(t) = r
      BY <2>1
    <2>3. QED
      BY <2>2, <1>3 DEF r, c, t, Channel!Issue
  <1>4. QED
    BY <1>1, <1>2, <1>3, SendAtTakesFirst

LEMMA ReadLineRefines ==
    ASSUME TypeOK, ReadLine
    PROVE  Channel!Next \/ UNCHANGED Channel!vars
  <1>1. CASE LineSwallowed \/ LineFiltered \/ LineInfo \/ LinePrompt
    BY <1>1 DEF LineSwallowed, LineFiltered, LineInfo, LinePrompt, Channel!vars
  <1>2. CASE LineUrc
    <2>1. CASE UNCHANGED <<cmdqueue, nreq>>
      BY <1>2, <2>1 DEF LineUrc, Channel!vars
    <2>2. CASE CallbackRequest
      BY <1>2, <2>2, CallbackIsRequest
      DEF LineUrc, Channel!Next, Channel!Accept, Channel!Reject, Channel!Draw,
          Channel!vars
    <2>3. QED
      BY <1>2, <2>1, <2>2 DEF LineUrc
  <1>3. CASE LineFinal
    <2>1. currcmd # NoCmd /\ currcmd' = NoCmd /\ CallbackRequest
      BY <1>3 DEF LineFinal, Respond
    <2>2. Channel!Complete
      BY <2>1, CallbackIsRequest DEF Channel!Complete, Channel!Draw
    <2>3. QED
      BY <2>2 DEF Channel!Next
  <1>4. QED
    BY <1>1, <1>2, <1>3 DEF ReadLine

LEMMA PairIsAppend ==
    ASSUME NEW S, NEW a \in S, NEW b \in S
    PROVE  Append(<<a>>, b) = <<a, b>> /\ Append(<<>>, a) = <<a>>
  <1> DEFINE s == Append(<<a>>, b)
             t == <<a, b>>
  <1>1. <<a>> \in Seq(S) /\ Len(<<a>>) = 1 /\ <<a>>[1] = a
    OBVIOUS
  <1>2. s \in Seq(S) /\ Len(s) = 2 /\ s[1] = a /\ s[2] = b
    BY <1>1, AppendProperties
  <1>3. t \in Seq(S) /\ Len(t) = 2 /\ t[1] = a /\ t[2] = b
    OBVIOUS
  <1> HIDE DEF s, t
  <1>4. \A i \in 1..Len(s) : s[i] = t[i]
    BY <1>2, <1>3
  <1>5. s = t
    BY <1>2, <1>3, <1>4, SeqEqual
  <1>6. Append(<<>>, a) = <<a>>
    OBVIOUS
  <1>7. QED
    BY <1>5, <1>6 DEF s, t

LEMMA TicketsOfBoot == Tickets(Boot) = <<1, 2>>
  <1> DEFINE a == [n |-> 1, kind |-> "plain", delay |-> FALSE]
             b == [n |-> 2, kind |-> "plain", delay |-> FALSE]
             q == Append(<<>>, a)
  <1>1. a \in Item /\ b \in Item
    BY RilAssumption DEF Item, Kinds
  <1>2. /\ a.kind # "bad" /\ b.kind # "bad" /\ a.n = 1 /\ b.n = 2
        /\ Boot = <<a, b>>
    BY DEF Boot
  <1> HIDE DEF a, b
  <1>3. Tickets(q) = Append(Tickets(<<>>), 1)
    <2> DEFINE e == <<>>
    <2>1. e \in Seq(Item)
      OBVIOUS
    <2> HIDE DEF e
    <2>2. Tickets(Append(e, a)) = Append(Tickets(e), a.n)
      BY <1>1, <1>2, <2>1, TicketsAppend
    <2>3. QED
      BY <1>2, <2>2 DEF e
  <1>4. Tickets(q) = <<1>>
    BY <1>3, TicketsOfNone
  <1>5. q \in Seq(Item) /\ Append(q, b) = <<a, b>>
    BY <1>1, PairIsAppend
  <1> HIDE DEF q
  <1>6. Tickets(Append(q, b)) = Append(Tickets(q), 2)
    BY <1>1, <1>2, <1>5, TicketsAppend
  <1>7. Append(<<1>>, 2) = <<1, 2>>
    BY 1 \in Nat, 2 \in Nat, PairIsAppend
  <1>8. QED
    BY <1>2, <1>4, <1>5, <1>6, <1>7

(* The channel keeps the promises of AtChannel (ril.lua 150-170, 355-492): *)
(* commands are executed one at a time and in the order of their requests, *)
(* those that getcmd refuses are the only ones that are dropped, and only  *)
(* a restart forgets the others.                                           *)
THEOREM ImplementsAtChannel == Spec => ImplementsChannel
  <1>1. Init => Channel!Init
    BY TicketsOfBoot, BootType DEF Init, Channel!Init
  <1>2. Inv /\ [Next]_vars => [Channel!Next]_(Channel!vars)
    <2> SUFFICES ASSUME Inv, [Next]_vars
                 PROVE  Channel!Next \/ UNCHANGED Channel!vars
      OBVIOUS
    <2>0. TypeOK /\ NoStall /\ DelayIsForHead
      BY DEF Inv
    <2>1. CASE Request
      BY <2>0, <2>1, RequestRefines DEF Channel!Next
    <2>2. CASE DelayFunc
      BY <2>0, <2>2, SendAtRefines DEF DelayFunc, Channel!Next
    <2>3. CASE AtcEnd
      BY <2>0, <2>3, SendAtRefines DEF AtcEnd, Channel!Next
    <2>4. CASE ReadLine
      BY <2>0, <2>4, ReadLineRefines
    <2>5. CASE Atimeout
      <3>1. Channel!Restart
        BY <2>5, TicketsOfBoot, BootType DEF Atimeout, Channel!Restart
      <3>2. QED
        BY <3>1 DEF Channel!Next
    <2>6. CASE UNCHANGED <<cmdqueue, currcmd, nreq>>
      BY <2>6 DEF Channel!vars
    <2>7. QED
      BY <2>1, <2>2, <2>3, <2>4, <2>5, <2>6
      DEF Next, SetTransparentMode, AtcBegin, AtcTransparent, ModemReady,
          ModemUrc, ModemPrepares, ModemAnswers, Say, vars, lua
  <1>3. QED
    BY <1>1, <1>2, ChannelIsSound, PTL
    DEF Spec, ImplementsChannel, Channel!Spec

-----------------------------------------------------------------------------
(***************************************************************************)
(* The AT channel and the modem agree on the command in execution, for     *)
(* every bound, if the modem does not report a closed connection while     *)
(* CIPCLOSE is on its way.                                                 *)
(*                                                                         *)
(* OneInFlight says nothing of the lines before an answer, and is not      *)
(* inductive: what keeps an answer from being swallowed is the shape of    *)
(* all the lines that wait (LinesAgree, PayloadPlaced).  Both are stated   *)
(* of any sequence of lines, so that reading a line is about the tail of a *)
(* sequence and what the modem says about the concatenation of two.        *)
(***************************************************************************)

IsResponse(line) ==
    line.tag \in {"OK", "ERROR", "RESULT", "INFO", "BODY", "PROMPT"}

(* The lines s that wait while c is in execution; over says that the modem *)
(* has no command any more.  A response is one to c; the answer ends it    *)
(* and has a form that procatc takes for the answer of c; the lines of a   *)
(* multi-line answer follow each other.                                    *)
LinesAgree(s, c, over) ==
    \A i \in 1..Len(s) :
        /\ s[i].tag # "CLOSED"
        /\ IsResponse(s[i]) => c # NoCmd /\ s[i].arg = c.n
        /\ s[i].tag = "RESULT" => c.kind \in {"send", "close"}
        /\ IsAnswer(s[i]) =>
             over /\ \A j \in 1..Len(s) : i < j => ~IsResponse(s[j])
        /\ s[i].tag = "INFO" /\ c.kind = "multi" =>
             i + 1 <= Len(s) /\ s[i + 1].tag = "BODY"
        /\ s[i].tag = "BODY" => i + 1 <= Len(s) /\ s[i + 1].tag = "OK"

HasAnswer(s) == \E i \in 1..Len(s) : IsAnswer(s[i])
HasResponse(s) == \E i \in 1..Len(s) : IsResponse(s[i])

(* f lines of a payload come first, every other one belongs to the header  *)
(* before it, and no payload is cut off.                                   *)
PayloadPlaced(s, f) ==
    /\ f <= Len(s)
    /\ \A i \in 1..Len(s) :
         /\ s[i].tag = "RECEIVE" => i + s[i].arg <= Len(s)
         /\ s[i].tag = "PAYLOAD" <=>
              \/ i <= f
              \/ \E j \in 1..Len(s) :
                   j < i /\ s[j].tag = "RECEIVE" /\ i <= j + s[j].arg

(* The modem has the command in execution and no other. *)
WireAgrees ==
    /\ wire # <<>> => /\ Len(wire) = 1 /\ currcmd # NoCmd
                      /\ wire[1].n = currcmd.n /\ wire[1].kind = currcmd.kind
    /\ currcmd = NoCmd => wire = <<>> /\ ~interdata
    /\ currcmd # NoCmd => wire # <<>> \/ HasAnswer(rx)

(* When procatc is inside a multi-line answer, so are the lines. *)
MultiAgrees ==
    interdata /\ currcmd.kind = "multi" =>
        rx # <<>> /\ Head(rx).tag \in {"BODY", "OK"}

(* A pipe and a channel that is not ready execute nothing, and only the    *)
(* reader is ever inside a payload.                                        *)
ModeAgrees ==
    /\ transparentmode => ~radioready /\ ~readat
    /\ ~radioready => currcmd = NoCmd
    /\ ~readat => urcfilter = 0

Agreement ==
    /\ LinesAgree(rx, currcmd, wire = <<>>)
    /\ PayloadPlaced(rx, urcfilter)
    /\ WireAgrees /\ MultiAgrees /\ ModeAgrees

----------------------------------------------------------------------------
(* Sequences of lines *)

LEMMA LineArg ==
    ASSUME NEW s \in Seq(Line), NEW i \in 1..Len(s)
    PROVE  s[i].arg \in Nat
  <1>1. s[i] \in Line
    OBVIOUS
  <1>2. QED
    BY <1>1 DEF Line

LEMMA NoLength ==
    ASSUME NEW S, NEW s \in Seq(S), Len(s) = 0
    PROVE  s = <<>>
  OBVIOUS

LEMMA HasLength ==
    ASSUME NEW S, NEW s \in Seq(S), Len(s) >= 1
    PROVE  s # <<>>
  BY EmptySeq

LEMMA TailIs ==
    ASSUME NEW s \in Seq(Line), s # <<>>
    PROVE  /\ Tail(s) \in Seq(Line) /\ Len(s) \in Nat /\ Len(s) >= 1
           /\ Len(Tail(s)) = Len(s) - 1 /\ Head(s) = s[1] /\ Head(s) \in Line
           /\ \A i \in 1..(Len(s) - 1) : Tail(s)[i] = s[i + 1] /\ i + 1 \in 1..Len(s)
  <1>1. Len(s) \in Nat /\ Len(s) >= 1 /\ Head(s) = s[1]
    OBVIOUS
  <1>2. QED
    BY <1>1, HeadTailProperties

LEMMA ConcatIs ==
    ASSUME NEW s \in Seq(Line), NEW t \in Seq(Line)
    PROVE  /\ s \o t \in Seq(Line) /\ Len(s \o t) = Len(s) + Len(t)
           /\ Len(s) \in Nat /\ Len(t) \in Nat
           /\ \A i \in 1..Len(s) : (s \o t)[i] = s[i] /\ i \in 1..(Len(s) + Len(t))
           /\ \A i \in 1..(Len(s) + Len(t)) :
                \/ i \in 1..Len(s)
                \/ i - Len(s) \in 1..Len(t) /\ (s \o t)[i] = t[i - Len(s)]
  <1>1. Len(s) \in Nat /\ Len(t) \in Nat
    OBVIOUS
  <1>2. \A i \in 1..(Len(s) + Len(t)) :
          (s \o t)[i] = IF i <= Len(s) THEN s[i] ELSE t[i - Len(s)]
    BY ConcatProperties
  <1>3. \A i \in 1..(Len(s) + Len(t)) :
          /\ i <= Len(s) => i \in 1..Len(s)
          /\ ~(i <= Len(s)) => i - Len(s) \in 1..Len(t)
    BY <1>1
  <1>4. \A i \in 1..Len(s) : i \in 1..(Len(s) + Len(t)) /\ i <= Len(s)
    BY <1>1
  <1>5. s \o t \in Seq(Line) /\ Len(s \o t) = Len(s) + Len(t)
    BY ConcatProperties
  <1>6. QED
    BY <1>1, <1>2, <1>3, <1>4, <1>5

(* Reading a line leaves lines that agree. *)
LEMMA TailAgrees ==
    ASSUME NEW s \in Seq(Line), s # <<>>, NEW c, NEW over,
           LinesAgree(s, c, over)
    PROVE  /\ LinesAgree(Tail(s), c, over)
           /\ HasAnswer(s) /\ ~IsAnswer(Head(s)) => HasAnswer(Tail(s))
           /\ IsAnswer(Head(s)) => over /\ ~HasResponse(Tail(s))
  <1> DEFINE t == Tail(s)
  <1>1. /\ t \in Seq(Line) /\ Len(s) \in Nat /\ Len(s) >= 1
        /\ Len(t) = Len(s) - 1 /\ Head(s) = s[1]
        /\ \A i \in 1..(Len(s) - 1) : t[i] = s[i + 1] /\ i + 1 \in 1..Len(s)
    BY TailIs
  <1> HIDE DEF t
  <1>2. LinesAgree(t, c, over)
    <2> SUFFICES ASSUME NEW i \in 1..Len(t)
                 PROVE  /\ t[i].tag # "CLOSED"
                        /\ IsResponse(t[i]) => c # NoCmd /\ t[i].arg = c.n
                        /\ t[i].tag = "RESULT" => c.kind \in {"send", "close"}
                        /\ IsAnswer(t[i]) =>
                             over /\ \A j \in 1..Len(t) : i < j => ~IsResponse(t[j])
                        /\ t[i].tag = "INFO" /\ c.kind = "multi" =>
                             i + 1 <= Len(t) /\ t[i + 1].tag = "BODY"
                        /\ t[i].tag = "BODY" => i + 1 <= Len(t) /\ t[i + 1].tag = "OK"
      BY DEF LinesAgree
    <2>1. t[i] = s[i + 1] /\ i + 1 \in 1..Len(s)
      BY <1>1
    <2>2. ASSUME NEW j \in 1..Len(t), i < j
          PROVE  t[j] = s[j + 1] /\ j + 1 \in 1..Len(s) /\ i + 1 < j + 1
      BY <1>1, <2>2
    <2>3. (i + 1) + 1 <= Len(s) => i + 1 <= Len(t) /\ t[i + 1] = s[(i + 1) + 1]
      BY <1>1
    <2>4. /\ t[i].tag # "CLOSED"
          /\ IsResponse(t[i]) => c # NoCmd /\ t[i].arg = c.n
          /\ t[i].tag = "RESULT" => c.kind \in {"send", "close"}
      BY <2>1 DEF LinesAgree
    <2>5. IsAnswer(t[i]) =>
            over /\ \A j \in 1..Len(t) : i < j => ~IsResponse(t[j])
      BY <2>1, <2>2 DEF LinesAgree
    <2>6. /\ t[i].tag = "INFO" /\ c.kind = "multi" =>
               i + 1 <= Len(t) /\ t[i + 1].tag = "BODY"
          /\ t[i].tag = "BODY" => i + 1 <= Len(t) /\ t[i + 1].tag = "OK"
      BY <2>1, <2>3 DEF LinesAgree
    <2>7. QED
      BY <2>4, <2>5, <2>6
  <1>3. HasAnswer(s) /\ ~IsAnswer(Head(s)) => HasAnswer(t)
    <2> SUFFICES ASSUME HasAnswer(s), ~IsAnswer(Head(s)) PROVE HasAnswer(t)
      OBVIOUS
    <2>1. PICK i \in 1..Len(s) : IsAnswer(s[i])
      BY DEF HasAnswer
    <2>2. i # 1
      BY <1>1, <2>1
    <2>3. i - 1 \in 1..(Len(s) - 1) /\ (i - 1) + 1 = i
      BY <1>1, <2>2
    <2>4. t[i - 1] = s[i] /\ i - 1 \in 1..Len(t)
      BY <1>1, <2>3
    <2>5. QED
      BY <2>1, <2>4 DEF HasAnswer
  <1>4. IsAnswer(Head(s)) => over /\ ~HasResponse(t)
    <2> SUFFICES ASSUME IsAnswer(s[1]) PROVE over /\ ~HasResponse(t)
      BY <1>1
    <2>1. 1 \in 1..Len(s)
      BY <1>1
    <2>2. over /\ \A j \in 1..Len(s) : 1 < j => ~IsResponse(s[j])
      BY <2>1 DEF LinesAgree
    <2>3. \A i \in 1..Len(t) : t[i] = s[i + 1] /\ i + 1 \in 1..Len(s) /\ 1 < i + 1
      BY <1>1
    <2>4. QED
      BY <2>2, <2>3 DEF HasResponse
  <1>5. QED
    BY <1>2, <1>3, <1>4 DEF t

(* Lines said while no answer waits agree with those that wait. *)
LEMMA ConcatAgrees ==
    ASSUME NEW s \in Seq(Line), NEW t \in Seq(Line), NEW c, NEW over,
           LinesAgree(s, c, over), LinesAgree(t, c, over),
           HasAnswer(s) => ~HasResponse(t)
    PROVE  LinesAgree(s \o t, c, over)
  <1> DEFINE u == s \o t
             m == Len(s)
             n == Len(t)
  <1>1. /\ u \in Seq(Line) /\ Len(u) = m + n /\ m \in Nat /\ n \in Nat
        /\ \A i \in 1..m : u[i] = s[i] /\ i \in 1..(m + n)
        /\ \A i \in 1..(m + n) :
             i \in 1..m \/ (i - m \in 1..n /\ u[i] = t[i - m])
    BY ConcatIs
  <1> HIDE DEF u
  <1> SUFFICES ASSUME NEW i \in 1..(m + n)
               PROVE  /\ u[i].tag # "CLOSED"
                      /\ IsResponse(u[i]) => c # NoCmd /\ u[i].arg = c.n
                      /\ u[i].tag = "RESULT" => c.kind \in {"send", "close"}
                      /\ IsAnswer(u[i]) =>
                           over /\ \A j \in 1..(m + n) : i < j => ~IsResponse(u[j])
                      /\ u[i].tag = "INFO" /\ c.kind = "multi" =>
                           i + 1 <= m + n /\ u[i + 1].tag = "BODY"
                      /\ u[i].tag = "BODY" => i + 1 <= m + n /\ u[i + 1].tag = "OK"
    BY <1>1 DEF LinesAgree, u
  <1>2. CASE i \in 1..m
    <2>1. u[i] = s[i]
      BY <1>1, <1>2
    <2>2. ASSUME IsAnswer(u[i]), NEW j \in 1..(m + n), i < j
          PROVE  ~IsResponse(u[j])
      <3>1. CASE j \in 1..m
        BY <1>1, <1>2, <2>1, <2>2, <3>1 DEF LinesAgree
      <3>2. CASE j - m \in 1..n /\ u[j] = t[j - m]
        BY <1>2, <2>1, <2>2, <3>2 DEF HasAnswer, HasResponse
      <3>3. QED
        BY <1>1, <3>1, <3>2
    <2>3. i + 1 <= m => i + 1 <= m + n /\ u[i + 1] = s[i + 1]
      BY <1>1, <1>2
    <2>4. QED
      BY <1>2, <2>1, <2>2, <2>3 DEF LinesAgree
  <1>3. CASE i - m \in 1..n /\ u[i] = t[i - m]
    <2>1. ASSUME NEW j \in 1..(m + n), i < j
          PROVE  j - m \in 1..n /\ u[j] = t[j - m] /\ i - m < j - m
      <3>1. ~(j \in 1..m) /\ i - m < j - m
        BY <1>1, <1>3, <2>1
      <3>2. QED
        BY <1>1, <3>1
    <2>2. (i - m) + 1 <= n => i + 1 <= m + n /\ u[i + 1] = t[(i - m) + 1]
      <3> SUFFICES ASSUME (i - m) + 1 <= n
                   PROVE  i + 1 <= m + n /\ u[i + 1] = t[(i - m) + 1]
        OBVIOUS
      <3>1. i + 1 \in 1..(m + n) /\ i < i + 1 /\ (i + 1) - m = (i - m) + 1
        BY <1>1, <1>3
      <3>2. QED
        BY <1>1, <2>1, <3>1
    <2>3. IsAnswer(u[i]) =>
            over /\ \A j \in 1..(m + n) : i < j => ~IsResponse(u[j])
      BY <1>3, <2>1 DEF LinesAgree
    <2>4. QED
      BY <1>3, <2>2, <2>3 DEF LinesAgree
  <1>4. QED
    BY <1>1, <1>2, <1>3

(* A line read is of a payload when the filter says so, and the filter for *)
(* the next one is what procatc sets.                                      *)
LEMMA TailPlaced ==
    ASSUME NEW s \in Seq(Line), s # <<>>, NEW f \in Nat, PayloadPlaced(s, f)
    PROVE  /\ f > 0 <=> Head(s).tag = "PAYLOAD"
           /\ f > 0 => PayloadPlaced(Tail(s), f - 1)
           /\ f = 0 => PayloadPlaced(Tail(s), FilterOf(Head(s)))
  <1> DEFINE t == Tail(s)
             n == Len(s)
             h == s[1]
             g == IF f > 0 THEN f - 1 ELSE FilterOf(h)
  <1>1. /\ t \in Seq(Line) /\ n \in Nat /\ n >= 1
        /\ Len(t) = n - 1 /\ Head(s) = h /\ h \in Line
        /\ \A i \in 1..(n - 1) : t[i] = s[i + 1] /\ i + 1 \in 1..n
    BY TailIs
  <1>2. \A i \in 1..n : s[i].arg \in Nat
    BY LineArg
  <1> HIDE DEF t
  <1>3. f > 0 <=> h.tag = "PAYLOAD"
    <2>1. 1 \in 1..n /\ \A j \in 1..n : ~(j < 1)
      BY <1>1
    <2>2. h.tag = "PAYLOAD" <=> 1 <= f
      BY <2>1 DEF PayloadPlaced
    <2>3. QED
      BY <2>2
  <1>4. g \in Nat /\ (f > 0 => h.tag # "RECEIVE")
    BY <1>1, <1>2, <1>3 DEF FilterOf
  <1>5. g <= Len(t)
    <2>1. 1 \in 1..n
      BY <1>1
    <2>2. f <= n /\ (h.tag = "RECEIVE" => 1 + h.arg <= n)
      BY <2>1 DEF PayloadPlaced
    <2>3. h.arg \in Nat
      BY <1>2, <2>1
    <2>4. QED
      BY <1>1, <2>2, <2>3 DEF FilterOf
  <1>6. ASSUME NEW i \in 1..(n - 1)
        PROVE  /\ t[i].tag = "RECEIVE" => i + t[i].arg <= n - 1
               /\ t[i].tag = "PAYLOAD" <=>
                    \/ i <= g
                    \/ \E j \in 1..(n - 1) :
                         j < i /\ t[j].tag = "RECEIVE" /\ i <= j + t[j].arg
    <2>1. t[i] = s[i + 1] /\ i + 1 \in 1..n /\ s[i + 1].arg \in Nat
      BY <1>1, <1>2
    <2>2. /\ s[i + 1].tag = "RECEIVE" => (i + 1) + s[i + 1].arg <= n
          /\ s[i + 1].tag = "PAYLOAD" <=>
               \/ i + 1 <= f
               \/ \E j \in 1..n :
                    j < i + 1 /\ s[j].tag = "RECEIVE" /\ i + 1 <= j + s[j].arg
      BY <2>1 DEF PayloadPlaced
    <2>3. t[i].tag = "RECEIVE" => i + t[i].arg <= n - 1
      BY <1>1, <2>1, <2>2
    <2>4. ASSUME NEW j \in 1..n, j < i + 1, s[j].tag = "RECEIVE",
                 i + 1 <= j + s[j].arg
          PROVE  \/ i <= g
                 \/ \E l \in 1..(n - 1) :
                      l < i /\ t[l].tag = "RECEIVE" /\ i <= l + t[l].arg
      <3>1. CASE j = 1
        <4>1. h.tag = "RECEIVE" /\ i + 1 <= 1 + h.arg /\ h.arg \in Nat
          BY <1>2, <2>4, <3>1
        <4>2. g = h.arg
          BY <1>3, <4>1 DEF FilterOf
        <4>3. QED
          BY <4>1, <4>2
      <3>2. CASE j # 1
        <4>1. j - 1 \in 1..(n - 1) /\ j - 1 < i /\ (j - 1) + 1 = j
          BY <1>1, <2>4, <3>2
        <4>2. t[j - 1] = s[j]
          BY <1>1, <4>1
        <4>3. i <= (j - 1) + s[j].arg
          BY <1>2, <2>4
        <4>4. QED
          BY <2>4, <4>1, <4>2, <4>3
      <3>3. QED
        BY <3>1, <3>2
    <2>5. ASSUME NEW l \in 1..(n - 1), l < i, t[l].tag = "RECEIVE",
                 i <= l + t[l].arg
          PROVE  s[i + 1].tag = "PAYLOAD"
      <3>1. /\ l + 1 \in 1..n /\ l + 1 < i + 1 /\ t[l] = s[l + 1]
            /\ s[l + 1].arg \in Nat
        BY <1>1, <1>2, <2>5
      <3>2. i + 1 <= (l + 1) + s[l + 1].arg
        BY <2>5, <3>1
      <3>3. QED
        BY <2>2, <2>5, <3>1, <3>2
    <2>6. i <= g => s[i + 1].tag = "PAYLOAD"
      <3>1. CASE f > 0
        BY <2>2, <3>1
      <3>2. CASE ~(f > 0) /\ h.tag = "RECEIVE"
        <4>1. 1 \in 1..n /\ 1 < i + 1 /\ s[1].arg \in Nat
          BY <1>1, <1>2
        <4>2. i <= g => i + 1 <= 1 + s[1].arg
          BY <3>2, <4>1 DEF FilterOf
        <4>3. QED
          BY <2>2, <3>2, <4>1, <4>2
      <3>3. CASE ~(f > 0) /\ h.tag # "RECEIVE"
        BY <3>3 DEF FilterOf
      <3>4. QED
        BY <3>1, <3>2, <3>3
    <2>7. i + 1 <= f => i <= g
      OBVIOUS
    <2>8. QED
      BY <2>1, <2>2, <2>3, <2>4, <2>5, <2>6, <2>7
  <1>7. PayloadPlaced(t, g)
    BY <1>1, <1>5, <1>6 DEF PayloadPlaced
  <1>8. QED
    BY <1>1, <1>3, <1>7 DEF t

(* Whole payloads may be said at any time. *)
LEMMA ConcatPlaced ==
    ASSUME NEW s \in Seq(Line), NEW t \in Seq(Line), NEW f \in Nat,
           PayloadPlaced(s, f), PayloadPlaced(t, 0)
    PROVE  PayloadPlaced(s \o t, f)
  <1> DEFINE u == s \o t
             m == Len(s)
             n == Len(t)
  <1>1. /\ u \in Seq(Line) /\ Len(u) = m + n /\ m \in Nat /\ n \in Nat
        /\ \A i \in 1..m : u[i] = s[i] /\ i \in 1..(m + n)
        /\ \A i \in 1..(m + n) :
             i \in 1..m \/ (i - m \in 1..n /\ u[i] = t[i - m])
    BY ConcatIs
  <1>2. /\ \A i \in 1..m : s[i].arg \in Nat
        /\ \A i \in 1..n : t[i].arg \in Nat
    BY LineArg
  <1> HIDE DEF u
  <1>0. /\ f <= m
        /\ \A i \in 1..m : s[i].tag = "RECEIVE" => i + s[i].arg <= m
        /\ \A i \in 1..m : s[i].tag = "PAYLOAD" <=>
             \/ i <= f
             \/ \E j \in 1..m : j < i /\ s[j].tag = "RECEIVE" /\ i <= j + s[j].arg
        /\ \A i \in 1..n : t[i].tag = "RECEIVE" => i + t[i].arg <= n
        /\ \A i \in 1..n : t[i].tag = "PAYLOAD" <=>
             \E j \in 1..n : j < i /\ t[j].tag = "RECEIVE" /\ i <= j + t[j].arg
    BY DEF PayloadPlaced
  <1>3. ASSUME NEW i \in 1..(m + n)
        PROVE  /\ u[i].tag = "RECEIVE" => i + u[i].arg <= m + n
               /\ u[i].tag = "PAYLOAD" <=>
                    \/ i <= f
                    \/ \E j \in 1..(m + n) :
                         j < i /\ u[j].tag = "RECEIVE" /\ i <= j + u[j].arg
    <2>1. CASE i \in 1..m
      <3>1. \A j \in 1..(m + n) : j < i => j \in 1..m /\ u[j] = s[j]
        BY <1>1, <2>1
      <3>2. \A j \in 1..m : j \in 1..(m + n) /\ u[j] = s[j]
        BY <1>1
      <3>3. u[i].tag = "RECEIVE" => i + u[i].arg <= m + n
        BY <1>0, <1>1, <1>2, <2>1
      <3>4. u[i] = s[i]
        BY <2>1, <3>2
      <3>5. u[i].tag = "PAYLOAD" <=>
              \/ i <= f
              \/ \E j \in 1..m : j < i /\ s[j].tag = "RECEIVE" /\ i <= j + s[j].arg
        BY <1>0, <2>1, <3>4
      <3>6. (\E j \in 1..m : j < i /\ s[j].tag = "RECEIVE" /\ i <= j + s[j].arg)
            <=> \E j \in 1..(m + n) :
                  j < i /\ u[j].tag = "RECEIVE" /\ i <= j + u[j].arg
        BY <3>1, <3>2
      <3>7. QED
        BY <3>3, <3>5, <3>6
    <2>2. CASE i - m \in 1..n /\ u[i] = t[i - m]
      <3> DEFINE k == i - m
      <3>0. k \in 1..n /\ u[i] = t[k] /\ i = k + m /\ t[k].arg \in Nat
        BY <1>1, <1>2, <2>2
      <3> HIDE DEF k
      <3>1. u[i].tag = "RECEIVE" => i + u[i].arg <= m + n
        BY <1>0, <1>1, <3>0
      <3>2. ~(i <= f)
        BY <1>0, <1>1, <3>0
      <3>3. ASSUME NEW j \in 1..(m + n), j < i, u[j].tag = "RECEIVE",
                   i <= j + u[j].arg
            PROVE  t[k].tag = "PAYLOAD"
        <4>1. ~(j \in 1..m)
          BY <1>0, <1>1, <1>2, <3>0, <3>3
        <4>2. j - m \in 1..n /\ u[j] = t[j - m] /\ t[j - m].arg \in Nat
          BY <1>1, <1>2, <4>1
        <4>3. j - m < k /\ k <= (j - m) + t[j - m].arg
          <5>1. u[j].arg = t[j - m].arg
            BY <4>2
          <5>2. ASSUME NEW a \in Nat, i <= j + a
                PROVE  j - m < k /\ k <= (j - m) + a
            BY <1>1, <3>0, <3>3, <5>2
          <5>3. QED
            BY <3>3, <4>2, <5>1, <5>2
        <4>4. t[j - m].tag = "RECEIVE"
          BY <3>3, <4>2
        <4>5. QED
          BY <1>0, <3>0, <4>2, <4>3, <4>4
      <3>4. ASSUME NEW j \in 1..n, j < k, t[j].tag = "RECEIVE",
                   k <= j + t[j].arg
            PROVE  \E l \in 1..(m + n) :
                      l < i /\ u[l].tag = "RECEIVE" /\ i <= l + u[l].arg
        <4>1. /\ j + m \in 1..(m + n) /\ ~(j + m \in 1..m) /\ (j + m) - m = j
              /\ j + m < i
          BY <1>1, <3>0, <3>4
        <4>2. u[j + m] = t[j] /\ t[j].arg \in Nat
          BY <1>1, <1>2, <4>1
        <4>3. i <= (j + m) + u[j + m].arg
          BY <1>1, <3>0, <3>4, <4>2
        <4>4. QED
          BY <3>4, <4>1, <4>2, <4>3
      <3>5. QED
        BY <1>0, <3>0, <3>1, <3>2, <3>3, <3>4
    <2>3. QED
      BY <1>1, <2>1, <2>2
  <1>4. f <= m + n
    BY <1>0, <1>1
  <1>5. QED
    BY <1>1, <1>3, <1>4 DEF PayloadPlaced, u

----------------------------------------------------------------------------
(* The channel and the modem *)

(* sendat issues a command or leaves the modem alone. *)
LEMMA SendAtIssues ==
    ASSUME TypeOK, NEW q \in Seq(Item), NEW reading \in BOOLEAN,
           NEW waiting \in BOOLEAN, SendAt(q, reading, waiting)
    PROVE  \/ UNCHANGED <<currcmd, wire>>
           \/ /\ radioready /\ currcmd = NoCmd /\ currcmd' \in Item
              /\ wire' = Append(wire, [n |-> currcmd'.n, kind |-> currcmd'.kind,
                                       phase |-> "cmd"])
  <1>1. ASSUME ~Blocked(reading, waiting), NEW k \in 1..Len(q), currcmd' = q[k],
               wire' = Append(wire, [n |-> q[k].n, kind |-> q[k].kind,
                                     phase |-> "cmd"])
        PROVE  /\ radioready /\ currcmd = NoCmd /\ currcmd' \in Item
               /\ wire' = Append(wire, [n |-> currcmd'.n, kind |-> currcmd'.kind,
                                        phase |-> "cmd"])
    BY <1>1, ItemNumber DEF Blocked
  <1>2. QED
    BY <1>1 DEF SendAt

(* With no command in execution no response waits, so that any may be      *)
(* issued.                                                                 *)
LEMMA SendAtAgrees ==
    ASSUME TypeOK, Agreement, NEW q \in Seq(Item), NEW reading \in BOOLEAN,
           NEW waiting \in BOOLEAN, SendAt(q, reading, waiting),
           UNCHANGED <<rx, interdata, radioready, transparentmode, urcfilter>>,
           readat' => readat, ~readat' => urcfilter = 0
    PROVE  Agreement'
  <1>0. PayloadPlaced(rx, urcfilter)'
    BY DEF Agreement
  <1>1. CASE UNCHANGED <<currcmd, wire>>
    BY <1>1 DEF Agreement, WireAgrees, MultiAgrees, ModeAgrees
  <1>2. CASE /\ radioready /\ currcmd = NoCmd /\ currcmd' \in Item
             /\ wire' = Append(wire, [n |-> currcmd'.n, kind |-> currcmd'.kind,
                                      phase |-> "cmd"])
    <2>1. wire = <<>> /\ ~interdata
      BY <1>2 DEF Agreement, WireAgrees
    <2>2. /\ wire' = <<[n |-> currcmd'.n, kind |-> currcmd'.kind, phase |-> "cmd"]>>
      BY <1>2, <2>1
    <2>3. /\ Len(wire') = 1 /\ wire' # <<>>
          /\ wire'[1].n = currcmd'.n /\ wire'[1].kind = currcmd'.kind
      BY <2>2
    <2>4. currcmd' # NoCmd
      BY <1>2, RilAssumption DEF Item, NoCmd
    <2>5. \A i \in 1..Len(rx) : /\ rx[i].tag # "CLOSED" /\ ~IsResponse(rx[i])
      BY <1>2 DEF Agreement, LinesAgree
    <2>6. LinesAgree(rx', currcmd', wire' = <<>>)
      BY <2>5 DEF LinesAgree, IsResponse, IsAnswer
    <2>7. QED
      BY <1>0, <1>2, <2>1, <2>3, <2>4, <2>6
         DEF Agreement, WireAgrees, MultiAgrees, ModeAgrees
  <1>3. QED
    BY <1>1, <1>2, SendAtIssues

(* What the modem says must agree by itself, and be no response after the  *)
(* answer.                                                                 *)
LEMMA SayAgrees ==
    ASSUME TypeOK, Agreement, NEW lines \in Seq(Line), Say(lines), wire' \in Seq(Sent),
           LinesAgree(lines, currcmd, wire' = <<>>), PayloadPlaced(lines, 0),
           HasResponse(lines) => wire # <<>>,
           wire = <<>> => wire' = <<>>,
           wire' # <<>> => /\ Len(wire') = 1
                           /\ wire'[1].n = wire[1].n /\ wire'[1].kind = wire[1].kind,
           wire' = <<>> => wire = <<>> \/ HasAnswer(lines)
    PROVE  Agreement'
  <1>1. /\ rx \in Seq(Line) /\ rx' = rx \o lines /\ UNCHANGED lua /\ urcfilter \in Nat
    BY DEF Say, TypeOK
  <1>2. /\ \A i \in 1..Len(rx) : rx'[i] = rx[i] /\ i \in 1..Len(rx')
        /\ \A i \in 1..Len(lines) : Len(rx) + i \in 1..Len(rx')
                                    /\ rx'[Len(rx) + i] = lines[i]
    BY <1>1, ConcatProperties
  <1>3. HasAnswer(rx) => wire = <<>>
    BY DEF Agreement, LinesAgree, HasAnswer
  <1>4. LinesAgree(rx, currcmd, wire' = <<>>)
    BY <1>3 DEF Agreement, LinesAgree, HasAnswer
  <1>5. LinesAgree(rx', currcmd', wire' = <<>>)
    BY <1>1, <1>3, <1>4, ConcatAgrees DEF lua
  <1>6. PayloadPlaced(rx', urcfilter')
    BY <1>1, ConcatPlaced DEF Agreement, lua
  <1>7. HasAnswer(rx) \/ HasAnswer(lines) => HasAnswer(rx')
    BY <1>2 DEF HasAnswer
  <1>8. WireAgrees'
    BY <1>1, <1>7 DEF Agreement, WireAgrees, lua
  <1>9. MultiAgrees'
    <2>1. rx # <<>> => rx' # <<>> /\ Head(rx') = Head(rx)
      <3> SUFFICES ASSUME rx # <<>> PROVE rx' # <<>> /\ Head(rx') = Head(rx)
        OBVIOUS
      <3>1. 1 \in 1..Len(rx) /\ Head(rx) = rx[1]
        BY <1>1
      <3>2. rx' \in Seq(Line) /\ 1 \in 1..Len(rx') /\ rx'[1] = rx[1]
        BY <1>1, <1>2, <3>1, ConcatProperties
      <3>3. QED
        BY <3>1, <3>2
    <2>2. QED
      BY <1>1, <2>1 DEF Agreement, MultiAgrees, lua
  <1>10. ModeAgrees'
    BY <1>1 DEF Agreement, ModeAgrees, lua
  <1>11. QED
    BY <1>5, <1>6, <1>8, <1>9, <1>10 DEF Agreement

(* One line that is no response and no header *)
LEMMA PlainSaid ==
    ASSUME NEW t \in {"RDY", "URC"}, NEW c, NEW over
    PROVE  /\ <<Ln(t, 0)>> \in Seq(Line) /\ ~HasResponse(<<Ln(t, 0)>>)
           /\ LinesAgree(<<Ln(t, 0)>>, c, over) /\ PayloadPlaced(<<Ln(t, 0)>>, 0)
  <1>1. Ln(t, 0) \in Line /\ Ln(t, 0).tag = t
    BY LineType DEF Tags, Ln
  <1> DEFINE s == <<Ln(t, 0)>>
  <1>2. s \in Seq(Line) /\ Len(s) = 1 /\ \A i \in 1..Len(s) : s[i].tag = t
    BY <1>1
  <1> HIDE DEF s
  <1>3. \A i \in 1..Len(s) : ~IsResponse(s[i]) /\ ~IsAnswer(s[i])
    BY <1>2 DEF IsResponse, IsAnswer
  <1>4. LinesAgree(s, c, over) /\ ~HasResponse(s)
    BY <1>2, <1>3 DEF LinesAgree, HasResponse
  <1>5. PayloadPlaced(s, 0)
    BY <1>2 DEF PayloadPlaced
  <1>6. QED
    BY <1>2, <1>4, <1>5 DEF s

(* A header and its payload *)
LEMMA PayloadSaid ==
    ASSUME NEW k \in 1..MaxPayload, NEW c, NEW over
    PROVE  LET s == <<Ln("RECEIVE", k)>> \o [i \in 1..k |-> Ln("PAYLOAD", 0)]
           IN  /\ s \in Seq(Line) /\ ~HasResponse(s)
               /\ LinesAgree(s, c, over) /\ PayloadPlaced(s, 0)
  <1> DEFINE h == <<Ln("RECEIVE", k)>>
             p == [i \in 1..k |-> Ln("PAYLOAD", 0)]
             s == h \o p
  <1>0. k \in Nat
    BY RilAssumption
  <1>1. /\ Ln("RECEIVE", k) \in Line /\ Ln("PAYLOAD", 0) \in Line
        /\ Ln("RECEIVE", k).tag = "RECEIVE" /\ Ln("RECEIVE", k).arg = k
        /\ Ln("PAYLOAD", 0).tag = "PAYLOAD"
    BY <1>0, LineType DEF Tags, Ln
  <1>2. /\ h \in Seq(Line) /\ Len(h) = 1 /\ h[1] = Ln("RECEIVE", k)
        /\ p \in Seq(Line) /\ Len(p) = k
        /\ \A i \in 1..k : p[i] = Ln("PAYLOAD", 0)
    BY <1>0, <1>1
  <1> HIDE DEF h, p
  <1>3. /\ s \in Seq(Line) /\ Len(s) = k + 1
        /\ \A i \in 1..(k + 1) : s[i] = IF i <= 1 THEN h[i] ELSE p[i - 1]
    <2>1. /\ s \in Seq(Line) /\ Len(s) = Len(h) + Len(p)
          /\ \A i \in 1..(Len(h) + Len(p)) :
               s[i] = IF i <= Len(h) THEN h[i] ELSE p[i - Len(h)]
      BY <1>2, ConcatProperties
    <2> HIDE DEF s
    <2>2. Len(h) = 1 /\ Len(h) + Len(p) = k + 1
      BY <1>0, <1>2
    <2>3. QED
      BY <2>1, <2>2
  <1>4. /\ s[1].tag = "RECEIVE" /\ s[1].arg = k
        /\ \A i \in 1..(k + 1) : i # 1 => s[i].tag = "PAYLOAD"
    BY <1>0, <1>1, <1>2, <1>3
  <1> HIDE DEF s
  <1>5. \A i \in 1..(k + 1) : s[i].tag \in {"RECEIVE", "PAYLOAD"}
    BY <1>4
  <1>6. \A i \in 1..Len(s) : ~IsResponse(s[i]) /\ ~IsAnswer(s[i])
                             /\ s[i].tag \notin {"CLOSED", "INFO", "BODY", "RESULT"}
    BY <1>3, <1>5 DEF IsResponse, IsAnswer
  <1>7. LinesAgree(s, c, over) /\ ~HasResponse(s)
    BY <1>6 DEF LinesAgree, HasResponse
  <1>8. PayloadPlaced(s, 0)
    <2>1. \A i \in 1..(k + 1) : s[i].tag = "RECEIVE" => i = 1
      BY <1>4
    <2>2. \A i \in 1..(k + 1) : s[i].tag = "RECEIVE" => i + s[i].arg <= k + 1
      BY <1>0, <1>4, <2>1
    <2>3. ASSUME NEW i \in 1..(k + 1)
          PROVE  s[i].tag = "PAYLOAD" <=>
                   \/ i <= 0
                   \/ \E j \in 1..(k + 1) :
                        j < i /\ s[j].tag = "RECEIVE" /\ i <= j + s[j].arg
      <3>1. CASE i = 1
        BY <1>4, <3>1
      <3>2. CASE i # 1
        <4>1. 1 \in 1..(k + 1) /\ 1 < i /\ i <= 1 + k
          BY <1>0, <3>2
        <4>2. QED
          BY <1>4, <3>2, <4>1
      <3>3. QED
        BY <3>1, <3>2
    <2>4. QED
      BY <1>0, <1>3, <2>2, <2>3 DEF PayloadPlaced
  <1>9. QED
    BY <1>3, <1>7, <1>8 DEF s, h, p

(* What precedes an answer *)
LEMMA PreparedSaid ==
    ASSUME NEW t \in {"INFO", "PROMPT"}, NEW n \in Nat, NEW c, c # NoCmd, c.n = n,
           t = "INFO" => c.kind # "multi", NEW over
    PROVE  /\ <<Ln(t, n)>> \in Seq(Line)
           /\ LinesAgree(<<Ln(t, n)>>, c, over) /\ PayloadPlaced(<<Ln(t, n)>>, 0)
  <1>1. Ln(t, n) \in Line /\ Ln(t, n).tag = t /\ Ln(t, n).arg = n
    BY LineType DEF Tags, Ln
  <1> DEFINE s == <<Ln(t, n)>>
  <1>2. s \in Seq(Line) /\ Len(s) = 1 /\ \A i \in 1..Len(s) : s[i].tag = t /\ s[i].arg = n
    BY <1>1
  <1> HIDE DEF s
  <1>3. \A i \in 1..Len(s) : ~IsAnswer(s[i])
    BY <1>2 DEF IsAnswer
  <1>4. LinesAgree(s, c, over)
    BY <1>2, <1>3 DEF LinesAgree
  <1>5. PayloadPlaced(s, 0)
    BY <1>2 DEF PayloadPlaced
  <1>6. QED
    BY <1>2, <1>4, <1>5 DEF s

(* Every answer to the command in execution is one that procatc takes for  *)
(* its answer.                                                             *)
LEMMA AnswerSaid ==
    ASSUME NEW w \in Sent, NEW a \in Answers(w), NEW c, c # NoCmd,
           c.n = w.n, c.kind = w.kind
    PROVE  LinesAgree(a, c, TRUE) /\ PayloadPlaced(a, 0) /\ HasAnswer(a)
  <1> DEFINE m == w.n
  <1>1. /\ Ln("ERROR", m).tag = "ERROR" /\ Ln("OK", m).tag = "OK"
        /\ Ln("INFO", m).tag = "INFO" /\ Ln("BODY", m).tag = "BODY"
        /\ Ln("RESULT", m).tag = "RESULT"
        /\ Ln("ERROR", m).arg = m /\ Ln("OK", m).arg = m
        /\ Ln("INFO", m).arg = m /\ Ln("BODY", m).arg = m /\ Ln("RESULT", m).arg = m
    BY DEF Ln
  <1>2. \/ a = <<Ln("ERROR", m)>>
        \/ a = <<Ln("OK", m)>>
        \/ a = <<Ln("INFO", m), Ln("BODY", m), Ln("OK", m)>>
        \/ a = <<Ln("INFO", m), Ln("OK", m)>> /\ c.kind = "sms"
        \/ a = <<Ln("RESULT", m)>> /\ c.kind \in {"send", "close"}
    BY DEF Answers
  <1>3. CASE a = <<Ln("ERROR", m)>> \/ a = <<Ln("OK", m)>>
    <2>1. /\ Len(a) = 1 /\ a[1].tag \in {"ERROR", "OK"} /\ a[1].arg = m
          /\ \A i \in 1..Len(a) : i = 1
      <3>1. CASE a = <<Ln("ERROR", m)>>
        BY <1>1, <3>1
      <3>2. CASE a = <<Ln("OK", m)>>
        BY <1>1, <3>2
      <3>3. QED
        BY <1>3, <3>1, <3>2
    <2>2. QED
      BY <2>1 DEF LinesAgree, PayloadPlaced, HasAnswer, IsAnswer, IsResponse
  <1>4. CASE a = <<Ln("RESULT", m)>> /\ c.kind \in {"send", "close"}
    <2>1. /\ Len(a) = 1 /\ a[1].tag = "RESULT" /\ a[1].arg = m
          /\ \A i \in 1..Len(a) : i = 1
      BY <1>1, <1>4
    <2>2. QED
      BY <1>4, <2>1 DEF LinesAgree, PayloadPlaced, HasAnswer, IsAnswer, IsResponse
  <1>5. CASE a = <<Ln("INFO", m), Ln("OK", m)>> /\ c.kind = "sms"
    <2>1. /\ Len(a) = 2 /\ a[1].tag = "INFO" /\ a[1].arg = m
          /\ a[2].tag = "OK" /\ a[2].arg = m
          /\ \A i \in 1..Len(a) : i = 1 \/ i = 2
      BY <1>1, <1>5
    <2>2. QED
      BY <1>5, <2>1 DEF LinesAgree, PayloadPlaced, HasAnswer, IsAnswer, IsResponse
  <1>6. CASE a = <<Ln("INFO", m), Ln("BODY", m), Ln("OK", m)>>
    <2>1. /\ Len(a) = 3 /\ a[1].tag = "INFO" /\ a[1].arg = m
          /\ a[2].tag = "BODY" /\ a[2].arg = m
          /\ a[3].tag = "OK" /\ a[3].arg = m
          /\ \A i \in 1..Len(a) : i = 1 \/ i = 2 \/ i = 3
      BY <1>1, <1>6
    <2>2. QED
      BY <2>1 DEF LinesAgree, PayloadPlaced, HasAnswer, IsAnswer, IsResponse
  <1>7. QED
    BY <1>2, <1>3, <1>4, <1>5, <1>6

----------------------------------------------------------------------------
(* Reading *)

LEMMA HeadAgrees ==
    ASSUME TypeOK, Agreement, rx # <<>>
    PROVE  /\ Head(rx).tag # "CLOSED"
           /\ IsResponse(Head(rx)) => currcmd # NoCmd
           /\ Head(rx).tag = "RESULT" => currcmd.kind \in {"send", "close"}
           /\ Head(rx).tag = "INFO" /\ currcmd.kind = "multi" =>
                Tail(rx) # <<>> /\ Head(Tail(rx)).tag = "BODY"
           /\ Head(rx).tag = "BODY" =>
                Tail(rx) # <<>> /\ Head(Tail(rx)).tag = "OK"
  <1>1. /\ rx \in Seq(Line) /\ Head(rx) = rx[1] /\ 1 \in 1..Len(rx)
        /\ Len(rx) \in Nat /\ Len(Tail(rx)) = Len(rx) - 1 /\ Tail(rx) \in Seq(Line)
    BY TailIs DEF TypeOK
  <1>2. 1 + 1 <= Len(rx) => Tail(rx) # <<>> /\ Head(Tail(rx)) = rx[1 + 1]
    <2> SUFFICES ASSUME 1 + 1 <= Len(rx)
                 PROVE  Tail(rx) # <<>> /\ Head(Tail(rx)) = rx[1 + 1]
      OBVIOUS
    <2>1. Tail(rx) # <<>>
      <3>1. Len(Tail(rx)) >= 1
        BY <1>1
      <3>2. QED
        BY <1>1, <3>1, HasLength
    <2>2. Tail(rx)[1] = rx[1 + 1]
      <3>1. 1 \in 1..(Len(rx) - 1)
        BY <1>1
      <3>2. QED
        BY <1>1, <3>1, TailIs
    <2>3. Head(Tail(rx)) = Tail(rx)[1]
      BY <1>1, <2>1, TailIs
    <2>4. QED
      BY <2>1, <2>2, <2>3
  <1>3. QED
    BY <1>1, <1>2 DEF Agreement, LinesAgree

(* Every line read by procatc is taken for what it is. *)
LEMMA ReadAgrees == TypeOK /\ Agreement /\ ReadLine => Agreement'
  <1> SUFFICES ASSUME TypeOK, Agreement, ReadLine PROVE Agreement'
    OBVIOUS
  <1>0. TakeLine
    BY DEF ReadLine, LineSwallowed, LineFiltered, LineUrc, LineInfo, LinePrompt,
           LineFinal
  <1>1. /\ rx # <<>> /\ rx \in Seq(Line) /\ rx' = Tail(rx) /\ readat /\ readat' = readat
        /\ transparentmode' = transparentmode /\ ~transparentmode /\ urcfilter \in Nat
    BY <1>0 DEF TakeLine, TypeOK, Agreement, ModeAgrees
  <1> DEFINE h == Head(rx)
  <1>2. /\ LinesAgree(rx', currcmd, wire = <<>>)
        /\ HasAnswer(rx) /\ ~IsAnswer(h) => HasAnswer(rx')
        /\ IsAnswer(h) => wire = <<>> /\ ~HasResponse(rx')
    BY <1>1, TailAgrees DEF Agreement
  <1>3. /\ urcfilter > 0 <=> h.tag = "PAYLOAD"
        /\ urcfilter > 0 => PayloadPlaced(rx', urcfilter - 1)
        /\ urcfilter = 0 => PayloadPlaced(rx', FilterOf(h))
    BY <1>1, TailPlaced DEF Agreement
  <1>4. /\ h.tag # "CLOSED" /\ (IsResponse(h) => currcmd # NoCmd)
        /\ h.tag = "RESULT" => currcmd.kind \in {"send", "close"}
        /\ h.tag = "INFO" /\ currcmd.kind = "multi" =>
             rx' # <<>> /\ Head(rx').tag = "BODY"
        /\ h.tag = "BODY" => rx' # <<>> /\ Head(rx').tag = "OK"
    BY <1>1, HeadAgrees
  <1>5. interdata /\ currcmd.kind = "multi" => h.tag \in {"BODY", "OK"}
    BY DEF Agreement, MultiAgrees
  <1>6. Dispatches => urcfilter = 0
    BY DEF Dispatches
  <1>7. /\ ModeAgrees /\ WireAgrees
    BY DEF Agreement
  <1>8. FilterOf(h) = IF h.tag = "RECEIVE" THEN h.arg ELSE 0
    BY DEF FilterOf
  <1> HIDE DEF h
  <1>9. CASE LineSwallowed
    <2>1. interdata /\ currcmd.kind = "multi" /\ h.tag # "OK"
      BY <1>9 DEF LineSwallowed, Swallows, h
    <2>2. h.tag = "BODY"
      BY <1>5, <2>1
    <2>3. urcfilter = 0 /\ ~IsAnswer(h)
      BY <1>1, <1>3, <2>2 DEF IsAnswer
    <2>4. PayloadPlaced(rx', urcfilter')
      BY <1>3, <1>8, <1>9, <2>2, <2>3 DEF LineSwallowed
    <2>5. QED
      BY <1>1, <1>2, <1>4, <1>7, <1>9, <2>2, <2>3, <2>4
         DEF Agreement, WireAgrees, MultiAgrees, ModeAgrees, LineSwallowed
  <1>10. CASE LineFiltered
    <2>1. h.tag = "PAYLOAD" /\ urcfilter > 0
      BY <1>3, <1>10 DEF LineFiltered
    <2>2. ~(interdata /\ currcmd.kind = "multi") /\ ~IsAnswer(h)
      BY <1>5, <2>1 DEF IsAnswer
    <2>3. PayloadPlaced(rx', urcfilter')
      BY <1>3, <1>10, <2>1 DEF LineFiltered
    <2>4. QED
      BY <1>1, <1>2, <1>7, <1>10, <2>2, <2>3
         DEF Agreement, WireAgrees, MultiAgrees, ModeAgrees, LineFiltered
  <1>11. CASE LineUrc
    <2>1. Dispatches /\ IsUrc(h.tag)
      BY <1>11 DEF LineUrc, h
    <2>2. ~IsAnswer(h)
      BY <1>4, <2>1 DEF IsUrc, IsResult, IsAnswer, IsResponse
    <2>3. ~(interdata /\ currcmd.kind = "multi")
      <3> SUFFICES ASSUME interdata, currcmd.kind = "multi" PROVE FALSE
        OBVIOUS
      <3>1. h.tag = "OK"
        BY <2>1 DEF Dispatches, Swallows, h
      <3>2. QED
        BY <2>2, <3>1 DEF IsAnswer
    <2>4. PayloadPlaced(rx', urcfilter')
      BY <1>3, <1>6, <1>11, <2>1 DEF LineUrc, h
    <2>5. QED
      BY <1>1, <1>2, <1>7, <1>11, <2>2, <2>3, <2>4
         DEF Agreement, WireAgrees, MultiAgrees, ModeAgrees, LineUrc
  <1>12. CASE LineInfo
    <2>1. Dispatches /\ Fits(h.tag) /\ currcmd # NoCmd
      BY <1>12 DEF LineInfo, h
    <2>2. h.tag \in {"INFO", "URC"} /\ (currcmd.kind = "multi" => h.tag = "INFO")
      BY <2>1 DEF Fits
    <2>3. ~IsAnswer(h)
      BY <2>2 DEF IsAnswer
    <2>4. PayloadPlaced(rx', urcfilter')
      BY <1>3, <1>6, <1>8, <1>12, <2>1, <2>2 DEF LineInfo
    <2>5. QED
      BY <1>1, <1>2, <1>4, <1>7, <1>12, <2>1, <2>2, <2>3, <2>4
         DEF Agreement, WireAgrees, MultiAgrees, ModeAgrees, LineInfo
  <1>13. CASE LinePrompt
    <2>1. Dispatches /\ h.tag = "PROMPT" /\ currcmd # NoCmd
      BY <1>13 DEF LinePrompt, h
    <2>2. ~IsAnswer(h) /\ ~(interdata /\ currcmd.kind = "multi")
      BY <1>5, <2>1 DEF IsAnswer
    <2>3. PayloadPlaced(rx', urcfilter')
      BY <1>3, <1>6, <1>8, <1>13, <2>1 DEF LinePrompt
    <2>4. /\ wire' = <<>> <=> wire = <<>>
          /\ wire # <<>> => /\ Len(wire') = 1
                            /\ wire'[1].n = wire[1].n /\ wire'[1].kind = wire[1].kind
      <3>1. CASE wire' = wire
        BY <1>7, <3>1 DEF WireAgrees
      <3>2. CASE wire' = [i \in DOMAIN wire |-> [wire[i] EXCEPT !.phase = "arg"]]
        <4>1. CASE wire = <<>>
          <5>1. DOMAIN wire = {} /\ DOMAIN wire = 1..0
            BY <4>1
          <5>2. wire' = <<>>
            BY <3>2, <5>1
          <5>3. QED
            BY <4>1, <5>2
        <4>2. CASE wire # <<>>
          <5>1. Len(wire) = 1 /\ DOMAIN wire = 1..1 /\ wire[1] \in Sent
            BY <1>7, <4>2 DEF WireAgrees, TypeOK
          <5>2. wire' = [i \in 1..1 |-> [wire[i] EXCEPT !.phase = "arg"]]
            BY <3>2, <5>1
          <5>3. wire'[1] = [wire[1] EXCEPT !.phase = "arg"] /\ DOMAIN wire' = 1..1
            BY <5>2
          <5>4. wire'[1].n = wire[1].n /\ wire'[1].kind = wire[1].kind
            BY <5>1, <5>3 DEF Sent
          <5>5. Len(wire') = 1 /\ wire' # <<>>
            BY <5>3
          <5>6. QED
            BY <4>2, <5>4, <5>5
        <4>3. QED
          BY <4>1, <4>2
      <3>3. QED
        BY <1>13, <3>1, <3>2 DEF LinePrompt
    <2>5. LinesAgree(rx', currcmd', wire' = <<>>)
      <3>1. (wire' = <<>>) <=> (wire = <<>>)
        BY <2>4
      <3>2. currcmd' = currcmd
        BY <1>13 DEF LinePrompt
      <3>3. QED
        BY <1>2, <3>1, <3>2 DEF LinesAgree
    <2>6. WireAgrees'
      BY <1>2, <1>7, <1>13, <2>2, <2>4 DEF WireAgrees, LinePrompt
    <2>7. QED
      BY <1>1, <1>7, <1>13, <2>2, <2>3, <2>5, <2>6
         DEF Agreement, MultiAgrees, ModeAgrees, LinePrompt
  <1>14. CASE LineFinal
    <2>1. Dispatches /\ h.tag \in {"OK", "ERROR", "RESULT"}
      BY <1>4, <1>14 DEF LineFinal, IsResult, h
    <2>2. wire = <<>> /\ ~HasResponse(rx')
      BY <1>2, <2>1 DEF IsAnswer
    <2>3. PayloadPlaced(rx', urcfilter')
      BY <1>3, <1>6, <1>8, <1>14, <2>1 DEF LineFinal
    <2>4. currcmd' = NoCmd /\ ~interdata' /\ wire' = <<>>
      BY <1>14, <2>2 DEF LineFinal, Respond
    <2>5. LinesAgree(rx', currcmd', wire' = <<>>)
      <3>1. \A i \in 1..Len(rx') : ~IsResponse(rx'[i]) /\ rx'[i].tag # "CLOSED"
        BY <1>2, <2>2 DEF HasResponse, LinesAgree
      <3>2. QED
        BY <3>1 DEF LinesAgree, IsResponse, IsAnswer
    <2>6. QED
      BY <1>1, <1>7, <1>14, <2>3, <2>4, <2>5
         DEF Agreement, WireAgrees, MultiAgrees, ModeAgrees, LineFinal
  <1>15. QED
    BY <1>9, <1>10, <1>11, <1>12, <1>13, <1>14 DEF ReadLine

----------------------------------------------------------------------------
(* Speaking *)

(* Whatever the modem says is to the command in execution. *)
LEMMA ModemAgrees ==
    ASSUME ~ClosedUrc, TypeOK, TypeOK', Agreement,
           ModemReady \/ ModemUrc \/ ModemPrepares \/ ModemAnswers
    PROVE  Agreement'
  <1>0. /\ wire \in Seq(Sent) /\ wire' \in Seq(Sent) /\ WireAgrees
    BY DEF TypeOK, Agreement
  <1>1. CASE UNCHANGED wire
             /\ \E t \in {"RDY", "URC"} : Say(<<Ln(t, 0)>>)
    <2>1. PICK t \in {"RDY", "URC"} : Say(<<Ln(t, 0)>>)
      BY <1>1
    <2> DEFINE s == <<Ln(t, 0)>>
    <2>2. /\ s \in Seq(Line) /\ ~HasResponse(s)
          /\ LinesAgree(s, currcmd, wire' = <<>>) /\ PayloadPlaced(s, 0)
      BY PlainSaid
    <2> HIDE DEF s
    <2>3. Say(s)
      BY <2>1 DEF s
    <2>4. QED
      BY <1>0, <1>1, <2>2, <2>3, SayAgrees DEF WireAgrees
  <1>2. CASE UNCHANGED wire
             /\ \E k \in 1..MaxPayload :
                  Say(<<Ln("RECEIVE", k)>> \o [i \in 1..k |-> Ln("PAYLOAD", 0)])
    <2>1. PICK k \in 1..MaxPayload :
            Say(<<Ln("RECEIVE", k)>> \o [i \in 1..k |-> Ln("PAYLOAD", 0)])
      BY <1>2
    <2> DEFINE s == <<Ln("RECEIVE", k)>> \o [i \in 1..k |-> Ln("PAYLOAD", 0)]
    <2>2. /\ s \in Seq(Line) /\ ~HasResponse(s)
          /\ LinesAgree(s, currcmd, wire' = <<>>) /\ PayloadPlaced(s, 0)
      BY PayloadSaid
    <2>3. Say(s)
      BY <2>1
    <2> HIDE DEF s
    <2>4. QED
      BY <1>0, <1>2, <2>2, <2>3, SayAgrees DEF WireAgrees
  <1>3. CASE wire # <<>> /\ (ModemPrepares \/ ModemAnswers)
    <2> DEFINE w == Head(wire)
    <2>1. /\ Len(wire) = 1 /\ w = wire[1] /\ w \in Sent /\ Tail(wire) = <<>>
      <3>1. Len(wire) = 1
        BY <1>0, <1>3 DEF WireAgrees
      <3>2. Tail(wire) \in Seq(Sent) /\ Len(Tail(wire)) = 0
        BY <1>0, <1>3, <3>1, HeadTailProperties
      <3>3. Tail(wire) = <<>>
        BY <3>2, NoLength
      <3>4. Head(wire) = wire[1] /\ wire[1] \in Sent
        BY <1>0, <1>3, <3>1
      <3>5. QED
        BY <3>1, <3>3, <3>4
    <2>2. /\ currcmd # NoCmd /\ w.n = currcmd.n /\ w.kind = currcmd.kind
          /\ w.n \in Nat
      BY <1>0, <1>3, <2>1, RilAssumption DEF WireAgrees, Sent
    <2>3. CASE ModemPrepares
      <3>1. PICK t \in {"INFO", "PROMPT"}, p \in {"info", "prompt"} :
              /\ Say(<<Ln(t, w.n)>>) /\ (t = "INFO" => w.kind # "multi")
              /\ wire' = <<[w EXCEPT !.phase = p]>> \o Tail(wire)
        BY <2>3 DEF ModemPrepares
      <3> DEFINE s == <<Ln(t, w.n)>>
                 v == [w EXCEPT !.phase = p]
      <3>2. /\ s \in Seq(Line)
            /\ LinesAgree(s, currcmd, wire' = <<>>) /\ PayloadPlaced(s, 0)
        BY <2>2, <3>1, PreparedSaid
      <3>3. v.n = w.n /\ v.kind = w.kind /\ wire' = <<v>>
        <4>1. v.n = w.n /\ v.kind = w.kind /\ v \in Sent
          BY <2>1, <3>1 DEF Sent
        <4> HIDE DEF v
        <4>2. wire' = <<v>> \o <<>>
          BY <2>1, <3>1 DEF v
        <4>3. QED
          BY <4>1, <4>2
      <3>4. Say(s)
        BY <3>1
      <3> HIDE DEF s, v
      <3>5. wire' # <<>> /\ Len(wire') = 1 /\ wire'[1] = v
        BY <3>3
      <3>6. QED
        BY <1>0, <1>3, <2>1, <3>2, <3>3, <3>4, <3>5, SayAgrees
    <2>4. CASE ModemAnswers
      <3>1. PICK a \in Answers(w) : Say(a)
        BY <2>4 DEF ModemAnswers
      <3>2. wire' = <<>>
        BY <2>1, <2>4 DEF ModemAnswers
      <3>3. LinesAgree(a, currcmd, wire' = <<>>) /\ PayloadPlaced(a, 0) /\ HasAnswer(a)
        <4>1. LinesAgree(a, currcmd, TRUE) /\ PayloadPlaced(a, 0) /\ HasAnswer(a)
          BY <2>1, <2>2, AnswerSaid
        <4>2. QED
          BY <3>2, <4>1 DEF LinesAgree
      <3>4. a \in Seq(Line)
        BY <2>1, AnswerType
      <3>5. QED
        BY <1>0, <1>3, <3>1, <3>2, <3>3, <3>4, SayAgrees
    <2>5. QED
      BY <1>3, <2>3, <2>4
  <1>4. QED
    BY <1>1, <1>2, <1>3 DEF ModemReady, ModemUrc, ModemPrepares, ModemAnswers

----------------------------------------------------------------------------
(* The theorems *)

LEMMA AgreementStep ==
    ASSUME ~ClosedUrc, TypeOK, TypeOK', Agreement, [Next]_vars
    PROVE  Agreement'
  <1>1. ASSUME rx' = <<>>, urcfilter' = 0, wire' = <<>>, currcmd' = NoCmd, ~interdata',
               transparentmode' => ~radioready' /\ ~readat'
        PROVE  Agreement'
    <2>1. Len(rx') = 0 /\ \A i \in 1..Len(rx') : FALSE
      BY <1>1
    <2>2. LinesAgree(rx', currcmd', wire' = <<>>) /\ PayloadPlaced(rx', urcfilter')
      BY <1>1, <2>1 DEF LinesAgree, PayloadPlaced
    <2>3. QED
      BY <1>1, <2>2 DEF Agreement, WireAgrees, MultiAgrees, ModeAgrees
  <1>2. CASE Request
    <2>1. PICK k \in Kinds, d \in BOOLEAN :
            SendAt(Append(cmdqueue, NewItem(k, d)), readat, delaying)
      BY <1>2 DEF Request
    <2>2. Append(cmdqueue, NewItem(k, d)) \in Seq(Item)
      <3>1. NewItem(k, d) \in Item
        BY <1>2, NewItemType DEF Request
      <3>2. QED
        BY <3>1 DEF TypeOK
    <2>3. readat \in BOOLEAN /\ delaying \in BOOLEAN
          /\ UNCHANGED <<rx, interdata, radioready, transparentmode, urcfilter, readat>>
          /\ (~readat => urcfilter = 0)
      BY <1>2 DEF Request, uart, TypeOK, Agreement, ModeAgrees
    <2>4. QED
      BY <2>1, <2>2, <2>3, SendAtAgrees
  <1>3. CASE DelayFunc
    <2>1. /\ SendAt(cmdqueue, readat, FALSE) /\ cmdqueue \in Seq(Item) /\ readat \in BOOLEAN
          /\ UNCHANGED <<rx, interdata, radioready, transparentmode, urcfilter, readat>>
          /\ (~readat => urcfilter = 0)
      BY <1>3 DEF DelayFunc, uart, TypeOK, Agreement, ModeAgrees
    <2>2. QED
      BY <2>1, SendAtAgrees
  <1>4. CASE SetTransparentMode
    BY <1>4 DEF SetTransparentMode, uart, modem, Agreement, WireAgrees, MultiAgrees,
                ModeAgrees
  <1>5. CASE AtcBegin
    BY <1>5 DEF AtcBegin, modem, Agreement, WireAgrees, MultiAgrees, ModeAgrees
  <1>6. CASE AtcEnd
    <2>1. urcfilter = 0
      <3>1. rx = <<>> /\ Len(rx) = 0 /\ urcfilter \in Nat
        BY <1>6 DEF AtcEnd, TypeOK
      <3>2. urcfilter <= Len(rx)
        BY DEF Agreement, PayloadPlaced
      <3>3. QED
        BY <3>1, <3>2
    <2>2. /\ SendAt(cmdqueue, FALSE, delaying) /\ cmdqueue \in Seq(Item)
          /\ delaying \in BOOLEAN /\ ~readat'
          /\ UNCHANGED <<rx, interdata, radioready, transparentmode, urcfilter>>
      BY <1>6 DEF AtcEnd, uart, TypeOK
    <2>3. QED
      BY <2>1, <2>2, SendAtAgrees
  <1>7. CASE AtcTransparent
    <2>1. transparentmode /\ ~radioready /\ ~readat /\ urcfilter = 0 /\ currcmd = NoCmd
          /\ wire = <<>> /\ ~interdata
      BY <1>7 DEF AtcTransparent, Agreement, ModeAgrees, WireAgrees
    <2>2. rx' = <<>> /\ UNCHANGED <<lua, modem>>
      BY <1>7 DEF AtcTransparent
    <2>3. QED
      BY <1>1, <2>1, <2>2 DEF lua, modem
  <1>8. CASE ReadLine
    BY <1>8, ReadAgrees
  <1>9. CASE Atimeout
    BY <1>1, <1>9 DEF Atimeout
  <1>10. CASE ModemReady \/ ModemUrc \/ ModemPrepares \/ ModemAnswers
    BY <1>10, ModemAgrees
  <1>11. CASE UNCHANGED vars
    BY <1>11 DEF vars, lua, uart, modem, Agreement, WireAgrees, MultiAgrees, ModeAgrees
  <1>12. QED
    BY <1>2, <1>3, <1>4, <1>5, <1>6, <1>7, <1>8, <1>9, <1>10, <1>11 DEF Next

LEMMA AgreementHolds == ~ClosedUrc => (Spec => []Agreement)
  <1> SUFFICES ASSUME ~ClosedUrc PROVE Spec => []Agreement
    OBVIOUS
  <1>1. Init => Agreement
    <2> SUFFICES ASSUME Init PROVE Agreement
      OBVIOUS
    <2>1. Len(rx) = 0 /\ \A i \in 1..Len(rx) : FALSE
      BY DEF Init
    <2>2. LinesAgree(rx, currcmd, wire = <<>>) /\ PayloadPlaced(rx, urcfilter)
      BY <2>1 DEF LinesAgree, PayloadPlaced, Init
    <2>3. QED
      BY <2>2 DEF Init, Agreement, WireAgrees, MultiAgrees, ModeAgrees
  <1>2. TypeOK /\ TypeOK' /\ Agreement /\ [Next]_vars => Agreement'
    BY AgreementStep
  <1>3. QED
    BY <1>1, <1>2, TypeCorrect, PTL DEF Spec

(* The channel and the modem agree on the command in execution: its one    *)
(* answer is awaited, or on its way and first in line, and no answer is    *)
(* taken for another's or swallowed (ril.lua 238-373, procatc).            *)
THEOREM OneCommandInFlight == ~ClosedUrc => (Spec => []OneInFlight)
  <1> SUFFICES ASSUME ~ClosedUrc PROVE Spec => []OneInFlight
    OBVIOUS
  <1>1. TypeOK /\ Agreement => OneInFlight
    <2> SUFFICES ASSUME TypeOK, Agreement PROVE OneInFlight
      OBVIOUS
    <2>1. /\ LinesAgree(rx, currcmd, wire = <<>>) /\ WireAgrees
          /\ Len(rx) \in Nat
      BY DEF Agreement, TypeOK
    <2>2. \A i \in Answered : i \in 1..Len(rx) /\ IsAnswer(rx[i]) /\ IsResponse(rx[i])
      BY DEF Answered, IsAnswer, IsResponse
    <2>3. \A i \in Answered : /\ rx[i].arg = currcmd.n /\ currcmd # NoCmd /\ wire = <<>>
      BY <2>1, <2>2 DEF LinesAgree
    <2>4. \A i, j \in Answered : i = j
      <3> SUFFICES ASSUME NEW i \in Answered, NEW j \in Answered, i < j PROVE FALSE
        BY <2>1, <2>2
      <3>1. QED
        BY <2>1, <2>2 DEF LinesAgree
    <2>5. HasAnswer(rx) => \E i \in Answered : Answered = {i}
      <3>1. ASSUME NEW i \in 1..Len(rx), IsAnswer(rx[i])
            PROVE  i \in Answered
        BY <3>1 DEF Answered
      <3>2. QED
        BY <2>4, <3>1 DEF HasAnswer
    <2>6. \A i \in 1..Len(wire) : wire[i].n = currcmd.n
      <3> SUFFICES ASSUME NEW i \in 1..Len(wire) PROVE wire[i].n = currcmd.n
        OBVIOUS
      <3>1. wire # <<>>
        OBVIOUS
      <3>2. Len(wire) = 1
        BY <2>1, <3>1 DEF WireAgrees
      <3>3. i = 1
        BY <3>2
      <3>4. QED
        BY <2>1, <3>1, <3>3 DEF WireAgrees
    <2>7. wire # <<>> \/ currcmd = NoCmd => Answered = {}
      BY <2>3
    <2>8. QED
      BY <2>1, <2>3, <2>5, <2>6, <2>7 DEF OneInFlight, WireAgrees
  <1>2. QED
    BY <1>1, TypeCorrect, AgreementHolds, PTL

(* The lines of a received payload, and no others, go to the filter that   *)
(* its header installed (ril.lua 220-247, urc and procatc).                            *)
THEOREM PayloadGoesToFilter == ~ClosedUrc => (Spec => []PayloadIsFiltered)
  <1> SUFFICES ASSUME ~ClosedUrc PROVE Spec => []PayloadIsFiltered
    OBVIOUS
  <1>1. TypeOK /\ Agreement => PayloadIsFiltered
    <2> SUFFICES ASSUME TypeOK, Agreement, rx # <<>>
                 PROVE  urcfilter > 0 <=> Head(rx).tag = "PAYLOAD"
      BY DEF PayloadIsFiltered
    <2>1. rx \in Seq(Line) /\ urcfilter \in Nat /\ PayloadPlaced(rx, urcfilter)
      BY DEF TypeOK, Agreement
    <2>2. QED
      BY <2>1, TailPlaced
  <1>2. QED
    BY <1>1, TypeCorrect, AgreementHolds, PTL

(* Lines that wait outside the reader have a message on the way: the UART  *)
(* sends one when it was empty (ril.lua 500-525, atcreader).               *)
THEOREM LinesAreAnnounced == Spec => []NoLostWakeup
  <1>1. Init => NoLostWakeup
    BY DEF Init, NoLostWakeup
  <1>2. TypeOK /\ NoLostWakeup /\ [Next]_vars => NoLostWakeup'
    <2> SUFFICES ASSUME TypeOK, NoLostWakeup, [Next]_vars PROVE NoLostWakeup'
      OBVIOUS
    <2>1. ASSUME UNCHANGED <<rx, readat, wake>> PROVE NoLostWakeup'
      BY <2>1 DEF NoLostWakeup
    <2>2. CASE Request \/ DelayFunc \/ SetTransparentMode \/ UNCHANGED vars
      BY <2>1, <2>2 DEF Request, DelayFunc, SetTransparentMode, vars, lua, uart
    <2>3. CASE AtcBegin \/ AtcEnd \/ AtcTransparent \/ Atimeout
      BY <2>3 DEF AtcBegin, AtcEnd, AtcTransparent, Atimeout, uart, lua, NoLostWakeup
    <2>4. CASE ReadLine
      BY <2>4 DEF ReadLine, LineSwallowed, LineFiltered, LineUrc, LineInfo, LinePrompt,
                  LineFinal, TakeLine, NoLostWakeup
    <2>5. ASSUME NEW lines, Say(lines) PROVE NoLostWakeup'
      BY <2>5 DEF Say, lua, NoLostWakeup, TypeOK
    <2>6. CASE ModemReady \/ ModemUrc \/ ModemPrepares \/ ModemAnswers
      BY <2>5, <2>6 DEF ModemReady, ModemUrc, ModemPrepares, ModemAnswers
    <2>7. QED
      BY <2>2, <2>3, <2>4, <2>6 DEF Next
  <1>3. QED
    BY <1>1, <1>2, TypeCorrect, PTL DEF Spec
=============================================================================
