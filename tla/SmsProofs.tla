------------------------------ MODULE SmsProofs ------------------------------
(***************************************************************************)
(* Proofs about Sms for any buffer, number of messages and parts, and      *)
(* programs and a network without the Habits, but for "noread": a message  *)
(* that cannot be read stays in front of the list, and nothing overtakes   *)
(* it.                                                                     *)
(*                                                                         *)
(* Answers and results carry no message, so that the invariant says what   *)
(* waits in the two queues, the commands reqs and the messages qmsg: for   *)
(* sending, the AT+CMGS of the first message in one block, and its result  *)
(* once (SendInv); for reading, one reading, of the first position, the    *)
(* reports of new messages in the order of their arrival, and deletions    *)
(* of messages that were shown (ReadInv).                                  *)
(***************************************************************************)
EXTENDS Sms, SequenceTheorems, FiniteSetTheorems, TLAPS

Sends == [op : {"CMGS"}, id : 1..MaxSends]
Reads == [op : {"CMGR"}, pos : Positions]
Deletes == [op : {"CMGD"}, pos : Positions]
Requests == Sends \union Reads \union Deletes

Readies == [kind : {"SMS_READY"}]
Confs == [kind : {"SMS_SEND_CNF"}, result : BOOLEAN]
Inds == [kind : {"SMS_NEW_MSG_IND"}, pos : Positions]
Shows == [kind : {"SMS_READ_CNF"}, data : 0..MaxNews]
Events == Readies \union Confs \union Inds \union Shows

Outcomes == {"no", "ok", "error"}
Records == [sent : Nat, answers : Nat, ok : BOOLEAN, told : Outcomes]
Messages == [id : 1..MaxSends, cnt : 1..MaxParts]
Sendings == [sval : Nat, rval : Nat, flg : BOOLEAN, id : Nat]

(* The queue q has elements of K, at most one, and only those of L *)
Has(q, K) == \E i \in 1..Len(q) : q[i] \in K
Single(q, K) == \A i, j \in 1..Len(q) : q[i] \in K /\ q[j] \in K => i = j
Each(q, K, L) == \A i \in 1..Len(q) : q[i] \in K => q[i] \in L

(* The elements of K in q are n, one behind the other *)
Block(q, K, n) ==
    \E b \in 0..Len(q) :
        /\ b + n <= Len(q)
        /\ \A i \in 1..Len(q) : q[i] \in K <=> i \in b + 1..b + n

(* The reports in q are of the messages lo + 1..hi of the card f, in order *)
NewsFit(q, f, lo, hi) ==
    /\ \A i \in 1..Len(q) : q[i] \in Inds => f[q[i].pos] \in lo + 1..hi
    /\ \A i, j \in 1..Len(q) :
         q[i] \in Inds /\ q[j] \in Inds /\ i < j => f[q[i].pos] < f[q[j].pos]
    /\ \A v \in lo + 1..hi :
         \E i \in 1..Len(q) : q[i] \in Inds /\ f[q[i].pos] = v

(* The deletions in q are of messages 1..k of the card f, each once *)
DeletesFit(q, f, k) ==
    /\ \A i \in 1..Len(q) : q[i] \in Deletes => f[q[i].pos] \in 1..k
    /\ \A i, j \in 1..Len(q) :
         q[i] \in Deletes /\ q[j] \in Deletes /\ i # j => q[i].pos # q[j].pos

Busy == tsend # <<>> \/ Has(qmsg, Confs)

(* tsmsnd holds messages that were not sent, but for the first when Busy *)
BufferFits ==
    /\ \A a \in 1..Len(tsmsnd) :
         /\ tsmsnd[a].id \in 1..Len(log)
         /\ (a > 1 \/ ~Busy) => log[tsmsnd[a].id] = NewMessage
    /\ \A a, b \in 1..Len(tsmsnd) : a # b => tsmsnd[a].id # tsmsnd[b].id

FirstId == tsmsnd[1].id

(* The first of tsmsnd is sent, once, and its answers so far are r *)
SendingFits ==
    /\ Busy => /\ ready /\ ~timer /\ ~Has(qmsg, Readies) /\ tsmsnd # <<>>
               /\ log[FirstId].sent = 1 /\ log[FirstId].told = "no"
    /\ tsend # <<>> =>
         /\ Len(tsend) = 1 /\ ~Has(qmsg, Confs)
         /\ tsend[1].id = FirstId
         /\ tsend[1].sval = tsmsnd[1].cnt
         /\ tsend[1].rval = log[FirstId].answers
         /\ tsend[1].flg = log[FirstId].ok
         /\ tsend[1].rval < tsend[1].sval
    /\ Has(qmsg, Confs) => log[FirstId].answers = tsmsnd[1].cnt
    /\ Each(qmsg, Confs, [kind : {"SMS_SEND_CNF"}, result : {log[FirstId].ok}])
    /\ Single(qmsg, Confs)

Waiting == IF tsend = <<>> THEN 0 ELSE tsend[1].sval - tsend[1].rval

CommandsFit ==
    /\ Block(reqs, Sends, Waiting)
    /\ Each(reqs, Sends, [op : {"CMGS"}, id : {FirstId}])

(* Who sends the first when nothing is under way: the timer or SMS_READY *)
StartFits ==
    /\ Single(qmsg, Readies)
    /\ Has(qmsg, Readies) => ready /\ ~timer
    /\ timer => ready /\ tsmsnd # <<>>

SendTypes ==
    /\ ready \in BOOLEAN /\ timer \in BOOLEAN
    /\ tsmsnd \in Seq(Messages) /\ Len(tsmsnd) <= Full
    /\ tsend \in Seq(Sendings)
    /\ log \in Seq(Records) /\ Len(log) <= MaxSends
    /\ reqs \in Seq(Requests) /\ qmsg \in Seq(Events)

SendInv ==
    SendTypes /\ BufferFits /\ SendingFits /\ CommandsFit /\ StartFits

ReadTypes ==
    /\ tnewsms \in Seq(Positions) /\ arrived \in 0..MaxNews
    /\ sim \in [Positions -> 0..MaxNews] /\ shown \in Seq(0..MaxNews)
    /\ reqs \in Seq(Requests) /\ qmsg \in Seq(Events)

(* The messages that were shown, and those whose position is listed *)
ListFits ==
    /\ Len(shown) + Len(tnewsms) <= arrived
    /\ \A i \in 1..Len(shown) : shown[i] = i
    /\ \A a \in 1..Len(tnewsms) : sim[tnewsms[a]] = Len(shown) + a
    /\ NewsFit(qmsg, sim, Len(shown) + Len(tnewsms), arrived)
    /\ DeletesFit(reqs, sim, Len(shown))

(* One reading, of the first position of the list *)
ReadingFits ==
    /\ Single(reqs, Reads) /\ Single(qmsg, Shows)
    /\ Has(reqs, Reads) => tnewsms # <<>> /\ ~Has(qmsg, Shows)
    /\ Has(qmsg, Shows) => tnewsms # <<>>
    /\ Each(reqs, Reads, [op : {"CMGR"}, pos : {tnewsms[1]}])
    /\ Each(qmsg, Shows, [kind : {"SMS_READ_CNF"}, data : {Len(shown) + 1}])

ReadInv == ReadTypes /\ ListFits /\ ReadingFits

IInv == SendInv /\ ReadInv

----------------------------------------------------------------------------
(* Queues: an element is put behind, the head is taken, others are added.  *)

LEMMA AppendFacts ==
    ASSUME NEW S, NEW q \in Seq(S), NEW e \in S
    PROVE  /\ Append(q, e) \in Seq(S) /\ Len(q) \in Nat
           /\ Len(Append(q, e)) = Len(q) + 1
           /\ \A i \in 1..Len(q) : Append(q, e)[i] = q[i]
           /\ Append(q, e)[Len(q) + 1] = e
BY AppendProperties

LEMMA TailFacts ==
    ASSUME NEW S, NEW q \in Seq(S), q # <<>>
    PROVE  /\ Tail(q) \in Seq(S) /\ Len(q) \in Nat \ {0}
           /\ Len(Tail(q)) = Len(q) - 1
           /\ \A i \in 1..Len(q) - 1 : Tail(q)[i] = q[i + 1]
           /\ Head(q) = q[1] /\ q[1] \in S
OBVIOUS

LEMMA LastIsTaken ==
    ASSUME NEW S, NEW q \in Seq(S), Len(q) = 1
    PROVE  Tail(q) = <<>>
<1>1. q # <<>>
  OBVIOUS
<1>2. Tail(q) \in Seq(S) /\ Len(Tail(q)) = 0
  BY <1>1, TailFacts
<1> QED
  BY <1>2, EmptySeq

LEMMA ConcatFacts ==
    ASSUME NEW S, NEW q \in Seq(S), NEW p \in Seq(S)
    PROVE  /\ q \o p \in Seq(S) /\ Len(q) \in Nat /\ Len(p) \in Nat
           /\ Len(q \o p) = Len(q) + Len(p)
           /\ \A i \in 1..Len(q) : (q \o p)[i] = q[i]
           /\ \A i \in Len(q) + 1..Len(q) + Len(p) :
                (q \o p)[i] = p[i - Len(q)]
<1>1. /\ q \o p \in Seq(S) /\ Len(q) \in Nat /\ Len(p) \in Nat
      /\ Len(q \o p) = Len(q) + Len(p)
  OBVIOUS
<1>2. \A i \in 1..Len(q) + Len(p) :
         (q \o p)[i] = IF i <= Len(q) THEN q[i] ELSE p[i - Len(q)]
  BY ConcatProperties
<1> QED
  BY <1>1, <1>2

LEMMA OneMore ==
    ASSUME NEW S, NEW q \in Seq(S), NEW e \in S
    PROVE  q \o <<e>> = Append(q, e) /\ q \o <<>> = q
OBVIOUS

LEMMA QueueAppend ==
    ASSUME NEW S, NEW q \in Seq(S), NEW e \in S, NEW K
    PROVE  /\ Has(Append(q, e), K) <=> Has(q, K) \/ e \in K
           /\ Single(q, K) /\ ~(Has(q, K) /\ e \in K)
                => Single(Append(q, e), K)
           /\ \A L : Each(q, K, L) /\ (e \in K => e \in L)
                => Each(Append(q, e), K, L)
<1> DEFINE r == Append(q, e)
           n == Len(q)
<1>1. /\ n \in Nat /\ Len(r) = n + 1 /\ r[n + 1] = e
      /\ \A i \in 1..n : r[i] = q[i]
  BY AppendFacts
<1> HIDE DEF r
<1>2. Has(r, K) <=> Has(q, K) \/ e \in K
  <2>1. Has(q, K) => Has(r, K)
    BY <1>1 DEF Has
  <2>2. e \in K => Has(r, K)
    BY <1>1 DEF Has
  <2>3. ASSUME NEW i \in 1..n + 1, r[i] \in K PROVE Has(q, K) \/ e \in K
    BY <2>3, <1>1 DEF Has
  <2> QED
    BY <2>1, <2>2, <2>3, <1>1 DEF Has
<1>3. ASSUME Single(q, K), ~(Has(q, K) /\ e \in K) PROVE Single(r, K)
  <2> SUFFICES ASSUME NEW i \in 1..n + 1, NEW j \in 1..n + 1,
                      r[i] \in K, r[j] \in K
               PROVE  i = j
    BY <1>1 DEF Single
  <2>1. CASE i \in 1..n /\ j \in 1..n
    BY <2>1, <1>1, <1>3 DEF Single
  <2>2. CASE i \in 1..n /\ j = n + 1
    BY <2>2, <1>1, <1>3 DEF Has
  <2>3. CASE i = n + 1 /\ j \in 1..n
    BY <2>3, <1>1, <1>3 DEF Has
  <2> QED
    BY <2>1, <2>2, <2>3, <1>1
<1>4. ASSUME NEW L, Each(q, K, L), e \in K => e \in L PROVE Each(r, K, L)
  BY <1>4, <1>1 DEF Each
<1> QED
  BY <1>2, <1>3, <1>4 DEF r

LEMMA QueueTail ==
    ASSUME NEW S, NEW q \in Seq(S), q # <<>>, NEW K
    PROVE  /\ Has(q, K) <=> Head(q) \in K \/ Has(Tail(q), K)
           /\ Single(q, K) =>
                /\ Single(Tail(q), K)
                /\ Head(q) \in K => ~Has(Tail(q), K)
           /\ \A L : Each(q, K, L) =>
                Each(Tail(q), K, L) /\ (Head(q) \in K => Head(q) \in L)
<1> DEFINE r == Tail(q)
           n == Len(q)
<1>1. /\ n \in Nat \ {0} /\ Len(r) = n - 1 /\ Head(q) = q[1]
      /\ \A i \in 1..n - 1 : r[i] = q[i + 1]
  BY TailFacts
<1> HIDE DEF r
<1>2. Has(q, K) <=> q[1] \in K \/ Has(r, K)
  <2>1. ASSUME NEW i \in 1..n - 1, r[i] \in K PROVE Has(q, K)
    <3>1. i + 1 \in 1..n /\ q[i + 1] \in K
      BY <2>1, <1>1
    <3> QED
      BY <3>1 DEF Has
  <2>2. ASSUME NEW i \in 1..n, q[i] \in K PROVE q[1] \in K \/ Has(r, K)
    <3>1. CASE i = 1
      BY <2>2, <3>1
    <3>2. CASE i # 1
      <4>1. i - 1 \in 1..n - 1 /\ r[i - 1] = q[i]
        BY <3>2, <1>1
      <4> QED
        BY <4>1, <2>2, <1>1 DEF Has
    <3> QED
      BY <3>1, <3>2
  <2> QED
    BY <2>1, <2>2, <1>1 DEF Has
<1>3. ASSUME Single(q, K)
      PROVE  Single(r, K) /\ (q[1] \in K => ~Has(r, K))
  <2>1. ASSUME NEW i \in 1..n - 1, NEW j \in 1..n - 1, r[i] \in K, r[j] \in K
        PROVE  i = j
    <3>1. i + 1 \in 1..n /\ j + 1 \in 1..n /\ i \in Nat /\ j \in Nat
      BY <1>1
    <3>2. q[i + 1] \in K /\ q[j + 1] \in K
      BY <2>1, <1>1
    <3>3. i + 1 = j + 1
      BY <3>1, <3>2, <1>3 DEF Single
    <3> QED
      BY <3>1, <3>3
  <2>2. \A i, j \in 1..n - 1 : r[i] \in K /\ r[j] \in K => i = j
    BY <2>1
  <2>3. \A i \in 1..n - 1 : ~(r[i] \in K /\ q[1] \in K)
    BY <1>1, <1>3 DEF Single
  <2> QED
    BY <2>2, <2>3, <1>1 DEF Single, Has
<1>4. ASSUME NEW L, Each(q, K, L)
      PROVE  Each(r, K, L) /\ (q[1] \in K => q[1] \in L)
  BY <1>4, <1>1 DEF Each
<1> QED
  BY <1>1, <1>2, <1>3, <1>4 DEF r

LEMMA QueueConcat ==
    ASSUME NEW S, NEW q \in Seq(S), NEW p \in Seq(S), NEW K, ~Has(p, K)
    PROVE  /\ Has(q \o p, K) <=> Has(q, K)
           /\ Single(q, K) => Single(q \o p, K)
           /\ \A L : Each(q, K, L) => Each(q \o p, K, L)
<1> DEFINE r == q \o p
           n == Len(q)
           m == Len(p)
<1>1. /\ n \in Nat /\ m \in Nat /\ Len(r) = n + m
      /\ \A i \in 1..n : r[i] = q[i]
      /\ \A i \in n + 1..n + m : r[i] = p[i - n]
  BY ConcatFacts
<1> HIDE DEF r
<1>2. \A i \in 1..n + m : r[i] \in K => i \in 1..n /\ r[i] = q[i]
  <2> SUFFICES ASSUME NEW i \in n + 1..n + m PROVE r[i] \notin K
    BY <1>1
  <2>1. i - n \in 1..m /\ r[i] = p[i - n]
    BY <1>1
  <2> QED
    BY <2>1 DEF Has
<1>3. Has(r, K) <=> Has(q, K)
  BY <1>1, <1>2 DEF Has
<1>4. Single(q, K) => Single(r, K)
  BY <1>1, <1>2 DEF Single
<1>5. \A L : Each(q, K, L) => Each(r, K, L)
  BY <1>1, <1>2 DEF Each
<1> QED
  BY <1>3, <1>4, <1>5 DEF r

----------------------------------------------------------------------------
(* Blocks: one is put behind a queue without any, others are added, its    *)
(* first element is taken.                                                 *)

LEMMA BlockIsEmpty ==
    ASSUME NEW S, NEW q \in Seq(S), NEW K
    PROVE  Block(q, K, 0) <=> ~Has(q, K)
<1>1. Len(q) \in Nat
  OBVIOUS
<1>2. \A b \in Nat : b + 1..b + 0 = {}
  OBVIOUS
<1>3. Block(q, K, 0) => ~Has(q, K)
  BY <1>1, <1>2 DEF Block, Has
<1>4. ~Has(q, K) => Block(q, K, 0)
  <2> SUFFICES ASSUME ~Has(q, K)
               PROVE  0 + 0 <= Len(q)
                      /\ \A i \in 1..Len(q) : q[i] \in K <=> i \in 0 + 1..0 + 0
    BY <1>1 DEF Block
  <2> QED
    BY <1>1, <1>2 DEF Has
<1> QED
  BY <1>3, <1>4

LEMMA BlockStarts ==
    ASSUME NEW S, NEW q \in Seq(S), NEW p \in Seq(S), NEW K, ~Has(q, K),
           \A i \in 1..Len(p) : p[i] \in K
    PROVE  Block(q \o p, K, Len(p))
<1> DEFINE r == q \o p
           n == Len(q)
           m == Len(p)
<1>1. /\ n \in Nat /\ m \in Nat /\ Len(r) = n + m
      /\ \A i \in 1..n : r[i] = q[i]
      /\ \A i \in n + 1..n + m : r[i] = p[i - n]
  BY ConcatFacts
<1> HIDE DEF r
<1>2. \A i \in 1..n : r[i] \notin K
  BY <1>1 DEF Has
<1>3. ASSUME NEW i \in n + 1..n + m PROVE r[i] \in K
  <2>1. i - n \in 1..m
    BY <1>1
  <2> QED
    BY <2>1, <1>1
<1>4. \A i \in 1..n + m : r[i] \in K <=> i \in n + 1..n + m
  BY <1>1, <1>2, <1>3
<1>5. n \in 0..Len(r) /\ n + m <= Len(r)
  BY <1>1
<1>6. Block(r, K, m)
  BY <1>4, <1>5, <1>1 DEF Block
<1> QED
  BY <1>6 DEF r

LEMMA BlockConcat ==
    ASSUME NEW S, NEW q \in Seq(S), NEW p \in Seq(S), NEW K, ~Has(p, K),
           NEW k \in Nat, Block(q, K, k)
    PROVE  Block(q \o p, K, k)
<1> DEFINE r == q \o p
           n == Len(q)
           m == Len(p)
<1>1. /\ n \in Nat /\ m \in Nat /\ Len(r) = n + m
      /\ \A i \in 1..n : r[i] = q[i]
      /\ \A i \in n + 1..n + m : r[i] = p[i - n]
  BY ConcatFacts
<1> HIDE DEF r
<1>2. PICK b \in 0..n : /\ b + k <= n
                        /\ \A i \in 1..n : q[i] \in K <=> i \in b + 1..b + k
  BY DEF Block
<1>3. ASSUME NEW i \in n + 1..n + m PROVE r[i] \notin K
  <2>1. i - n \in 1..m
    BY <1>1
  <2> QED
    BY <2>1, <1>1 DEF Has
<1>4. \A i \in 1..n + m : r[i] \in K <=> i \in b + 1..b + k
  BY <1>1, <1>2, <1>3
<1>5. b \in 0..Len(r) /\ b + k <= Len(r)
  BY <1>1, <1>2
<1>6. Block(r, K, k)
  BY <1>4, <1>5, <1>1 DEF Block
<1> QED
  BY <1>6 DEF r

LEMMA BlockTail ==
    ASSUME NEW S, NEW q \in Seq(S), q # <<>>, NEW K,
           NEW k \in Nat, Block(q, K, k)
    PROVE  /\ Head(q) \in K => k > 0 /\ Block(Tail(q), K, k - 1)
           /\ Head(q) \notin K => Block(Tail(q), K, k)
<1> DEFINE r == Tail(q)
           n == Len(q)
<1>1. /\ n \in Nat \ {0} /\ Len(r) = n - 1 /\ Head(q) = q[1]
      /\ \A i \in 1..n - 1 : r[i] = q[i + 1]
  BY TailFacts
<1> HIDE DEF r
<1>2. PICK b \in 0..n : /\ b + k <= n
                        /\ \A i \in 1..n : q[i] \in K <=> i \in b + 1..b + k
  BY DEF Block
<1>3. \A i \in 1..n - 1 : r[i] \in K <=> i + 1 \in b + 1..b + k
  BY <1>1, <1>2
<1>4. ASSUME q[1] \in K PROVE k > 0 /\ Block(r, K, k - 1)
  <2>1. b = 0 /\ k > 0
    BY <1>4, <1>1, <1>2
  <2>2. \A i \in 1..n - 1 : r[i] \in K <=> i \in 0 + 1..0 + (k - 1)
    BY <2>1, <1>3, <1>1
  <2>3. 0 \in 0..Len(r) /\ 0 + (k - 1) <= Len(r)
    BY <2>1, <1>1, <1>2
  <2> QED
    BY <2>1, <2>2, <2>3, <1>1 DEF Block
<1>5. ASSUME q[1] \notin K PROVE Block(r, K, k)
  <2>1. CASE k = 0
    <3>1. \A i \in 1..n - 1 : r[i] \in K <=> i \in 0 + 1..0 + k
      BY <2>1, <1>3, <1>1
    <3> QED
      BY <3>1, <2>1, <1>1 DEF Block
  <2>2. CASE k # 0
    <3>1. b # 0
      BY <2>2, <1>5, <1>1, <1>2
    <3>2. \A i \in 1..n - 1 :
             r[i] \in K <=> i \in (b - 1) + 1..(b - 1) + k
      BY <3>1, <1>3, <1>1
    <3>3. b - 1 \in 0..Len(r) /\ (b - 1) + k <= Len(r)
      BY <3>1, <1>1, <1>2
    <3> QED
      BY <3>2, <3>3, <1>1 DEF Block
  <2> QED
    BY <2>1, <2>2
<1> QED
  BY <1>1, <1>4, <1>5 DEF r

----------------------------------------------------------------------------
(* Reports and deletions.  f and g are the card before and after.          *)

LEMMA NewsAppend ==
    ASSUME NEW q \in Seq(Events), NEW e \in Events, NEW f, NEW g,
           NEW lo \in Nat, NEW hi \in Nat, lo <= hi, NewsFit(q, f, lo, hi),
           \A i \in 1..Len(q) : q[i] \in Inds => g[q[i].pos] = f[q[i].pos]
    PROVE  /\ e \notin Inds => NewsFit(Append(q, e), g, lo, hi)
           /\ e \in Inds /\ g[e.pos] = hi + 1
                => NewsFit(Append(q, e), g, lo, hi + 1)
<1> DEFINE r == Append(q, e)
           n == Len(q)
<1>1. /\ n \in Nat /\ Len(r) = n + 1 /\ r[n + 1] = e
      /\ \A i \in 1..n : r[i] = q[i]
  BY AppendFacts
<1> HIDE DEF r
<1>2. /\ \A i \in 1..n : r[i] \in Inds => g[r[i].pos] \in lo + 1..hi
      /\ \A i, j \in 1..n : r[i] \in Inds /\ r[j] \in Inds /\ i < j
                            => g[r[i].pos] < g[r[j].pos]
      /\ \A v \in lo + 1..hi :
           \E i \in 1..n : r[i] \in Inds /\ g[r[i].pos] = v
  <2>1. \A i \in 1..n :
           r[i] = q[i] /\ (q[i] \in Inds => g[r[i].pos] = f[q[i].pos])
    BY <1>1
  <2>2. \A i \in 1..n : r[i] \in Inds => g[r[i].pos] \in lo + 1..hi
    BY <2>1 DEF NewsFit
  <2>3. \A i, j \in 1..n : r[i] \in Inds /\ r[j] \in Inds /\ i < j
                            => g[r[i].pos] < g[r[j].pos]
    BY <2>1 DEF NewsFit
  <2>4. ASSUME NEW v \in lo + 1..hi
        PROVE  \E i \in 1..n : r[i] \in Inds /\ g[r[i].pos] = v
    BY <2>1 DEF NewsFit
  <2> QED
    BY <2>2, <2>3, <2>4
<1>3. ASSUME e \notin Inds PROVE NewsFit(r, g, lo, hi)
  <2>1. \A i \in 1..n + 1 : r[i] \in Inds => i \in 1..n
    BY <1>1, <1>3
  <2>2. \A i \in 1..n : i \in 1..n + 1
    BY <1>1
  <2> QED
    BY <2>1, <2>2, <1>1, <1>2 DEF NewsFit
<1>4. ASSUME e \in Inds, g[e.pos] = hi + 1 PROVE NewsFit(r, g, lo, hi + 1)
  <2>1. ASSUME NEW i \in 1..n + 1, r[i] \in Inds
        PROVE  g[r[i].pos] \in lo + 1..hi + 1
    BY <2>1, <1>1, <1>2, <1>4
  <2>2. ASSUME NEW i \in 1..n + 1, NEW j \in 1..n + 1,
               r[i] \in Inds, r[j] \in Inds, i < j
        PROVE  g[r[i].pos] < g[r[j].pos]
    <3>1. i \in 1..n
      BY <2>2, <1>1
    <3>2. CASE j \in 1..n
      BY <2>2, <3>1, <3>2, <1>2
    <3>3. CASE j = n + 1
      <4>1. g[r[i].pos] \in lo + 1..hi /\ g[r[j].pos] = hi + 1
        BY <2>2, <3>1, <3>3, <1>1, <1>2, <1>4
      <4> QED
        BY <4>1
    <3> QED
      BY <3>2, <3>3, <1>1
  <2>3. ASSUME NEW v \in lo + 1..hi + 1
        PROVE  \E i \in 1..n + 1 : r[i] \in Inds /\ g[r[i].pos] = v
    <3>1. CASE v = hi + 1
      BY <3>1, <1>1, <1>4
    <3>2. CASE v \in lo + 1..hi
      <4>1. PICK i \in 1..n : r[i] \in Inds /\ g[r[i].pos] = v
        BY <3>2, <1>2
      <4> QED
        BY <4>1, <1>1
    <3> QED
      BY <3>1, <3>2
  <2> QED
    BY <2>1, <2>2, <2>3, <1>1 DEF NewsFit
<1> QED
  BY <1>3, <1>4 DEF r

LEMMA NewsTail ==
    ASSUME NEW q \in Seq(Events), q # <<>>, NEW f,
           NEW lo \in Nat, NEW hi \in Nat, NewsFit(q, f, lo, hi)
    PROVE  /\ Head(q) \notin Inds => NewsFit(Tail(q), f, lo, hi)
           /\ Head(q) \in Inds =>
                /\ f[Head(q).pos] = lo + 1 /\ lo + 1 <= hi
                /\ NewsFit(Tail(q), f, lo + 1, hi)
<1> DEFINE r == Tail(q)
           n == Len(q)
<1>1. /\ n \in Nat \ {0} /\ Len(r) = n - 1 /\ Head(q) = q[1]
      /\ \A i \in 1..n - 1 : r[i] = q[i + 1]
  BY TailFacts
<1> HIDE DEF r
<1>2. ASSUME NEW i \in 1..n - 1, r[i] \in Inds
      PROVE  /\ f[r[i].pos] \in lo + 1..hi
             /\ q[1] \in Inds => f[q[1].pos] < f[r[i].pos]
             /\ \A j \in 1..n - 1 : r[j] \in Inds /\ i < j
                                      => f[r[i].pos] < f[r[j].pos]
  <2>1. /\ 1 \in 1..n /\ i + 1 \in 1..n /\ 1 < i + 1
        /\ r[i] = q[i + 1] /\ q[i + 1] \in Inds
    BY <1>1, <1>2
  <2>2. f[r[i].pos] \in lo + 1..hi
    BY <2>1 DEF NewsFit
  <2>3. q[1] \in Inds => f[q[1].pos] < f[r[i].pos]
    BY <2>1 DEF NewsFit
  <2>4. ASSUME NEW j \in 1..n - 1, r[j] \in Inds, i < j
        PROVE  f[r[i].pos] < f[r[j].pos]
    <3>1. j + 1 \in 1..n /\ i + 1 < j + 1 /\ r[j] = q[j + 1]
      BY <2>4, <1>1
    <3> QED
      BY <3>1, <2>4, <2>1 DEF NewsFit
  <2> QED
    BY <2>2, <2>3, <2>4
<1>3. ASSUME NEW v \in lo + 1..hi, ~(q[1] \in Inds /\ f[q[1].pos] = v)
      PROVE  \E i \in 1..n - 1 : r[i] \in Inds /\ f[r[i].pos] = v
  <2>1. PICK i \in 1..n : q[i] \in Inds /\ f[q[i].pos] = v
    BY DEF NewsFit
  <2>2. i - 1 \in 1..n - 1 /\ r[i - 1] = q[i]
    BY <2>1, <1>1, <1>3
  <2> QED
    BY <2>1, <2>2
<1>4. ASSUME q[1] \notin Inds PROVE NewsFit(r, f, lo, hi)
  BY <1>1, <1>2, <1>3, <1>4 DEF NewsFit
<1>5. ASSUME q[1] \in Inds
      PROVE  /\ f[q[1].pos] = lo + 1 /\ lo + 1 <= hi
             /\ NewsFit(r, f, lo + 1, hi)
  <2>1. f[q[1].pos] \in lo + 1..hi
    BY <1>1, <1>5 DEF NewsFit
  <2>2. lo + 1 \in lo + 1..hi
    BY <2>1
  <2>3. f[q[1].pos] = lo + 1
    <3> SUFFICES ASSUME f[q[1].pos] # lo + 1 PROVE FALSE
      OBVIOUS
    <3>1. PICK i \in 1..n - 1 : r[i] \in Inds /\ f[r[i].pos] = lo + 1
      BY <2>2, <1>3
    <3>2. f[q[1].pos] < lo + 1
      BY <3>1, <1>2, <1>5
    <3> QED
      BY <3>2, <2>1
  <2>4. \A i \in 1..n - 1 : r[i] \in Inds => f[r[i].pos] \in (lo + 1) + 1..hi
    <3> SUFFICES ASSUME NEW i \in 1..n - 1, r[i] \in Inds
                 PROVE  f[r[i].pos] \in (lo + 1) + 1..hi
      OBVIOUS
    <3>1. f[r[i].pos] \in lo + 1..hi /\ lo + 1 < f[r[i].pos]
      BY <2>3, <1>2, <1>5
    <3> QED
      BY <3>1
  <2>5. \A v \in (lo + 1) + 1..hi :
          \E i \in 1..n - 1 : r[i] \in Inds /\ f[r[i].pos] = v
    <3> SUFFICES ASSUME NEW v \in (lo + 1) + 1..hi
                 PROVE  v \in lo + 1..hi /\ v # lo + 1
      BY <2>3, <1>3
    <3> QED
      OBVIOUS
  <2>6. \A i, j \in 1..Len(r) :
          r[i] \in Inds /\ r[j] \in Inds /\ i < j => f[r[i].pos] < f[r[j].pos]
    BY <1>1, <1>2
  <2>7. NewsFit(r, f, lo + 1, hi)
    BY <2>4, <2>5, <2>6, <1>1 DEF NewsFit
  <2>8. lo + 1 <= hi
    BY <2>2
  <2> QED
    BY <2>3, <2>7, <2>8
<1> QED
  BY <1>1, <1>4, <1>5 DEF r

(* Other changes of the card *)
LEMMA NewsOther ==
    ASSUME NEW q \in Seq(Events), NEW f, NEW g, NEW lo, NEW hi,
           NewsFit(q, f, lo, hi),
           \A i \in 1..Len(q) : q[i] \in Inds => g[q[i].pos] = f[q[i].pos]
    PROVE  NewsFit(q, g, lo, hi)
BY DEF NewsFit

LEMMA DeletesAppend ==
    ASSUME NEW q \in Seq(Requests), NEW e \in Requests, NEW f,
           NEW k \in Nat, DeletesFit(q, f, k)
    PROVE  /\ e \notin Deletes => DeletesFit(Append(q, e), f, k)
           /\ e \in Deletes /\ f[e.pos] = k + 1
                => DeletesFit(Append(q, e), f, k + 1)
<1> DEFINE r == Append(q, e)
           n == Len(q)
<1>1. /\ n \in Nat /\ Len(r) = n + 1 /\ r[n + 1] = e
      /\ \A i \in 1..n : r[i] = q[i]
  BY AppendFacts
<1> HIDE DEF r
<1>2. /\ \A i \in 1..n : r[i] \in Deletes => f[r[i].pos] \in 1..k
      /\ \A i, j \in 1..n : r[i] \in Deletes /\ r[j] \in Deletes /\ i # j
                            => r[i].pos # r[j].pos
  BY <1>1 DEF DeletesFit
<1>3. ASSUME e \notin Deletes PROVE DeletesFit(r, f, k)
  <2>1. \A i \in 1..n + 1 : r[i] \in Deletes => i \in 1..n
    BY <1>1, <1>3
  <2> QED
    BY <2>1, <1>1, <1>2 DEF DeletesFit
<1>4. ASSUME e \in Deletes, f[e.pos] = k + 1 PROVE DeletesFit(r, f, k + 1)
  <2>1. ASSUME NEW i \in 1..n + 1, r[i] \in Deletes
        PROVE  f[r[i].pos] \in 1..k + 1 /\ (f[r[i].pos] = k + 1 <=> i = n + 1)
    <3>1. CASE i = n + 1
      BY <3>1, <1>1, <1>4
    <3>2. CASE i \in 1..n
      <4>1. f[r[i].pos] \in 1..k
        BY <3>2, <2>1, <1>2
      <4> QED
        BY <4>1, <3>2, <1>1
    <3> QED
      BY <3>1, <3>2, <1>1
  <2>2. ASSUME NEW i \in 1..n + 1, NEW j \in 1..n + 1,
               r[i] \in Deletes, r[j] \in Deletes, i # j
        PROVE  r[i].pos # r[j].pos
    <3>1. CASE i = n + 1 \/ j = n + 1
      BY <3>1, <2>1, <2>2
    <3>2. CASE i \in 1..n /\ j \in 1..n
      BY <3>2, <2>2, <1>2
    <3> QED
      BY <3>1, <3>2, <1>1
  <2> QED
    BY <2>1, <2>2, <1>1 DEF DeletesFit
<1> QED
  BY <1>3, <1>4 DEF r

LEMMA DeletesConcat ==
    ASSUME NEW q \in Seq(Requests), NEW p \in Seq(Requests),
           ~Has(p, Deletes), NEW f, NEW k, DeletesFit(q, f, k)
    PROVE  DeletesFit(q \o p, f, k)
<1> DEFINE r == q \o p
           n == Len(q)
           m == Len(p)
<1>1. /\ n \in Nat /\ m \in Nat /\ Len(r) = n + m
      /\ \A i \in 1..n : r[i] = q[i]
      /\ \A i \in n + 1..n + m : r[i] = p[i - n]
  BY ConcatFacts
<1> HIDE DEF r
<1>2. \A i \in 1..n + m : r[i] \in Deletes => i \in 1..n /\ r[i] = q[i]
  <2> SUFFICES ASSUME NEW i \in n + 1..n + m PROVE r[i] \notin Deletes
    BY <1>1
  <2>1. i - n \in 1..m /\ r[i] = p[i - n]
    BY <1>1
  <2> QED
    BY <2>1 DEF Has
<1>3. DeletesFit(r, f, k)
  BY <1>1, <1>2 DEF DeletesFit
<1> QED
  BY <1>3 DEF r

(* A deletion is answered: g is the card without its message. *)
LEMMA DeletesTail ==
    ASSUME NEW q \in Seq(Requests), q # <<>>, NEW f, NEW g, NEW k,
           DeletesFit(q, f, k)
    PROVE  /\ DeletesFit(Tail(q), f, k)
           /\ Head(q) \in Deletes =>
                /\ f[Head(q).pos] \in 1..k
                /\ (\A p \in Positions : p # Head(q).pos => g[p] = f[p])
                      => DeletesFit(Tail(q), g, k)
<1> DEFINE r == Tail(q)
           n == Len(q)
<1>1. /\ n \in Nat \ {0} /\ Len(r) = n - 1 /\ Head(q) = q[1]
      /\ \A i \in 1..n - 1 : r[i] = q[i + 1]
  BY TailFacts
<1> HIDE DEF r
<1>2. ASSUME NEW i \in 1..n - 1, r[i] \in Deletes
      PROVE  /\ f[r[i].pos] \in 1..k
             /\ q[1] \in Deletes => r[i].pos # q[1].pos
             /\ \A j \in 1..n - 1 :
                  r[j] \in Deletes /\ i # j => r[i].pos # r[j].pos
  <2>1. /\ 1 \in 1..n /\ i + 1 \in 1..n /\ i + 1 # 1
        /\ r[i] = q[i + 1] /\ q[i + 1] \in Deletes
    BY <1>1, <1>2
  <2>2. f[r[i].pos] \in 1..k
    BY <2>1 DEF DeletesFit
  <2>3. q[1] \in Deletes => r[i].pos # q[1].pos
    BY <2>1 DEF DeletesFit
  <2>4. ASSUME NEW j \in 1..n - 1, r[j] \in Deletes, i # j
        PROVE  r[i].pos # r[j].pos
    <3>1. j + 1 \in 1..n /\ i + 1 # j + 1 /\ r[j] = q[j + 1]
      BY <2>4, <1>1
    <3> QED
      BY <3>1, <2>4, <2>1 DEF DeletesFit
  <2> QED
    BY <2>2, <2>3, <2>4
<1>3. DeletesFit(r, f, k)
  BY <1>1, <1>2 DEF DeletesFit
<1>4. ASSUME q[1] \in Deletes
      PROVE  /\ f[q[1].pos] \in 1..k
             /\ (\A p \in Positions : p # q[1].pos => g[p] = f[p])
                   => DeletesFit(r, g, k)
  <2>1. f[q[1].pos] \in 1..k
    BY <1>1, <1>4 DEF DeletesFit
  <2>2. ASSUME \A p \in Positions : p # q[1].pos => g[p] = f[p]
        PROVE  DeletesFit(r, g, k)
    <3>1. \A i \in 1..n - 1 : r[i] \in Deletes => r[i].pos \in Positions
      BY DEF Deletes
    <3>2. \A i \in 1..n - 1 : r[i] \in Deletes => g[r[i].pos] = f[r[i].pos]
      BY <3>1, <1>2, <1>4, <2>2
    <3> QED
      BY <3>2, <1>1, <1>2 DEF DeletesFit
  <2> QED
    BY <2>1, <2>2
<1> QED
  BY <1>1, <1>3, <1>4 DEF r

LEMMA DeletesOther ==
    ASSUME NEW q \in Seq(Requests), NEW f, NEW g, NEW k, DeletesFit(q, f, k),
           \A i \in 1..Len(q) : q[i] \in Deletes => g[q[i].pos] = f[q[i].pos]
    PROVE  DeletesFit(q, g, k)
BY DEF DeletesFit
----------------------------------------------------------------------------
(* Kinds of elements *)

LEMMA EventKinds ==
    ASSUME NEW e \in Events
    PROVE  /\ e \in Readies <=> e.kind = "SMS_READY"
           /\ e \in Confs <=> e.kind = "SMS_SEND_CNF"
           /\ e \in Inds <=> e.kind = "SMS_NEW_MSG_IND"
           /\ e \in Shows <=> e.kind = "SMS_READ_CNF"
           /\ e \in Confs => e.result \in BOOLEAN
           /\ e \in Inds => e.pos \in Positions
           /\ e \in Shows => e.data \in 0..MaxNews
           /\ e \in Readies <=> e = SmsReadyMsg
BY DEF Events, Readies, Confs, Inds, Shows, SmsReadyMsg

LEMMA RequestKinds ==
    ASSUME NEW r \in Requests
    PROVE  /\ r \in Sends <=> r.op = "CMGS"
           /\ r \in Reads <=> r.op = "CMGR"
           /\ r \in Deletes <=> r.op = "CMGD"
           /\ r \in Sends => r.id \in 1..MaxSends
           /\ r \in Reads => r.pos \in Positions
           /\ r \in Deletes => r.pos \in Positions
BY DEF Requests, Sends, Reads, Deletes

(* Nothing of K comes or goes between the queues q and r *)
Keeps(q, r, K) ==
    /\ Has(r, K) <=> Has(q, K)
    /\ Single(q, K) => Single(r, K)
    /\ \A L : Each(q, K, L) => Each(r, K, L)

LEMMA KeepsAppend ==
    ASSUME NEW S, NEW q \in Seq(S), NEW e \in S, NEW K, e \notin K
    PROVE  Keeps(q, Append(q, e), K)
BY QueueAppend DEF Keeps

LEMMA KeepsTail ==
    ASSUME NEW S, NEW q \in Seq(S), q # <<>>, NEW K, Head(q) \notin K
    PROVE  Keeps(q, Tail(q), K)
BY QueueTail DEF Keeps

LEMMA KeepsConcat ==
    ASSUME NEW S, NEW q \in Seq(S), NEW p \in Seq(S), NEW K, ~Has(p, K)
    PROVE  Keeps(q, q \o p, K)
BY QueueConcat DEF Keeps

LEMMA BusyIsInFlight ==
    ASSUME qmsg \in Seq(Events)
    PROVE  InFlight <=> Busy
<1>1. DOMAIN qmsg = 1..Len(qmsg) /\ \A i \in 1..Len(qmsg) : qmsg[i] \in Events
  OBVIOUS
<1>2. \A i \in 1..Len(qmsg) : qmsg[i] \in Confs <=> qmsg[i].kind = "SMS_SEND_CNF"
  BY <1>1, EventKinds
<1> QED
  BY <1>1, <1>2 DEF InFlight, Busy, Has

LEMMA ReadyIsQueued ==
    ASSUME qmsg \in Seq(Events)
    PROVE  Contains(qmsg, SmsReadyMsg) <=> Has(qmsg, Readies)
<1>1. \A i \in 1..Len(qmsg) : qmsg[i] \in Readies <=> qmsg[i] = SmsReadyMsg
  BY EventKinds
<1> QED
  BY <1>1 DEF Contains, Has

(* Where an element is put in the buffer *)
LEMMA InsertFacts ==
    ASSUME NEW S, NEW q \in Seq(S), NEW e \in S, NEW k \in 1..Len(q) + 1
    PROVE  /\ InsertAt(q, k, e) \in Seq(S)
           /\ Len(InsertAt(q, k, e)) = Len(q) + 1
           /\ \A i \in 1..k - 1 : InsertAt(q, k, e)[i] = q[i]
           /\ InsertAt(q, k, e)[k] = e
           /\ \A i \in k + 1..Len(q) + 1 : InsertAt(q, k, e)[i] = q[i - 1]
<1> DEFINE a == SubSeq(q, 1, k - 1)
           b == a \o <<e>>
           c == SubSeq(q, k, Len(q))
<1>0. Len(q) \in Nat /\ k \in Nat
  OBVIOUS
<1>1. a \in Seq(S) /\ Len(a) = k - 1 /\ \A i \in 1..k - 1 : a[i] = q[i]
  BY <1>0, SubSeqProperties
<1>2. /\ c \in Seq(S) /\ Len(c) = Len(q) + 1 - k
      /\ \A i \in 1..Len(q) + 1 - k : c[i] = q[k + i - 1]
  BY <1>0, SubSeqProperties
<1> HIDE DEF a, c
<1>3. b = Append(a, e)
  BY <1>1
<1>4. /\ b \in Seq(S) /\ Len(b) = k /\ b[k] = e
      /\ \A i \in 1..k - 1 : b[i] = q[i]
  BY <1>0, <1>1, <1>3, AppendFacts
<1> HIDE DEF b
<1>5. /\ b \o c \in Seq(S) /\ Len(b \o c) = Len(q) + 1
      /\ \A i \in 1..k : (b \o c)[i] = b[i]
      /\ \A i \in k + 1..Len(q) + 1 : (b \o c)[i] = c[i - k]
  BY <1>0, <1>2, <1>4, ConcatFacts
<1>6. ASSUME NEW i \in k + 1..Len(q) + 1 PROVE (b \o c)[i] = q[i - 1]
  <2>1. i - k \in 1..Len(q) + 1 - k /\ k + (i - k) - 1 = i - 1
    BY <1>0
  <2> QED
    BY <2>1, <1>2, <1>5
<1>7. InsertAt(q, k, e) = b \o c
  BY DEF InsertAt, a, b, c
<1> QED
  BY <1>0, <1>4, <1>5, <1>6, <1>7
----------------------------------------------------------------------------
(* What each half of the invariant sees of the queues *)

LEMMA SendingKept ==
    ASSUME SendInv, UNCHANGED <<ready, sending>>,
           reqs' \in Seq(Requests), qmsg' \in Seq(Events),
           Keeps(qmsg, qmsg', Confs), Keeps(qmsg, qmsg', Readies),
           Keeps(reqs, reqs', Sends), Block(reqs', Sends, Waiting)
    PROVE  SendInv'
<1>1. /\ ready' = ready /\ tsmsnd' = tsmsnd /\ tsend' = tsend
      /\ timer' = timer /\ log' = log
  BY DEF sending
<1>2. /\ Busy' <=> Busy
      /\ Has(qmsg', Confs) <=> Has(qmsg, Confs)
      /\ Has(qmsg', Readies) <=> Has(qmsg, Readies)
  BY <1>1 DEF Busy, Keeps
<1>3. SendTypes'
  BY <1>1 DEF SendInv, SendTypes
<1>4. BufferFits'
  BY <1>1, <1>2 DEF SendInv, BufferFits
<1>5. SendingFits'
  <2>1. FirstId' = FirstId
    BY <1>1 DEF FirstId
  <2>2. /\ Single(qmsg', Confs)
        /\ Each(qmsg', Confs,
                [kind : {"SMS_SEND_CNF"}, result : {log[FirstId].ok}])
    BY DEF SendInv, SendingFits, Keeps
  <2> QED
    BY <1>1, <1>2, <2>1, <2>2 DEF SendInv, SendingFits
<1>6. CommandsFit'
  <2>1. FirstId' = FirstId /\ Waiting' = Waiting
    BY <1>1 DEF FirstId, Waiting
  <2>2. Each(reqs', Sends, [op : {"CMGS"}, id : {FirstId}])
    BY DEF SendInv, CommandsFit, Keeps
  <2> QED
    BY <2>1, <2>2 DEF CommandsFit
<1>7. StartFits'
  <2>1. Single(qmsg', Readies)
    BY DEF SendInv, StartFits, Keeps
  <2> QED
    BY <1>1, <1>2, <2>1 DEF SendInv, StartFits
<1> QED
  BY <1>3, <1>4, <1>5, <1>6, <1>7 DEF SendInv

LEMMA ReadingKept ==
    ASSUME ReadInv, UNCHANGED reading,
           reqs' \in Seq(Requests), qmsg' \in Seq(Events),
           Keeps(reqs, reqs', Reads), Keeps(qmsg, qmsg', Shows),
           NewsFit(qmsg', sim, Len(shown) + Len(tnewsms), arrived),
           DeletesFit(reqs', sim, Len(shown))
    PROVE  ReadInv'
<1>1. /\ tnewsms' = tnewsms /\ sim' = sim /\ arrived' = arrived
      /\ shown' = shown
  BY DEF reading
<1>2. ReadTypes'
  BY <1>1 DEF ReadInv, ReadTypes
<1>3. ListFits'
  BY <1>1 DEF ReadInv, ListFits
<1>4. ReadingFits'
  <2>1. /\ Each(reqs', Reads, [op : {"CMGR"}, pos : {tnewsms[1]}])
        /\ Each(qmsg', Shows,
                [kind : {"SMS_READ_CNF"}, data : {Len(shown) + 1}])
        /\ Single(reqs', Reads) /\ Single(qmsg', Shows)
        /\ Has(reqs', Reads) <=> Has(reqs, Reads)
        /\ Has(qmsg', Shows) <=> Has(qmsg, Shows)
    BY DEF ReadInv, ReadingFits, Keeps
  <2> QED
    BY <1>1, <2>1 DEF ReadInv, ReadingFits
<1> QED
  BY <1>2, <1>3, <1>4 DEF ReadInv

(* Only commands that send are added behind q. *)
MoreSends(q, r) ==
    \E p \in Seq(Requests) :
        r = q \o p /\ \A i \in 1..Len(p) : p[i] \in Sends

LEMMA ReadingKeptBySends ==
    ASSUME ReadInv, UNCHANGED reading, MoreSends(reqs, reqs'),
           qmsg' \in Seq(Events), Keeps(qmsg, qmsg', Shows),
           NewsFit(qmsg', sim, Len(shown) + Len(tnewsms), arrived)
    PROVE  ReadInv'
<1>1. reqs \in Seq(Requests)
  BY DEF ReadInv, ReadTypes
<1>2. PICK p \in Seq(Requests) :
        reqs' = reqs \o p /\ \A i \in 1..Len(p) : p[i] \in Sends
  BY DEF MoreSends
<1>3. ~Has(p, Reads) /\ ~Has(p, Deletes)
  BY <1>2 DEF Has, Sends, Reads, Deletes
<1>4. reqs' \in Seq(Requests) /\ Keeps(reqs, reqs', Reads)
  BY <1>1, <1>2, <1>3, ConcatFacts, KeepsConcat
<1>5. DeletesFit(reqs', sim, Len(shown))
  BY <1>1, <1>2, <1>3, DeletesConcat DEF ReadInv, ListFits
<1> QED
  BY <1>4, <1>5, ReadingKept

LEMMA NoMoreSends ==
    ASSUME reqs \in Seq(Requests), reqs' = reqs
    PROVE  MoreSends(reqs, reqs')
<1> DEFINE p == <<>>
<1>1. p \in Seq(Requests) /\ reqs' = reqs \o p /\ Len(p) = 0
  OBVIOUS
<1> HIDE DEF p
<1>2. \A i \in 1..Len(p) : p[i] \in Sends
  BY <1>1
<1> QED
  BY <1>1, <1>2 DEF MoreSends

LEMMA SendRequests ==
    ASSUME SmsAssumption, NEW m \in Messages, NEW lg,
           reqs \in Seq(Requests), _send(m, lg)
    PROVE  MoreSends(reqs, reqs')
<1> DEFINE p == [i \in 1..m.cnt |-> [op |-> "CMGS", id |-> m.id]]
<1>1. CASE ready
  <2>1. reqs' = reqs \o p
    BY <1>1 DEF _send
  <2>2. [op |-> "CMGS", id |-> m.id] \in Sends /\ m.cnt \in Nat
    BY DEF Messages, Sends, SmsAssumption
  <2>3. [op |-> "CMGS", id |-> m.id] \in Requests
    BY <2>2 DEF Requests
  <2>4. p \in Seq(Requests)
    BY <2>2, <2>3, IsASeq
  <2>5. Len(p) = m.cnt
    BY <2>2, <2>4, LenProperties
  <2>6. \A i \in 1..Len(p) : p[i] \in Sends
    BY <2>2, <2>5
  <2> QED
    BY <2>1, <2>4, <2>6 DEF MoreSends
<1>2. CASE ~ready
  BY <1>2, NoMoreSends DEF _send
<1> QED
  BY <1>1, <1>2

Fresh(m) == [sval |-> m.cnt, rval |-> 0, flg |-> TRUE, id |-> m.id]

LEMMA SentOnce ==
    /\ [NewMessage EXCEPT !.sent = 1] \in Records
    /\ [NewMessage EXCEPT !.sent = NewMessage.sent + 1]
         = [NewMessage EXCEPT !.sent = 1]
<1>1. NewMessage.sent + 1 = 1
  BY DEF NewMessage
<1>2. NewMessage \in Records
  BY DEF NewMessage, Records, Outcomes
<1>3. \A x \in Records : [x EXCEPT !.sent = 1] \in Records
  BY DEF Records
<1> QED
  BY <1>1, <1>2, <1>3

(* A message that was not sent is sent and nothing else is under way.      *)
LEMMA SendsOne ==
    ASSUME SmsAssumption, NEW m \in Messages, NEW lg \in Seq(Records),
           m.id \in 1..Len(lg), lg[m.id] = NewMessage,
           tsend = <<>>, reqs \in Seq(Requests), ~Has(reqs, Sends),
           ready, _send(m, lg)
    PROVE  /\ tsend' = <<Fresh(m)>> /\ tsend' \in Seq(Sendings)
           /\ reqs' \in Seq(Requests)
           /\ Block(reqs', Sends, m.cnt)
           /\ Each(reqs', Sends, [op : {"CMGS"}, id : {m.id}])
           /\ log' \in Seq(Records) /\ Len(log') = Len(lg)
           /\ \A i \in 1..Len(lg) : i # m.id => log'[i] = lg[i]
           /\ log'[m.id] = [NewMessage EXCEPT !.sent = 1]
<1> DEFINE p == [i \in 1..m.cnt |-> [op |-> "CMGS", id |-> m.id]]
<1>1. m.id \in 1..MaxSends /\ m.cnt \in 1..MaxParts /\ MaxParts \in Nat
  BY DEF Messages, SmsAssumption
<1>2. /\ tsend' = Append(tsend, Fresh(m)) /\ reqs' = reqs \o p
      /\ log' = [lg EXCEPT ![m.id].sent = @ + 1]
  BY DEF _send, Fresh
<1>3. tsend' = <<Fresh(m)>> /\ tsend' \in Seq(Sendings)
  <2>1. Fresh(m) \in Sendings
    BY <1>1 DEF Fresh, Sendings
  <2> QED
    BY <1>2, <2>1
<1>4. /\ p \in Seq(Requests) /\ Len(p) = m.cnt
      /\ \A i \in 1..Len(p) : p[i] = [op |-> "CMGS", id |-> m.id]
  <2>1. [op |-> "CMGS", id |-> m.id] \in Requests
    BY <1>1 DEF Requests, Sends
  <2>2. m.cnt \in Nat
    BY <1>1
  <2>3. p \in Seq(Requests)
    BY <2>1, <2>2, IsASeq
  <2>4. Len(p) = m.cnt
    BY <2>2, <2>3, LenProperties
  <2> QED
    BY <2>3, <2>4
<1> HIDE DEF p
<1>5. \A i \in 1..Len(p) :
        p[i] \in Sends /\ p[i] \in [op : {"CMGS"}, id : {m.id}]
  BY <1>1, <1>4 DEF Sends
<1>6. reqs' \in Seq(Requests) /\ Block(reqs', Sends, m.cnt)
  <2>1. reqs \o p \in Seq(Requests)
    BY <1>4
  <2>2. \A i \in 1..Len(p) : p[i] \in Sends
    BY <1>5
  <2>3. p \in Seq(Requests) /\ reqs \in Seq(Requests) /\ ~Has(reqs, Sends)
    BY <1>4
  <2>4. Block(reqs \o p, Sends, Len(p))
    BY ONLY <2>2, <2>3, BlockStarts
  <2> QED
    BY <2>1, <2>4, <1>2, <1>4
<1>7. Each(reqs', Sends, [op : {"CMGS"}, id : {m.id}])
  <2> DEFINE r == reqs \o p
  <2>0. /\ Len(reqs) \in Nat /\ Len(p) \in Nat
        /\ Len(r) = Len(reqs) + Len(p)
        /\ \A i \in 1..Len(reqs) : r[i] = reqs[i]
        /\ \A i \in Len(reqs) + 1..Len(reqs) + Len(p) :
             r[i] = p[i - Len(reqs)]
    <3>1. reqs \in Seq(Requests) /\ p \in Seq(Requests)
      BY <1>4
    <3> HIDE DEF p
    <3> QED
      BY ONLY <3>1, ConcatFacts
  <2> HIDE DEF r
  <2>1. /\ Len(reqs) \in Nat /\ Len(p) \in Nat
        /\ Len(reqs') = Len(reqs) + Len(p)
        /\ \A i \in 1..Len(reqs) : reqs'[i] = reqs[i]
        /\ \A i \in Len(reqs) + 1..Len(reqs) + Len(p) :
             reqs'[i] = p[i - Len(reqs)]
    BY <1>2, <2>0 DEF r
  <2>2. \A i \in 1..Len(reqs) : reqs'[i] \notin Sends
    BY <2>1 DEF Has
  <2>3. ASSUME NEW i \in Len(reqs) + 1..Len(reqs) + Len(p)
        PROVE  reqs'[i] \in [op : {"CMGS"}, id : {m.id}]
    <3>1. i - Len(reqs) \in 1..Len(p)
      BY <2>1
    <3> QED
      BY <3>1, <2>1, <1>5
  <2> QED
    BY <2>1, <2>2, <2>3 DEF Each
<1>8. /\ log' \in Seq(Records) /\ Len(log') = Len(lg)
      /\ \A i \in 1..Len(lg) : i # m.id => log'[i] = lg[i]
      /\ log'[m.id] = [NewMessage EXCEPT !.sent = 1]
  <2>1. log' = [lg EXCEPT ![m.id] = [lg[m.id] EXCEPT !.sent = lg[m.id].sent + 1]]
    BY <1>2
  <2>2. /\ [NewMessage EXCEPT !.sent = 1] \in Records
        /\ [lg[m.id] EXCEPT !.sent = lg[m.id].sent + 1]
             = [NewMessage EXCEPT !.sent = 1]
    BY <1>1, SentOnce
  <2>3. log' = [lg EXCEPT ![m.id] = [NewMessage EXCEPT !.sent = 1]]
    BY <2>1, <2>2
  <2> DEFINE n == [NewMessage EXCEPT !.sent = 1]
  <2> HIDE DEF n
  <2> QED
    BY <2>2, <2>3, ExceptSeq DEF n
<1> QED
  BY <1>2, <1>3, <1>4, <1>5, <1>6, <1>7, <1>8
----------------------------------------------------------------------------
(* Sending *)

LEMMA NoneIsOf ==
    ASSUME NEW q, NEW K, ~Has(q, K)
    PROVE  Single(q, K) /\ \A L : Each(q, K, L)
BY DEF Has, Single, Each

LEMMA IdleHasNoSends ==
    ASSUME SendInv, tsend = <<>>
    PROVE  ~Has(reqs, Sends)
<1>1. Block(reqs, Sends, 0) /\ reqs \in Seq(Requests)
  BY DEF SendInv, SendTypes, CommandsFit, Waiting
<1> QED
  BY <1>1, BlockIsEmpty

(* The messages of the buffer t are in the log lg, none of them was sent.  *)
Unsent(t, lg) ==
    /\ \A a \in 1..Len(t) : t[a].id \in 1..Len(lg) /\ lg[t[a].id] = NewMessage
    /\ \A a, b \in 1..Len(t) : a # b => t[a].id # t[b].id

(* The first message of the new buffer is sent. *)
LEMMA FirstIsSent ==
    ASSUME SmsAssumption, ready, ready' = ready, ~timer', timer' \in BOOLEAN,
           tsend = <<>>, reqs \in Seq(Requests), ~Has(reqs, Sends),
           qmsg' \in Seq(Events), ~Has(qmsg', Readies), ~Has(qmsg', Confs),
           tsmsnd' \in Seq(Messages), Len(tsmsnd') <= Full, tsmsnd' # <<>>,
           NEW lg \in Seq(Records), Len(lg) <= MaxSends,
           Unsent(tsmsnd', lg), _send(tsmsnd'[1], lg)
    PROVE  SendInv'
<1> DEFINE m == tsmsnd'[1]
<1>1. Len(tsmsnd') \in Nat \ {0} /\ 1 \in 1..Len(tsmsnd')
  OBVIOUS
<1>2. m \in Messages /\ m.id \in 1..Len(lg) /\ lg[m.id] = NewMessage
  BY <1>1 DEF Unsent
<1>3. /\ tsend' = <<Fresh(m)>> /\ tsend' \in Seq(Sendings)
      /\ reqs' \in Seq(Requests)
      /\ Block(reqs', Sends, m.cnt)
      /\ Each(reqs', Sends, [op : {"CMGS"}, id : {m.id}])
      /\ log' \in Seq(Records) /\ Len(log') = Len(lg)
      /\ \A i \in 1..Len(lg) : i # m.id => log'[i] = lg[i]
      /\ log'[m.id] = [NewMessage EXCEPT !.sent = 1]
  <2>1. _send(m, lg)
    OBVIOUS
  <2> HIDE DEF m
  <2> QED
    BY <1>2, <2>1, SendsOne
<1>4. /\ Len(tsend') = 1 /\ tsend' # <<>>
      /\ tsend'[1].sval = m.cnt /\ tsend'[1].rval = 0
      /\ tsend'[1].flg = TRUE /\ tsend'[1].id = m.id
  BY <1>3 DEF Fresh
<1>5. /\ log'[m.id].sent = 1 /\ log'[m.id].answers = 0
      /\ log'[m.id].ok = TRUE /\ log'[m.id].told = "no"
  BY <1>3 DEF NewMessage
<1>6. Busy' /\ FirstId' = m.id
  BY <1>4 DEF Busy, FirstId
<1>7. m.cnt \in Nat \ {0}
  BY <1>2 DEF Messages
<1>8. SendTypes'
  BY <1>3 DEF SendTypes
<1>9. BufferFits'
  <2>1. ASSUME NEW a \in 1..Len(tsmsnd')
        PROVE  /\ tsmsnd'[a].id \in 1..Len(log')
               /\ a > 1 => log'[tsmsnd'[a].id] = NewMessage
    <3>1. tsmsnd'[a].id \in 1..Len(lg) /\ lg[tsmsnd'[a].id] = NewMessage
      BY DEF Unsent
    <3>2. a > 1 => tsmsnd'[a].id # m.id
      BY <1>1 DEF Unsent
    <3> QED
      BY <3>1, <3>2, <1>3
  <2>2. \A a, b \in 1..Len(tsmsnd') : a # b => tsmsnd'[a].id # tsmsnd'[b].id
    BY DEF Unsent
  <2> QED
    BY <2>1, <2>2, <1>6 DEF BufferFits
<1>10. SendingFits'
  <2>1. /\ Single(qmsg', Confs)
        /\ Each(qmsg', Confs,
                [kind : {"SMS_SEND_CNF"}, result : {log'[FirstId'].ok}])
    BY NoneIsOf
  <2> HIDE DEF m
  <2>2. m = tsmsnd'[1]
    BY DEF m
  <2>3. /\ ready' /\ ~timer' /\ ~Has(qmsg', Readies) /\ tsmsnd' # <<>>
        /\ log'[FirstId'].sent = 1 /\ log'[FirstId'].told = "no"
    BY <1>5, <1>6
  <2>4. /\ Len(tsend') = 1 /\ ~Has(qmsg', Confs)
        /\ tsend'[1].id = FirstId'
        /\ tsend'[1].sval = tsmsnd'[1].cnt
        /\ tsend'[1].rval = log'[FirstId'].answers
        /\ tsend'[1].flg = log'[FirstId'].ok
        /\ tsend'[1].rval < tsend'[1].sval
    <3>1. tsend'[1].flg = log'[FirstId'].ok
      BY <1>4, <1>5, <1>6, Zenon
    <3>2. 0 < m.cnt
      BY <1>7
    <3> QED
      BY <3>1, <3>2, <2>2, <1>4, <1>5, <1>6
  <2> QED
    BY <2>1, <2>3, <2>4 DEF SendingFits
<1>11. CommandsFit'
  <2>1. Waiting' = m.cnt
    BY <1>4, <1>7 DEF Waiting
  <2> QED
    BY <2>1, <1>3, <1>6 DEF CommandsFit
<1>12. StartFits'
  BY NoneIsOf DEF StartFits
<1> QED
  BY <1>8, <1>9, <1>10, <1>11, <1>12 DEF SendInv

NewMsg(cnt) == [id |-> Len(log) + 1, cnt |-> cnt]

LEMMA NewMsgFacts ==
    ASSUME SmsAssumption, SendInv, Len(log) < MaxSends,
           NEW cnt \in 1..MaxParts
    PROVE  /\ NewMsg(cnt) \in Messages /\ NewMsg(cnt).id = Len(log) + 1
           /\ Append(log, NewMessage) \in Seq(Records)
           /\ Len(log) \in Nat
           /\ Len(Append(log, NewMessage)) = Len(log) + 1
           /\ Len(log) + 1 <= MaxSends
           /\ \A i \in 1..Len(log) : Append(log, NewMessage)[i] = log[i]
           /\ Append(log, NewMessage)[Len(log) + 1] = NewMessage
<1>1. log \in Seq(Records) /\ Len(log) \in Nat /\ NewMessage \in Records
  BY DEF SendInv, SendTypes, NewMessage, Records, Outcomes
<1>2. NewMsg(cnt) \in Messages /\ NewMsg(cnt).id = Len(log) + 1
  BY <1>1 DEF NewMsg, Messages, SmsAssumption
<1>3. Len(log) + 1 <= MaxSends
  BY <1>1 DEF SmsAssumption
<1> QED
  BY <1>1, <1>2, <1>3, AppendFacts

NoHabit == Habits \subseteq {"noread"}

LEMMA SendKeepsSending ==
    ASSUME SmsAssumption, NoHabit, SendInv,
           NEW cnt \in 1..MaxParts, NEW idx \in 1..Full, Send(cnt, idx)
    PROVE  SendInv'
<1> DEFINE m == NewMsg(cnt)
           lg == Append(log, NewMessage)
           n == Len(tsmsnd)
<1>1. /\ Len(log) < MaxSends /\ HasRoom /\ idx \in 1..n + 1 /\ MayInsert(idx)
      /\ tsmsnd' = InsertAt(tsmsnd, idx, m)
      /\ IF tsmsnd = <<>> THEN _send(m, lg)
                          ELSE log' = lg /\ UNCHANGED <<tsend, reqs>>
      /\ ready' = ready /\ timer' = timer /\ qmsg' = qmsg
  BY DEF Send, IsSentAtOnce, NewMsg
<1>2. /\ m \in Messages /\ m.id = Len(log) + 1
      /\ lg \in Seq(Records) /\ Len(log) \in Nat
      /\ Len(lg) = Len(log) + 1 /\ Len(lg) <= MaxSends
      /\ \A i \in 1..Len(log) : lg[i] = log[i]
      /\ lg[Len(log) + 1] = NewMessage
  BY <1>1, NewMsgFacts
<1>3. /\ tsmsnd \in Seq(Messages) /\ n \in Nat /\ qmsg \in Seq(Events)
      /\ reqs \in Seq(Requests) /\ Full \in Nat
  BY DEF SendInv, SendTypes, SmsAssumption
<1> HIDE DEF m, lg
<1>4. /\ tsmsnd' \in Seq(Messages) /\ Len(tsmsnd') = n + 1
      /\ \A i \in 1..idx - 1 : tsmsnd'[i] = tsmsnd[i]
      /\ tsmsnd'[idx] = m
      /\ \A i \in idx + 1..n + 1 : tsmsnd'[i] = tsmsnd[i - 1]
  <2> DEFINE r == InsertAt(tsmsnd, idx, m)
  <2>1. idx \in 1..Len(tsmsnd) + 1 /\ m \in Messages
    BY <1>1, <1>2
  <2>2. /\ r \in Seq(Messages) /\ Len(r) = Len(tsmsnd) + 1
        /\ \A i \in 1..idx - 1 : r[i] = tsmsnd[i]
        /\ r[idx] = m
        /\ \A i \in idx + 1..Len(tsmsnd) + 1 : r[i] = tsmsnd[i - 1]
    BY ONLY <2>1, <1>3, InsertFacts
  <2> HIDE DEF r
  <2>3. tsmsnd' = r
    BY <1>1 DEF r
  <2> QED
    BY <2>2, <2>3
<1>5. Len(tsmsnd') <= Full /\ tsmsnd' # <<>>
  BY <1>1, <1>3, <1>4 DEF HasRoom
<1>6. idx = 1 => ~Busy
  BY <1>1, <1>3, BusyIsInFlight DEF MayInsert, NoHabit
<1>7. ready /\ tsmsnd = <<>> => ~Has(qmsg, Readies)
  BY <1>1, <1>3, ReadyIsQueued DEF MayInsert, NoHabit
<1>8. \A a \in 1..n : tsmsnd[a].id \in 1..Len(log)
  BY DEF SendInv, BufferFits
<1>9. ASSUME NEW a \in 1..n + 1
      PROVE  /\ a = idx => tsmsnd'[a] = m
             /\ a # idx => \E c \in 1..n : /\ tsmsnd'[a] = tsmsnd[c]
                                           /\ c = IF a < idx THEN a ELSE a - 1
  <2>1. CASE a = idx
    BY <2>1, <1>4
  <2>2. CASE a < idx
    <3>1. a \in 1..n /\ a \in 1..idx - 1
      BY <2>2, <1>1, <1>3
    <3> QED
      BY <3>1, <2>2, <1>4
  <2>3. CASE a > idx
    <3>1. a - 1 \in 1..n /\ a \in idx + 1..n + 1
      BY <2>3, <1>1, <1>3
    <3> QED
      BY <3>1, <2>3, <1>4
  <2> QED
    BY <2>1, <2>2, <2>3, <1>1, <1>3
<1>10. ASSUME NEW a \in 1..n + 1, NEW b \in 1..n + 1, a # b
       PROVE  tsmsnd'[a].id # tsmsnd'[b].id
  <2>1. CASE a = idx \/ b = idx
    <3>1. \A c \in 1..n : tsmsnd[c].id \in 1..Len(log) /\ tsmsnd[c].id # m.id
      BY <1>2, <1>8
    <3>2. CASE a = idx
      BY <3>1, <3>2, <1>9, <1>10
    <3>3. CASE b = idx
      BY <3>1, <3>3, <1>9, <1>10
    <3> QED
      BY <2>1, <3>2, <3>3
  <2>2. CASE a # idx /\ b # idx
    <3>1. PICK c \in 1..n : /\ tsmsnd'[a] = tsmsnd[c]
                            /\ c = IF a < idx THEN a ELSE a - 1
      BY <2>2, <1>9
    <3>2. PICK d \in 1..n : /\ tsmsnd'[b] = tsmsnd[d]
                            /\ d = IF b < idx THEN b ELSE b - 1
      BY <2>2, <1>9
    <3>3. c # d
      BY <3>1, <3>2, <2>2, <1>10, <1>3
    <3> QED
      BY <3>1, <3>2, <3>3 DEF SendInv, BufferFits
  <2> QED
    BY <2>1, <2>2
<1>11. ASSUME NEW a \in 1..n + 1
       PROVE  /\ tsmsnd'[a].id \in 1..Len(lg)
              /\ a > 1 \/ ~Busy => lg[tsmsnd'[a].id] = NewMessage
  <2>1. CASE a = idx
    BY <2>1, <1>2, <1>9
  <2>2. CASE a # idx
    <3>1. PICK c \in 1..n : /\ tsmsnd'[a] = tsmsnd[c]
                            /\ c = IF a < idx THEN a ELSE a - 1
      BY <2>2, <1>9
    <3>2. tsmsnd[c].id \in 1..Len(log) /\ lg[tsmsnd[c].id] = log[tsmsnd[c].id]
      BY <1>2, <1>8
    <3>3. tsmsnd'[a].id \in 1..Len(lg)
      BY <3>1, <3>2, <1>2
    <3>4. a > 1 \/ ~Busy => c > 1 \/ ~Busy
      BY <3>1, <2>2, <1>6, <1>3, <1>1
    <3>5. c > 1 \/ ~Busy => log[tsmsnd[c].id] = NewMessage
      BY DEF SendInv, BufferFits
    <3> QED
      BY <3>1, <3>2, <3>3, <3>4, <3>5
  <2> QED
    BY <2>1, <2>2
<1>12. CASE tsmsnd = <<>> /\ ready
  <2>1. ~Busy /\ ~timer /\ ~Has(qmsg, Readies)
    BY <1>12, <1>7 DEF SendInv, SendingFits, StartFits
  <2>2. tsend = <<>> /\ ~Has(qmsg, Confs) /\ ~Has(reqs, Sends)
    BY <2>1, IdleHasNoSends DEF Busy
  <2>3. Unsent(tsmsnd', lg)
    BY <2>1, <1>4, <1>10, <1>11 DEF Unsent
  <2>4. n = 0 /\ idx = 1 /\ tsmsnd'[1] = m
    BY <1>12, <1>1, <1>3, <1>4
  <2>5. _send(tsmsnd'[1], lg)
    BY <2>4, <1>12, <1>1
  <2>6. /\ ready' = ready /\ ~timer' /\ timer' \in BOOLEAN
        /\ qmsg' \in Seq(Events) /\ ~Has(qmsg', Readies) /\ ~Has(qmsg', Confs)
    <3>1. timer \in BOOLEAN /\ timer' = timer
      BY <1>1 DEF SendInv, SendTypes
    <3>2. timer' \in BOOLEAN /\ ~timer'
      BY <3>1, <2>1
    <3> QED
      BY <3>2, <2>1, <2>2, <1>1, <1>3
  <2> QED
    BY <2>2, <2>3, <2>5, <2>6, <1>2, <1>3, <1>4, <1>5, <1>12, FirstIsSent
<1>13. CASE ~(tsmsnd = <<>> /\ ready)
  <2>1. log' = lg /\ tsend' = tsend /\ reqs' = reqs
    BY <1>13, <1>1 DEF _send
  <2>2. Busy' <=> Busy
    BY <2>1, <1>1 DEF Busy
  <2>3. SendTypes'
    BY <2>1, <1>1, <1>2, <1>4, <1>5 DEF SendInv, SendTypes
  <2>4. BufferFits'
    BY <2>1, <2>2, <1>4, <1>10, <1>11 DEF BufferFits
  <2>5. Busy => /\ FirstId' = FirstId /\ tsmsnd'[1] = tsmsnd[1]
                /\ log'[FirstId] = log[FirstId]
    <3> SUFFICES ASSUME Busy PROVE /\ FirstId' = FirstId
                                   /\ tsmsnd'[1] = tsmsnd[1]
                                   /\ log'[FirstId] = log[FirstId]
      OBVIOUS
    <3>1. tsmsnd # <<>>
      BY DEF SendInv, SendingFits
    <3>2. 1 \in 1..n
      BY <3>1, <1>3
    <3>3. tsmsnd'[1] = tsmsnd[1]
      BY <1>6, <1>4, <1>1
    <3>4. log'[FirstId] = log[FirstId]
      BY <3>2, <2>1, <1>2, <1>8 DEF FirstId
    <3> QED
      BY <3>3, <3>4 DEF FirstId
  <2>6. SendingFits'
    <3>1. CASE Busy
      BY <3>1, <2>1, <2>2, <2>5, <1>1, <1>5 DEF SendInv, SendingFits
    <3>2. CASE ~Busy
      <4>1. tsend' = <<>> /\ ~Has(qmsg', Confs) /\ ~Busy'
        BY <3>2, <2>1, <2>2, <1>1 DEF Busy
      <4> QED
        BY <4>1, NoneIsOf DEF SendingFits
    <3> QED
      BY <3>1, <3>2
  <2>7. CommandsFit'
    <3>1. Waiting' = Waiting
      BY <2>1 DEF Waiting
    <3>2. CASE Busy
      BY <3>1, <3>2, <2>1, <2>5 DEF SendInv, CommandsFit
    <3>3. CASE ~Busy
      <4>1. ~Has(reqs', Sends)
        BY <3>3, <2>1, IdleHasNoSends DEF Busy
      <4> QED
        BY <4>1, <3>1, <2>1, NoneIsOf DEF SendInv, CommandsFit
    <3> QED
      BY <3>2, <3>3
  <2>8. StartFits'
    BY <1>1, <1>5 DEF SendInv, StartFits
  <2> QED
    BY <2>3, <2>4, <2>6, <2>7, <2>8 DEF SendInv
<1> QED
  BY <1>12, <1>13

LEMMA TimerKeepsSending ==
    ASSUME SmsAssumption, SendInv, Timer
    PROVE  SendInv'
<1>1. /\ timer /\ ~timer' /\ timer' \in BOOLEAN /\ ready' = ready
      /\ tsmsnd' = tsmsnd /\ qmsg' = qmsg /\ SndNxt
  BY DEF Timer
<1>2. /\ ready /\ tsmsnd # <<>> /\ ~Busy /\ ~Has(qmsg, Readies)
  BY <1>1 DEF SendInv, StartFits, SendingFits
<1>3. /\ tsmsnd \in Seq(Messages) /\ qmsg \in Seq(Events) /\ Len(tsmsnd) <= Full
      /\ reqs \in Seq(Requests) /\ log \in Seq(Records) /\ Len(log) <= MaxSends
  BY DEF SendInv, SendTypes
<1>4. tsend = <<>> /\ ~Has(qmsg, Confs) /\ ~Has(reqs, Sends)
  BY <1>2, IdleHasNoSends DEF Busy
<1>5. Unsent(tsmsnd', log)
  BY <1>1, <1>2 DEF SendInv, BufferFits, Unsent
<1>6. _send(tsmsnd'[1], log)
  <2>1. Head(tsmsnd) = tsmsnd'[1]
    BY <1>1, <1>2, <1>3
  <2> QED
    BY <2>1, <1>1, <1>2 DEF SndNxt
<1>7. qmsg' \in Seq(Events) /\ ~Has(qmsg', Readies) /\ ~Has(qmsg', Confs)
  BY <1>1, <1>2, <1>3, <1>4
<1>8. tsmsnd' \in Seq(Messages) /\ Len(tsmsnd') <= Full /\ tsmsnd' # <<>>
  BY <1>1, <1>2, <1>3
<1> QED
  BY <1>1, <1>2, <1>3, <1>4, <1>5, <1>6, <1>7, <1>8, FirstIsSent

LEMMA ReadyStartsSending ==
    ASSUME SmsAssumption, SendInv, qmsg # <<>>, qmsg' = Tail(qmsg),
           Head(qmsg) \in Readies, SndNxt, UNCHANGED <<ready, tsmsnd, timer>>
    PROVE  SendInv'
<1>1. /\ tsmsnd \in Seq(Messages) /\ qmsg \in Seq(Events) /\ Len(tsmsnd) <= Full
      /\ reqs \in Seq(Requests) /\ log \in Seq(Records) /\ Len(log) <= MaxSends
      /\ Single(qmsg, Readies)
  BY DEF SendInv, SendTypes, StartFits
<1>2. Has(qmsg, Readies) /\ ~Has(qmsg', Readies)
  BY <1>1, QueueTail
<1>3. ready /\ ~timer /\ ~Busy
  BY <1>2 DEF SendInv, StartFits, SendingFits
<1>4. tsend = <<>> /\ ~Has(qmsg, Confs) /\ ~Has(reqs, Sends)
  BY <1>3, IdleHasNoSends DEF Busy
<1>5. qmsg' \in Seq(Events) /\ ~Has(qmsg', Confs)
  BY <1>1, <1>4, TailFacts, QueueTail
<1>6. Unsent(tsmsnd', log)
  BY <1>3 DEF SendInv, BufferFits, Unsent
<1>7. ready' = ready /\ ~timer' /\ timer' \in BOOLEAN /\ tsmsnd' = tsmsnd
  <2>1. timer' = timer /\ timer \in BOOLEAN
    BY DEF SendInv, SendTypes
  <2> QED
    BY <2>1, <1>3
<1>8. CASE tsmsnd # <<>>
  <2>1. _send(tsmsnd'[1], log)
    <3>1. Head(tsmsnd) = tsmsnd'[1]
      BY <1>1, <1>7, <1>8
    <3> QED
      BY <3>1, <1>8 DEF SndNxt
  <2>2. tsmsnd' \in Seq(Messages) /\ Len(tsmsnd') <= Full /\ tsmsnd' # <<>>
    BY <1>1, <1>7, <1>8
  <2> QED
    BY <2>1, <2>2, <1>1, <1>2, <1>3, <1>4, <1>5, <1>6, <1>7, FirstIsSent
<1>9. CASE tsmsnd = <<>>
  <2>1. tsend' = <<>> /\ reqs' = reqs /\ log' = log
    BY <1>4, <1>9 DEF SndNxt
  <2>2. ~Busy'
    BY <2>1, <1>5 DEF Busy
  <2>3. SendTypes'
    BY <2>1, <1>1, <1>5, <1>7 DEF SendInv, SendTypes
  <2>4. BufferFits'
    BY <2>1, <2>2, <1>6 DEF BufferFits, Unsent
  <2>5. SendingFits'
    BY <2>1, <2>2, <1>5, NoneIsOf DEF SendingFits
  <2>6. CommandsFit'
    <3>1. Waiting' = 0 /\ Waiting = 0
      BY <2>1, <1>4 DEF Waiting
    <3>2. Block(reqs', Sends, 0)
      BY <3>1, <2>1 DEF SendInv, CommandsFit
    <3>3. ~Has(reqs', Sends)
      BY <2>1, <1>4
    <3> QED
      BY <3>1, <3>2, <3>3, NoneIsOf DEF CommandsFit
  <2>7. StartFits'
    BY <1>2, <1>7, NoneIsOf DEF StartFits
  <2> QED
    BY <2>3, <2>4, <2>5, <2>6, <2>7 DEF SendInv
<1> QED
  BY <1>8, <1>9

LEMMA SmsReadyKeepsSending ==
    ASSUME SmsAssumption, NoHabit, SendInv, SmsReady
    PROVE  SendInv'
<1>1. /\ ~ready /\ ready' = TRUE /\ qmsg' = Append(qmsg, SmsReadyMsg)
      /\ tsmsnd' = tsmsnd /\ tsend' = tsend /\ timer' = timer /\ log' = log
      /\ reqs' = reqs
  BY DEF SmsReady, NoHabit, Dispatch, sending
<1>2. /\ SmsReadyMsg \in Events /\ SmsReadyMsg \notin Confs
      /\ SmsReadyMsg \in Readies
  BY DEF SmsReadyMsg, Events, Readies, Confs
<1>3. qmsg \in Seq(Events)
  BY DEF SendInv, SendTypes
<1>4. /\ ~Busy /\ ~timer /\ ~Has(qmsg, Readies)
      /\ tsend = <<>> /\ ~Has(qmsg, Confs)
  BY <1>1 DEF SendInv, SendingFits, StartFits, Busy
<1>5. /\ qmsg' \in Seq(Events) /\ Single(qmsg', Readies) /\ ~Has(qmsg', Confs)
  BY <1>1, <1>2, <1>3, <1>4, AppendFacts, QueueAppend, NoneIsOf
<1>6. ~Busy' /\ tsend' = <<>>
  BY <1>1, <1>4, <1>5 DEF Busy
<1>7. ~timer' /\ timer' \in BOOLEAN
  <2>1. timer \in BOOLEAN
    BY DEF SendInv, SendTypes
  <2> QED
    BY <2>1, <1>1, <1>4
<1>8. SendTypes'
  BY <1>1, <1>5, <1>7 DEF SendInv, SendTypes
<1>9. BufferFits'
  BY <1>1, <1>4, <1>6 DEF SendInv, BufferFits
<1>10. SendingFits'
  BY <1>5, <1>6, NoneIsOf DEF SendingFits
<1>11. CommandsFit'
  <2>1. Waiting' = Waiting /\ FirstId' = FirstId
    BY <1>1 DEF Waiting, FirstId
  <2> QED
    BY <2>1, <1>1 DEF SendInv, CommandsFit
<1>12. StartFits'
  BY <1>1, <1>5, <1>7 DEF StartFits
<1> QED
  BY <1>8, <1>9, <1>10, <1>11, <1>12 DEF SendInv

(* An AT+CMGS is answered, which is the head of the commands.              *)
LEMMA AnswerKeepsSending ==
    ASSUME SmsAssumption, SendInv, reqs # <<>>, reqs' = Tail(reqs),
           NEW ok \in BOOLEAN, Head(reqs) \in Sends, ready' = ready,
           RspCmgs(Head(reqs).id, ok)
    PROVE  SendInv'
<1> DEFINE h == Head(tsend)
           t == Answered(h, ok)
           e == [kind |-> "SMS_SEND_CNF", result |-> t.flg]
           id == FirstId
           old == log[id]
           all == old.ok /\ ok
           new == [old EXCEPT !.answers = old.answers + 1, !.ok = all]
           is == h.flg /\ ok
<1>1. /\ tsmsnd \in Seq(Messages) /\ qmsg \in Seq(Events)
      /\ reqs \in Seq(Requests) /\ log \in Seq(Records)
      /\ tsend \in Seq(Sendings)
  BY DEF SendInv, SendTypes
<1>2. tsend # <<>>
  <2>1. Has(reqs, Sends)
    BY <1>1, QueueTail
  <2> QED
    BY <2>1, IdleHasNoSends
<1>3. /\ Busy /\ ready /\ ~timer /\ ~Has(qmsg, Readies) /\ tsmsnd # <<>>
      /\ old.sent = 1 /\ old.told = "no"
      /\ Len(tsend) = 1 /\ ~Has(qmsg, Confs)
      /\ tsend[1].id = id /\ tsend[1].sval = tsmsnd[1].cnt
      /\ tsend[1].rval = old.answers /\ tsend[1].flg = old.ok
      /\ tsend[1].rval < tsend[1].sval
  BY <1>2 DEF SendInv, SendingFits, Busy
<1>4. /\ id \in 1..Len(log) /\ old \in Records
      /\ h = tsend[1] /\ h \in Sendings
      /\ tsmsnd[1] \in Messages
  <2>1. 1 \in 1..Len(tsmsnd)
    BY <1>1, <1>3
  <2>2. id \in 1..Len(log)
    BY <2>1 DEF SendInv, BufferFits, FirstId
  <2> QED
    BY <2>1, <2>2, <1>1, <1>2
<1>5. Head(reqs).id = id
  <2>1. Each(reqs, Sends, [op : {"CMGS"}, id : {id}])
    BY DEF SendInv, CommandsFit
  <2>2. Head(reqs) \in [op : {"CMGS"}, id : {id}]
    BY <2>1, <1>1, QueueTail
  <2> HIDE DEF id
  <2> QED
    BY <2>2
<1>6. /\ new \in Records /\ new.sent = 1 /\ new.told = "no"
      /\ new.answers = old.answers + 1 /\ new.ok = all
  <2>1. old.sent = 1 /\ old.told = "no" /\ old \in Records
    BY <1>3, <1>4
  <2>2. all \in BOOLEAN
    OBVIOUS
  <2> HIDE DEF old, all
  <2> DEFINE n == old.answers + 1
  <2>3. n \in Nat
    BY <2>1 DEF Records
  <2>4. new = [old EXCEPT !.answers = n, !.ok = all]
    OBVIOUS
  <2> HIDE DEF new, n
  <2>5. /\ new \in Records /\ new.answers = n /\ new.ok = all
        /\ new.sent = old.sent /\ new.told = old.told
    BY ONLY <2>1, <2>2, <2>3, <2>4 DEF Records
  <2> QED
    BY <2>1, <2>5 DEF n
<1>7. log' = [log EXCEPT ![id] = new]
  BY <1>5 DEF RspCmgs
<1>8. /\ t \in Sendings /\ t.sval = h.sval /\ t.rval = h.rval + 1
      /\ t.flg = is /\ t.id = h.id
  <2>1. h \in Sendings /\ is \in BOOLEAN
    BY <1>4
  <2>2. t = [h EXCEPT !.rval = h.rval + 1, !.flg = is]
    BY DEF Answered
  <2> HIDE DEF h, is, t
  <2> DEFINE n == h.rval + 1
  <2>3. n \in Nat
    BY <2>1 DEF Sendings
  <2>4. t = [h EXCEPT !.rval = n, !.flg = is]
    BY <2>2
  <2> HIDE DEF n
  <2>5. /\ t \in Sendings /\ t.rval = n /\ t.flg = is
        /\ t.sval = h.sval /\ t.id = h.id
    BY ONLY <2>1, <2>3, <2>4 DEF Sendings
  <2> QED
    BY <2>5 DEF n
<1>9. /\ tsmsnd' = tsmsnd /\ timer' = timer
      /\ t.rval = t.sval => tsend' = Tail(tsend) /\ qmsg' = Append(qmsg, e)
      /\ t.rval # t.sval => tsend' = [tsend EXCEPT ![1] = t] /\ qmsg' = qmsg
  BY DEF RspCmgs, Dispatch
<1>0. all = is
  <2>1. h.flg = old.ok
    BY <1>3, <1>4
  <2> HIDE DEF h, old
  <2> QED
    BY <2>1
<1> HIDE DEF t, h, e, new, old, all, is
<1>10. /\ log' \in Seq(Records) /\ Len(log') = Len(log) /\ log'[id] = new
       /\ \A i \in 1..Len(log) : i # id => log'[i] = log[i]
  BY <1>1, <1>4, <1>6, <1>7, ExceptSeq
<1>11. FirstId' = id
  BY <1>9 DEF FirstId
<1>12. /\ reqs' \in Seq(Requests)
       /\ Block(reqs', Sends, h.sval - h.rval - 1)
       /\ Each(reqs', Sends, [op : {"CMGS"}, id : {id}])
  <2>1. Waiting = h.sval - h.rval /\ h.sval - h.rval \in Nat
    BY <1>2, <1>3, <1>4 DEF Waiting, Sendings
  <2>2. Block(reqs, Sends, h.sval - h.rval)
    BY <2>1 DEF SendInv, CommandsFit
  <2>3. Each(reqs, Sends, [op : {"CMGS"}, id : {id}])
    BY DEF SendInv, CommandsFit
  <2> QED
    BY <2>1, <2>2, <2>3, <1>1, TailFacts, BlockTail, QueueTail
<1>13. e \in Events /\ e \in Confs /\ e \notin Readies /\ e.result = t.flg
  BY <1>8 DEF e, Events, Confs, Readies, Sendings
<1>14. /\ BufferFits'
       /\ Len(tsmsnd') <= Full /\ tsmsnd' \in Seq(Messages)
  <2>1. Busy' => BufferFits'
    <3>1. ASSUME NEW a \in 1..Len(tsmsnd)
          PROVE  /\ tsmsnd[a].id \in 1..Len(log')
                 /\ a > 1 => log'[tsmsnd[a].id] = NewMessage
      <4>1. tsmsnd[a].id \in 1..Len(log)
        BY DEF SendInv, BufferFits
      <4>2. a > 1 => tsmsnd[a].id # id /\ log[tsmsnd[a].id] = NewMessage
        BY <1>1 DEF SendInv, BufferFits, FirstId
      <4> QED
        BY <4>1, <4>2, <1>10
    <3> QED
      BY <3>1, <1>9 DEF SendInv, BufferFits
  <2>2. Busy'
    <3>1. CASE t.rval = t.sval
      <4>1. qmsg' = Append(qmsg, e) /\ Has(Append(qmsg, e), Confs)
        BY <3>1, <1>1, <1>9, <1>13, QueueAppend
      <4> QED
        BY <4>1 DEF Busy
    <3>2. CASE t.rval # t.sval
      <4>1. tsend' # <<>>
        BY <3>2, <1>1, <1>2, <1>9
      <4> QED
        BY <4>1 DEF Busy
    <3> QED
      BY <3>1, <3>2
  <2> QED
    BY <2>1, <2>2, <1>9 DEF SendInv, SendTypes
<1>15. CASE t.rval = t.sval
  <2>1. tsend' = <<>> /\ qmsg' = Append(qmsg, e)
    BY <1>15, <1>1, <1>2, <1>3, <1>9, LastIsTaken
  <2>2. /\ qmsg' \in Seq(Events) /\ Has(qmsg', Confs) /\ ~Has(qmsg', Readies)
        /\ Single(qmsg', Confs)
        /\ Each(qmsg', Confs, [kind : {"SMS_SEND_CNF"}, result : {new.ok}])
    <3>1. e \in [kind : {"SMS_SEND_CNF"}, result : {new.ok}]
      <4>1. t.flg = new.ok
        BY <1>0, <1>6, <1>8
      <4> QED
        BY <4>1 DEF e
    <3>2. Single(qmsg, Confs) /\ Each(qmsg, Confs,
                 [kind : {"SMS_SEND_CNF"}, result : {new.ok}])
      BY <1>3, NoneIsOf
    <3> DEFINE L == [kind : {"SMS_SEND_CNF"}, result : {new.ok}]
    <3> HIDE DEF L
    <3>3. /\ Has(qmsg', Confs) /\ Single(qmsg', Confs)
          /\ Each(qmsg', Confs, L)
      BY <3>1, <3>2, <2>1, <1>1, <1>3, <1>13, QueueAppend DEF L
    <3>4. qmsg' \in Seq(Events) /\ ~Has(qmsg', Readies)
      BY <2>1, <1>1, <1>3, <1>13, AppendFacts, QueueAppend
    <3> QED
      BY <3>3, <3>4 DEF L
  <2>3. SendTypes'
    BY <2>1, <2>2, <1>9, <1>10, <1>12, <1>14 DEF SendInv, SendTypes
  <2>4. SendingFits'
    <3>1. new.answers = tsmsnd[1].cnt
      BY <1>15, <1>3, <1>4, <1>6, <1>8
    <3> QED
      BY <3>1, <2>1, <2>2, <1>3, <1>6, <1>9, <1>10, <1>11
         DEF SendingFits
  <2>5. CommandsFit'
    <3>1. Waiting' = 0 /\ h.sval - h.rval - 1 = 0
      BY <2>1, <1>15, <1>4, <1>8 DEF Waiting, Sendings
    <3> QED
      BY <3>1, <1>11, <1>12 DEF CommandsFit
  <2>6. StartFits'
    BY <2>2, <1>3, <1>9, NoneIsOf DEF StartFits
  <2> QED
    BY <2>3, <2>4, <2>5, <2>6, <1>14 DEF SendInv
<1>16. CASE t.rval # t.sval
  <2>1. /\ tsend' \in Seq(Sendings) /\ Len(tsend') = 1 /\ tsend'[1] = t
        /\ tsend' # <<>> /\ qmsg' = qmsg
    <3>1. tsend' = [tsend EXCEPT ![1] = t] /\ qmsg' = qmsg
      BY <1>16, <1>9
    <3>2. 1 \in 1..Len(tsend) /\ Len(tsend) = 1
      BY <1>3
    <3>3. tsend \in Seq(Sendings) /\ t \in Sendings
      BY <1>1, <1>8
    <3>4. tsend' \in Seq(Sendings) /\ Len(tsend') = 1 /\ tsend'[1] = t
      BY ONLY <3>1, <3>2, <3>3, ExceptSeq
    <3> QED
      BY <3>1, <3>4
  <2>2. SendTypes'
    BY <2>1, <1>9, <1>10, <1>12, <1>14 DEF SendInv, SendTypes
  <2>3. SendingFits'
    <3>1. Single(qmsg', Confs)
          /\ Each(qmsg', Confs,
                  [kind : {"SMS_SEND_CNF"}, result : {log'[FirstId'].ok}])
      BY <2>1, <1>3, NoneIsOf
    <3>2. t.flg = new.ok
      BY <1>0, <1>6, <1>8
    <3>3. t.rval < t.sval /\ t.rval = new.answers /\ t.sval = tsmsnd[1].cnt
      BY <1>16, <1>3, <1>4, <1>6, <1>8 DEF Sendings
    <3> QED
      BY <3>1, <3>2, <3>3, <2>1, <1>3, <1>4, <1>6, <1>8, <1>9, <1>10, <1>11
         DEF SendingFits
  <2>4. CommandsFit'
    <3>1. Waiting' = h.sval - h.rval - 1
      BY <2>1, <1>4, <1>8 DEF Waiting, Sendings
    <3> QED
      BY <3>1, <1>11, <1>12 DEF CommandsFit
  <2>5. StartFits'
    BY <2>1, <1>3, <1>9 DEF SendInv, StartFits
  <2> QED
    BY <2>2, <2>3, <2>4, <2>5, <1>14 DEF SendInv
<1> QED
  BY <1>15, <1>16

LEMMA ResultKeepsSending ==
    ASSUME SmsAssumption, NoHabit, SendInv, qmsg # <<>>, qmsg' = Tail(qmsg),
           ready' = ready, NEW chained \in BOOLEAN, NEW cnt \in 1..MaxParts,
           SendCnf(Head(qmsg), chained, cnt)
    PROVE  SendInv'
<1> DEFINE next == NewMsg(cnt)
           id == FirstId
           result == IF Head(qmsg).result THEN "ok" ELSE "error"
           told == [log EXCEPT ![id].told = result]
           lg == IF chained THEN Append(told, NewMessage) ELSE told
           rest == Tail(tsmsnd)
           n == Len(tsmsnd)
<1>1. /\ tsmsnd \in Seq(Messages) /\ qmsg \in Seq(Events) /\ n \in Nat
      /\ reqs \in Seq(Requests) /\ log \in Seq(Records)
      /\ tsend \in Seq(Sendings) /\ Len(log) \in Nat /\ Len(log) <= MaxSends
      /\ n <= Full /\ timer \in BOOLEAN
  BY DEF SendInv, SendTypes
<1>2. Head(qmsg) \in Confs
  <2>1. Head(qmsg) \in Events /\ Head(qmsg).kind = "SMS_SEND_CNF"
    BY <1>1, TailFacts DEF SendCnf
  <2> QED
    BY <2>1, EventKinds
<1>3. Has(qmsg, Confs) /\ ~Has(qmsg', Confs) /\ qmsg' \in Seq(Events)
  BY <1>1, <1>2, QueueTail, TailFacts DEF SendInv, SendingFits
<1>4. /\ tsend = <<>> /\ ready /\ ~timer /\ ~Has(qmsg, Readies)
      /\ tsmsnd # <<>>
  BY <1>3 DEF SendInv, SendingFits, Busy
<1>5. ~Has(qmsg', Readies) /\ ~Has(reqs, Sends)
  BY <1>1, <1>4, QueueTail, IdleHasNoSends
<1>6. n >= 1 /\ Head(tsmsnd) = tsmsnd[1] /\ id \in 1..Len(log)
  <2>1. n >= 1 /\ Head(tsmsnd) = tsmsnd[1] /\ 1 \in 1..n
    BY <1>1, <1>4
  <2> QED
    BY <2>1 DEF SendInv, BufferFits, FirstId
<1>7. /\ chained => Len(log) < MaxSends /\ n # 1
      /\ tsmsnd' = rest \o (IF chained THEN <<next>> ELSE <<>>)
      /\ log' = lg /\ tsend' = tsend /\ reqs' = reqs
      /\ timer' = (timer \/ tsmsnd' # <<>>)
  BY <1>6 DEF SendCnf, NoHabit, NextIsDue, NewMsg, FirstId
<1>8. /\ told \in Seq(Records) /\ Len(told) = Len(log)
      /\ \A i \in 1..Len(log) : i # id => told[i] = log[i]
  <2> DEFINE x == [log[id] EXCEPT !.told = result]
  <2>1. log[id] \in Records /\ result \in Outcomes
    BY <1>1, <1>6 DEF Outcomes
  <2> HIDE DEF result
  <2>2. x \in Records
    BY <2>1 DEF Records
  <2>3. told = [log EXCEPT ![id] = x]
    OBVIOUS
  <2> HIDE DEF x, told
  <2> QED
    BY <2>2, <2>3, <1>1, <1>6, ExceptSeq
<1> HIDE DEF told, next, id
<1>9. /\ lg \in Seq(Records) /\ Len(lg) <= MaxSends
      /\ Len(lg) = Len(log) + (IF chained THEN 1 ELSE 0)
      /\ \A i \in 1..Len(log) : i # id => lg[i] = log[i]
      /\ chained => lg[Len(log) + 1] = NewMessage
  <2>1. NewMessage \in Records
    BY DEF NewMessage, Records, Outcomes
  <2>2. CASE chained
    <3>1. lg = Append(told, NewMessage)
      BY <2>2
    <3>2. /\ lg \in Seq(Records) /\ Len(lg) = Len(told) + 1
          /\ \A i \in 1..Len(told) : lg[i] = told[i]
          /\ lg[Len(told) + 1] = NewMessage
      BY <3>1, <2>1, <1>8, AppendFacts
    <3>3. Len(log) + 1 <= MaxSends
      BY <2>2, <1>1, <1>7 DEF SmsAssumption
    <3> HIDE DEF lg
    <3> QED
      BY <3>2, <3>3, <2>2, <1>1, <1>8
  <2>3. CASE ~chained
    BY <2>3, <1>1, <1>8
  <2> QED
    BY <2>2, <2>3
<1>10. /\ rest \in Seq(Messages) /\ Len(rest) = n - 1
       /\ \A i \in 1..n - 1 : rest[i] = tsmsnd[i + 1]
  BY <1>1, <1>4, TailFacts
<1> HIDE DEF rest, lg
<1>11. /\ tsmsnd' \in Seq(Messages)
       /\ Len(tsmsnd') = n - 1 + (IF chained THEN 1 ELSE 0)
       /\ \A i \in 1..n - 1 : tsmsnd'[i] = tsmsnd[i + 1]
       /\ chained => tsmsnd'[n] = next
  <2>1. CASE chained
    <3>1. next \in Messages
      BY <2>1, <1>7, NewMsgFacts DEF next
    <3>2. tsmsnd' = Append(rest, next)
      BY <2>1, <3>1, <1>7, <1>10, OneMore
    <3>3. /\ tsmsnd' \in Seq(Messages) /\ Len(tsmsnd') = Len(rest) + 1
          /\ \A i \in 1..Len(rest) : tsmsnd'[i] = rest[i]
          /\ tsmsnd'[Len(rest) + 1] = next
      BY <3>1, <3>2, <1>10, AppendFacts
    <3> QED
      BY <3>3, <2>1, <1>1, <1>10
  <2>2. CASE ~chained
    <3>1. tsmsnd' = rest
      BY <2>2, <1>7, <1>10
    <3> QED
      BY <3>1, <2>2, <1>1, <1>10
  <2> QED
    BY <2>1, <2>2
<1>12. next.id = Len(log) + 1
  BY DEF next, NewMsg
<1>13. ASSUME NEW a \in 1..n - 1
       PROVE  /\ tsmsnd[a + 1].id \in 1..Len(log) /\ tsmsnd[a + 1].id # id
              /\ log[tsmsnd[a + 1].id] = NewMessage
              /\ \A b \in 1..n - 1 : a # b => tsmsnd[a + 1].id # tsmsnd[b + 1].id
  <2>1. a + 1 \in 1..n /\ a + 1 > 1 /\ 1 \in 1..n
    BY <1>1
  <2>2. /\ tsmsnd[a + 1].id \in 1..Len(log)
        /\ log[tsmsnd[a + 1].id] = NewMessage
        /\ tsmsnd[a + 1].id # tsmsnd[1].id
    BY <2>1 DEF SendInv, BufferFits
  <2>3. ASSUME NEW b \in 1..n - 1, a # b
        PROVE  tsmsnd[a + 1].id # tsmsnd[b + 1].id
    <3>1. b + 1 \in 1..n /\ a + 1 # b + 1
      BY <2>3, <1>1
    <3> QED
      BY <3>1, <2>1 DEF SendInv, BufferFits
  <2> QED
    BY <2>2, <2>3 DEF id, FirstId
<1>14. ASSUME NEW a \in 1..Len(tsmsnd')
       PROVE  /\ tsmsnd'[a].id \in 1..Len(log')
              /\ log'[tsmsnd'[a].id] = NewMessage
              /\ \A b \in 1..Len(tsmsnd') : a # b => tsmsnd'[a].id # tsmsnd'[b].id
  <2>1. CASE a \in 1..n - 1
    <3>1. /\ tsmsnd'[a].id = tsmsnd[a + 1].id
          /\ tsmsnd'[a].id \in 1..Len(log) /\ tsmsnd'[a].id # id
          /\ log[tsmsnd'[a].id] = NewMessage
      BY <2>1, <1>11, <1>13
    <3>2. /\ tsmsnd'[a].id \in 1..Len(log')
          /\ log'[tsmsnd'[a].id] = NewMessage
      <4>1. Len(log') = Len(log) \/ Len(log') = Len(log) + 1
        BY <1>7, <1>9, <1>1
      <4>2. log'[tsmsnd'[a].id] = log[tsmsnd'[a].id]
        BY <3>1, <1>7, <1>9
      <4> DEFINE j == tsmsnd'[a].id
      <4>3. j \in 1..Len(log) /\ Len(log) \in Nat
        BY <3>1, <1>1
      <4> HIDE DEF j
      <4>4. j \in 1..Len(log')
        BY <4>1, <4>3
      <4> QED
        BY <4>2, <4>4, <3>1 DEF j
    <3>3. ASSUME NEW b \in 1..Len(tsmsnd'), a # b
          PROVE  tsmsnd'[a].id # tsmsnd'[b].id
      <4>1. CASE b \in 1..n - 1
        <5>1. tsmsnd'[a] = tsmsnd[a + 1] /\ tsmsnd'[b] = tsmsnd[b + 1]
          BY <4>1, <2>1, <1>11
        <5>2. tsmsnd[a + 1].id # tsmsnd[b + 1].id
          BY ONLY <4>1, <3>3, <2>1, <1>13
        <5> QED
          BY ONLY <5>1, <5>2
      <4>2. CASE b \notin 1..n - 1
        <5>1. tsmsnd'[b].id = Len(log) + 1
          BY <4>2, <1>1, <1>6, <1>11, <1>12
        <5> QED
          BY <5>1, <3>1, <1>1
      <4> QED
        BY <4>1, <4>2
    <3> QED
      BY <3>2, <3>3
  <2>2. CASE a \notin 1..n - 1
    <3>1. chained /\ a = n /\ tsmsnd'[a] = next
      BY <2>2, <1>1, <1>6, <1>11
    <3>2. /\ tsmsnd'[a].id \in 1..Len(log')
          /\ log'[tsmsnd'[a].id] = NewMessage
      BY <3>1, <1>1, <1>7, <1>9, <1>12
    <3>3. ASSUME NEW b \in 1..Len(tsmsnd'), a # b
          PROVE  tsmsnd'[a].id # tsmsnd'[b].id
      <4>1. b \in 1..n - 1
        BY <3>1, <3>3, <1>1, <1>6, <1>11
      <4>2. tsmsnd'[b].id \in 1..Len(log)
        BY <4>1, <1>11, <1>13
      <4> QED
        BY <4>2, <3>1, <1>1, <1>12
    <3> QED
      BY <3>2, <3>3
  <2> QED
    BY <2>1, <2>2
<1>15. ~Busy' /\ tsend' = <<>>
  BY <1>3, <1>4, <1>7 DEF Busy
<1>16. SendTypes'
  <2>1. Len(tsmsnd') <= Full /\ timer' \in BOOLEAN
    BY <1>1, <1>7, <1>11, SmsAssumption
  <2> QED
    BY <2>1, <1>1, <1>3, <1>7, <1>9, <1>11 DEF SendInv, SendTypes
<1>17. BufferFits'
  BY <1>14 DEF BufferFits
<1>18. SendingFits'
  BY <1>3, <1>15, NoneIsOf DEF SendingFits
<1>19. CommandsFit'
  <2>1. Waiting = 0 /\ Waiting' = 0
    BY <1>4, <1>7 DEF Waiting
  <2>2. Block(reqs', Sends, 0) /\ ~Has(reqs', Sends)
    BY <2>1, <1>5, <1>7 DEF SendInv, CommandsFit
  <2> QED
    BY <2>1, <2>2, NoneIsOf DEF CommandsFit
<1>20. StartFits'
  BY <1>4, <1>5, <1>7, NoneIsOf DEF StartFits
<1> QED
  BY <1>16, <1>17, <1>18, <1>19, <1>20 DEF SendInv
----------------------------------------------------------------------------
(* Reading *)

(* A report is taken: its position goes to the end of the list, and is     *)
(* read at once when it is the only one.                                   *)
LEMMA NewsKeepsReading ==
    ASSUME SmsAssumption, ReadInv, qmsg # <<>>, qmsg' = Tail(qmsg),
           NewSms(Head(qmsg))
    PROVE  ReadInv'
<1> DEFINE p == Head(qmsg).pos
           k == Len(shown)
           n == Len(tnewsms)
           r == Request("CMGR", tnewsms'[1])
<1>1. /\ tnewsms \in Seq(Positions) /\ arrived \in 0..MaxNews
      /\ sim \in [Positions -> 0..MaxNews] /\ shown \in Seq(0..MaxNews)
      /\ reqs \in Seq(Requests) /\ qmsg \in Seq(Events)
      /\ k \in Nat /\ n \in Nat /\ MaxNews \in Nat /\ arrived \in Nat
  BY DEF ReadInv, ReadTypes, SmsAssumption
<1>2. Head(qmsg) \in Events /\ Head(qmsg) \in Inds /\ p \in Positions
  BY <1>1, TailFacts, EventKinds DEF NewSms
<1>3. Head(qmsg) \notin Shows
  BY <1>2, EventKinds
<1>4. /\ tnewsms' = Append(tnewsms, p)
      /\ sim' = sim /\ arrived' = arrived /\ shown' = shown
  BY DEF NewSms
<1>5. /\ tnewsms' \in Seq(Positions) /\ Len(tnewsms') = n + 1
      /\ \A a \in 1..n : tnewsms'[a] = tnewsms[a]
      /\ tnewsms'[n + 1] = p
  BY <1>1, <1>2, <1>4, AppendFacts
<1>6. /\ sim[p] = k + n + 1 /\ k + n + 1 <= arrived
      /\ NewsFit(qmsg', sim, k + n + 1, arrived)
  <2>1. NewsFit(qmsg, sim, k + n, arrived) /\ k + n \in Nat
    BY <1>1 DEF ReadInv, ListFits
  <2> QED
    BY <2>1, <1>1, <1>2, NewsTail
<1>7. qmsg' \in Seq(Events) /\ Keeps(qmsg, qmsg', Shows)
  BY <1>1, <1>3, TailFacts, KeepsTail
<1>8. /\ r \in Requests /\ r \in Reads /\ r \notin Deletes
      /\ r \in [op : {"CMGR"}, pos : {tnewsms'[1]}]
  <2>1. tnewsms'[1] \in Positions
    BY <1>1, <1>5
  <2> QED
    BY <2>1 DEF Request, Requests, Reads, Deletes
<1>9. reqs' = reqs \/ (n = 0 /\ reqs' = Append(reqs, r))
  <2>1. CASE tnewsms = <<>> /\ ready
    <3>1. Head(tnewsms') = tnewsms'[1] /\ tnewsms' # <<>>
      BY <1>1, <1>5
    <3>2. reqs' = reqs \o <<r>>
      BY <2>1, <3>1 DEF NewSms, ReadFirst
    <3> HIDE DEF r
    <3> QED
      BY <2>1, <3>2, <1>1, <1>8, OneMore
  <2>2. CASE ~(tnewsms = <<>> /\ ready)
    <3>1. reqs' = reqs \o <<>>
      BY <2>2 DEF NewSms, ReadFirst
    <3> QED
      BY <3>1, <1>1
  <2> QED
    BY <2>1, <2>2
<1> HIDE DEF r
<1>10. /\ reqs' \in Seq(Requests) /\ DeletesFit(reqs', sim, k)
       /\ Single(reqs', Reads)
       /\ Each(reqs', Reads, [op : {"CMGR"}, pos : {tnewsms'[1]}])
       /\ Has(reqs', Reads) => ~Has(qmsg', Shows)
  <2>1. DeletesFit(reqs, sim, k)
    BY DEF ReadInv, ListFits
  <2>2. CASE reqs' = reqs
    <3>1. Each(reqs', Reads, [op : {"CMGR"}, pos : {tnewsms'[1]}])
      <4>1. CASE n = 0
        <5>1. ~Has(reqs, Reads)
          BY <4>1, <1>1 DEF ReadInv, ReadingFits
        <5> QED
          BY <5>1, <2>2, NoneIsOf
      <4>2. CASE n # 0
        <5>1. tnewsms'[1] = tnewsms[1]
          BY <4>2, <1>1, <1>5
        <5> QED
          BY <5>1, <2>2 DEF ReadInv, ReadingFits
      <4> QED
        BY <4>1, <4>2
    <3> QED
      BY <2>1, <2>2, <3>1, <1>1, <1>7 DEF ReadInv, ReadingFits, Keeps
  <2>3. CASE n = 0 /\ reqs' = Append(reqs, r)
    <3>1. ~Has(reqs, Reads) /\ ~Has(qmsg, Shows)
      BY <2>3, <1>1 DEF ReadInv, ReadingFits
    <3>2. ~Has(qmsg', Shows)
      BY <3>1, <1>7 DEF Keeps
    <3>3. Single(reqs, Reads)
          /\ Each(reqs, Reads, [op : {"CMGR"}, pos : {tnewsms'[1]}])
      BY <3>1, NoneIsOf
    <3>4. Single(reqs', Reads)
          /\ Each(reqs', Reads, [op : {"CMGR"}, pos : {tnewsms'[1]}])
      <4> DEFINE L == [op : {"CMGR"}, pos : {tnewsms'[1]}]
      <4>1. /\ r \in L /\ r \in Requests /\ reqs \in Seq(Requests)
            /\ Each(reqs, Reads, L)
        BY <1>1, <1>8, <3>3
      <4> HIDE DEF L
      <4>2. Single(Append(reqs, r), Reads)
        BY <4>1, <3>1, <3>3, QueueAppend
      <4>3. Each(Append(reqs, r), Reads, L)
        BY <4>1, QueueAppend
      <4> QED
        BY <4>2, <4>3, <2>3 DEF L
    <3>5. reqs' \in Seq(Requests) /\ DeletesFit(reqs', sim, k)
      BY <2>1, <2>3, <1>1, <1>8, AppendFacts, DeletesAppend
    <3> QED
      BY <3>2, <3>4, <3>5
  <2> QED
    BY <2>2, <2>3, <1>9
<1>11. ReadTypes'
  BY <1>1, <1>4, <1>5, <1>7, <1>10 DEF ReadTypes
<1>12. ListFits'
  <2>1. ASSUME NEW a \in 1..n + 1 PROVE sim[tnewsms'[a]] = k + a
    <3>1. CASE a = n + 1
      BY <3>1, <1>1, <1>5, <1>6
    <3>2. CASE a \in 1..n
      BY <3>2, <1>5 DEF ReadInv, ListFits
    <3> QED
      BY <3>1, <3>2, <1>1
  <2>2. k + (n + 1) = k + n + 1
    BY <1>1
  <2> QED
    BY <2>1, <2>2, <1>4, <1>5, <1>6, <1>10 DEF ReadInv, ListFits
<1>13. ReadingFits'
  <2>1. /\ Single(qmsg', Shows)
        /\ Each(qmsg', Shows, [kind : {"SMS_READ_CNF"}, data : {k + 1}])
    BY <1>7 DEF ReadInv, ReadingFits, Keeps
  <2>2. tnewsms' # <<>>
    BY <1>1, <1>5
  <2> QED
    BY <2>1, <2>2, <1>4, <1>10 DEF ReadingFits
<1> QED
  BY <1>11, <1>12, <1>13 DEF ReadInv

(* A message is shown: its deletion and the next reading are asked for.    *)
LEMMA ShowKeepsReading ==
    ASSUME SmsAssumption, ReadInv, qmsg # <<>>, qmsg' = Tail(qmsg),
           ReadCnf(Head(qmsg))
    PROVE  ReadInv'
<1> DEFINE e == Head(qmsg)
           k == Len(shown)
           n == Len(tnewsms)
           d == Request("CMGD", tnewsms[1])
           r == Request("CMGR", tnewsms'[1])
           mid == Append(reqs, d)
<1>1. /\ tnewsms \in Seq(Positions) /\ arrived \in 0..MaxNews
      /\ sim \in [Positions -> 0..MaxNews] /\ shown \in Seq(0..MaxNews)
      /\ reqs \in Seq(Requests) /\ qmsg \in Seq(Events)
      /\ k \in Nat /\ n \in Nat /\ MaxNews \in Nat /\ arrived \in Nat
  BY DEF ReadInv, ReadTypes, SmsAssumption
<1>2. e \in Events /\ e \in Shows /\ e \notin Inds
  BY <1>1, TailFacts, EventKinds DEF ReadCnf
<1>3. /\ Has(qmsg, Shows) /\ ~Has(qmsg', Shows) /\ tnewsms # <<>>
      /\ ~Has(reqs, Reads) /\ e.data = k + 1
  <2> DEFINE L == [kind : {"SMS_READ_CNF"}, data : {k + 1}]
  <2>1. Single(qmsg, Shows) /\ Each(qmsg, Shows, L)
    BY DEF ReadInv, ReadingFits
  <2> HIDE DEF L
  <2>2. Has(qmsg, Shows) /\ ~Has(qmsg', Shows) /\ e \in L
    BY <2>1, <1>1, <1>2, QueueTail
  <2>3. e.data = k + 1
    BY <2>2 DEF L
  <2> QED
    BY <2>2, <2>3 DEF ReadInv, ReadingFits
<1>4. /\ sim' = sim /\ arrived' = arrived /\ shown' = Append(shown, e.data)
      /\ tnewsms' = Tail(tnewsms)
      /\ reqs' = reqs \o <<d>> \o ReadFirst(tnewsms')
  <2>1. Head(tnewsms) = tnewsms[1]
    BY <1>1, <1>3
  <2> QED
    BY <2>1 DEF ReadCnf
<1>5. /\ n >= 1 /\ tnewsms' \in Seq(Positions) /\ Len(tnewsms') = n - 1
      /\ \A a \in 1..n - 1 : tnewsms'[a] = tnewsms[a + 1]
      /\ tnewsms[1] \in Positions
  BY <1>1, <1>3, <1>4, TailFacts
<1>6. k + n <= arrived /\ sim[tnewsms[1]] = k + 1
  BY <1>1, <1>5 DEF ReadInv, ListFits
<1>7. /\ shown' \in Seq(0..MaxNews) /\ Len(shown') = k + 1
      /\ \A i \in 1..k : shown'[i] = shown[i]
      /\ shown'[k + 1] = k + 1
  <2>1. k + 1 \in 0..MaxNews /\ shown' = Append(shown, k + 1)
    BY <1>1, <1>3, <1>4, <1>5, <1>6
  <2> QED
    BY <2>1, <1>1, AppendFacts
<1>8. /\ qmsg' \in Seq(Events)
      /\ NewsFit(qmsg', sim, k + n, arrived)
  <2>1. NewsFit(qmsg, sim, k + n, arrived) /\ k + n \in Nat
    BY <1>1 DEF ReadInv, ListFits
  <2> QED
    BY <2>1, <1>1, <1>2, NewsTail, TailFacts
<1>9. /\ d \in Requests /\ d \in Deletes /\ d \notin Reads
      /\ sim[d.pos] = k + 1
  BY <1>5, <1>6 DEF Request, Requests, Deletes, Reads
<1> HIDE DEF d
<1>10. /\ mid \in Seq(Requests) /\ ~Has(mid, Reads)
       /\ DeletesFit(mid, sim, k + 1) /\ reqs \o <<d>> = mid
  <2>1. DeletesFit(reqs, sim, k)
    BY DEF ReadInv, ListFits
  <2> QED
    BY <2>1, <1>1, <1>3, <1>9, AppendFacts, QueueAppend, DeletesAppend, OneMore
<1> HIDE DEF mid
<1>11. /\ reqs' \in Seq(Requests) /\ DeletesFit(reqs', sim, k + 1)
       /\ Single(reqs', Reads)
       /\ Each(reqs', Reads, [op : {"CMGR"}, pos : {tnewsms'[1]}])
       /\ Has(reqs', Reads) => tnewsms' # <<>>
  <2>1. CASE tnewsms' # <<>> /\ ready
    <3> DEFINE L == [op : {"CMGR"}, pos : {tnewsms'[1]}]
    <3>1. Head(tnewsms') = tnewsms'[1] /\ tnewsms'[1] \in Positions
      BY <2>1, <1>5
    <3>2. r \in Requests /\ r \in Reads /\ r \notin Deletes /\ r \in L
      BY <3>1 DEF Request, Requests, Reads, Deletes
    <3>3. ReadFirst(tnewsms') = <<r>>
      BY <2>1, <3>1 DEF ReadFirst
    <3> HIDE DEF r, L
    <3>4. reqs' = Append(mid, r)
      <4>1. reqs' = mid \o <<r>>
        BY <3>3, <1>4, <1>10
      <4> QED
        BY <4>1, <3>2, <1>10, OneMore
    <3>5. Single(mid, Reads) /\ Each(mid, Reads, L)
      BY <1>10, NoneIsOf
    <3>6. Single(reqs', Reads) /\ Each(reqs', Reads, L)
      BY <3>2, <3>4, <3>5, <1>10, QueueAppend
    <3>7. reqs' \in Seq(Requests) /\ DeletesFit(reqs', sim, k + 1)
      BY <3>2, <3>4, <1>1, <1>10, AppendFacts, DeletesAppend
    <3> QED
      BY <2>1, <3>6, <3>7 DEF L
  <2>2. CASE ~(tnewsms' # <<>> /\ ready)
    <3>1. ReadFirst(tnewsms') = <<>>
      BY <2>2 DEF ReadFirst
    <3>2. reqs' = mid
      BY <3>1, <1>4, <1>10
    <3> QED
      BY <3>2, <1>10, NoneIsOf
  <2> QED
    BY <2>1, <2>2
<1>12. ReadTypes'
  BY <1>1, <1>4, <1>5, <1>7, <1>8, <1>11 DEF ReadTypes
<1>13. ListFits'
  <2>1. \A a \in 1..n - 1 : sim[tnewsms'[a]] = (k + 1) + a
    <3> SUFFICES ASSUME NEW a \in 1..n - 1 PROVE sim[tnewsms'[a]] = (k + 1) + a
      OBVIOUS
    <3>1. a + 1 \in 1..n /\ tnewsms'[a] = tnewsms[a + 1]
      BY <1>1, <1>5
    <3>2. sim[tnewsms[a + 1]] = k + (a + 1)
      BY <3>1 DEF ReadInv, ListFits
    <3> QED
      BY <3>1, <3>2, <1>1
  <2>2. \A i \in 1..k + 1 : shown'[i] = i
    <3>1. \A i \in 1..k : shown'[i] = i
      BY <1>7 DEF ReadInv, ListFits
    <3>2. \A i \in 1..k + 1 : i \in 1..k \/ i = k + 1
      BY <1>1
    <3> QED
      BY <3>1, <3>2, <1>7
  <2>3. Len(shown') + Len(tnewsms') = k + n
    BY <1>1, <1>5, <1>7
  <2> QED
    BY <2>1, <2>2, <2>3, <1>4, <1>5, <1>6, <1>7, <1>8, <1>11 DEF ListFits
<1>14. ReadingFits'
  BY <1>3, <1>11, NoneIsOf DEF ReadingFits
<1> QED
  BY <1>12, <1>13, <1>14 DEF ReadInv

(* A reading is answered with the message, or fails. *)
LEMMA AnswerKeepsReading ==
    ASSUME SmsAssumption, ReadInv, reqs # <<>>, reqs' = Tail(reqs),
           NEW ok \in BOOLEAN, Head(reqs) \in Reads,
           RspCmgr(Head(reqs).pos, ok)
    PROVE  ReadInv'
<1> DEFINE p == Head(reqs).pos
           k == Len(shown)
           n == Len(tnewsms)
           e == [kind |-> "SMS_READ_CNF", data |-> sim[p]]
           L == [kind : {"SMS_READ_CNF"}, data : {k + 1}]
           M == [op : {"CMGR"}, pos : {tnewsms[1]}]
<1>1. /\ tnewsms \in Seq(Positions) /\ arrived \in 0..MaxNews
      /\ sim \in [Positions -> 0..MaxNews] /\ shown \in Seq(0..MaxNews)
      /\ reqs \in Seq(Requests) /\ qmsg \in Seq(Events)
      /\ k \in Nat /\ n \in Nat /\ MaxNews \in Nat /\ arrived \in Nat
  BY DEF ReadInv, ReadTypes, SmsAssumption
<1>2. /\ tnewsms' = tnewsms /\ sim' = sim /\ arrived' = arrived
      /\ shown' = shown
      /\ qmsg' = qmsg \/ qmsg' = Append(qmsg, e)
  BY DEF RspCmgr, Dispatch, reading
<1>3. Single(reqs, Reads) /\ Each(reqs, Reads, M)
  BY DEF ReadInv, ReadingFits
<1> HIDE DEF M
<1>4. /\ Has(reqs, Reads) /\ ~Has(reqs', Reads) /\ Head(reqs) \in M
      /\ reqs' \in Seq(Requests) /\ Head(reqs) \notin Deletes
  <2>1. Head(reqs) \notin Deletes
    BY DEF Reads, Deletes
  <2> QED
    BY <2>1, <1>1, <1>3, QueueTail, TailFacts
<1>5. tnewsms # <<>> /\ ~Has(qmsg, Shows)
  BY <1>4 DEF ReadInv, ReadingFits
<1>6. p = tnewsms[1] /\ 1 \in 1..n
  BY <1>1, <1>4, <1>5 DEF M
<1>7. sim[p] = k + 1 /\ k + n <= arrived
  BY <1>6, <1>1 DEF ReadInv, ListFits
<1>8. e \in Events /\ e \in Shows /\ e \notin Inds /\ e \in L
  <2>1. k + 1 \in 0..MaxNews
    BY <1>1, <1>6, <1>7
  <2> HIDE DEF p
  <2> QED
    BY <2>1, <1>7 DEF Events, Shows, Inds
<1> HIDE DEF e, p, L
<1>9. /\ qmsg' \in Seq(Events) /\ Single(qmsg', Shows) /\ Each(qmsg', Shows, L)
      /\ NewsFit(qmsg', sim, k + n, arrived)
  <2>1. NewsFit(qmsg, sim, k + n, arrived) /\ k + n \in Nat
    BY <1>1 DEF ReadInv, ListFits
  <2>2. Single(qmsg, Shows) /\ Each(qmsg, Shows, L)
    BY <1>5, NoneIsOf
  <2>3. CASE qmsg' = Append(qmsg, e)
    <3>1. Single(qmsg', Shows) /\ Each(qmsg', Shows, L) /\ qmsg' \in Seq(Events)
      BY <2>2, <2>3, <1>1, <1>5, <1>8, QueueAppend, AppendFacts
    <3>2. NewsFit(qmsg', sim, k + n, arrived)
      BY <2>1, <2>3, <1>1, <1>7, <1>8, NewsAppend
    <3> QED
      BY <3>1, <3>2
  <2>4. CASE qmsg' = qmsg
    BY <2>1, <2>2, <2>4, <1>1
  <2> QED
    BY <2>3, <2>4, <1>2
<1>10. DeletesFit(reqs', sim, k)
  BY <1>1, DeletesTail DEF ReadInv, ListFits
<1>11. ReadTypes'
  BY <1>1, <1>2, <1>4, <1>9 DEF ReadTypes
<1>12. ListFits'
  BY <1>2, <1>9, <1>10 DEF ReadInv, ListFits
<1>13. ReadingFits'
  <2>1. Single(reqs', Reads) /\ Each(reqs', Reads, M)
    BY <1>4, NoneIsOf
  <2> QED
    BY <2>1, <1>2, <1>4, <1>5, <1>9 DEF ReadingFits, L, M
<1> QED
  BY <1>11, <1>12, <1>13 DEF ReadInv

(* A deletion is answered: the position is free. *)
LEMMA DeleteKeepsReading ==
    ASSUME SmsAssumption, ReadInv, reqs # <<>>, reqs' = Tail(reqs),
           Head(reqs) \in Deletes, RspCmgd(Head(reqs).pos)
    PROVE  ReadInv'
<1> DEFINE p == Head(reqs).pos
           k == Len(shown)
           n == Len(tnewsms)
<1>1. /\ tnewsms \in Seq(Positions) /\ arrived \in 0..MaxNews
      /\ sim \in [Positions -> 0..MaxNews] /\ shown \in Seq(0..MaxNews)
      /\ reqs \in Seq(Requests) /\ qmsg \in Seq(Events)
      /\ k \in Nat /\ n \in Nat /\ MaxNews \in Nat /\ arrived \in Nat
  BY DEF ReadInv, ReadTypes, SmsAssumption
<1>2. /\ tnewsms' = tnewsms /\ sim' = [sim EXCEPT ![p] = 0]
      /\ arrived' = arrived /\ shown' = shown /\ qmsg' = qmsg
  BY DEF RspCmgd
<1>3. p \in Positions /\ Head(reqs) \notin Reads
  BY DEF Deletes, Reads
<1> HIDE DEF p
<1>4. /\ sim' \in [Positions -> 0..MaxNews] /\ sim'[p] = 0
      /\ \A x \in Positions : x # p => sim'[x] = sim[x]
  BY <1>1, <1>2, <1>3
<1>5. DeletesFit(reqs, sim, k)
  BY DEF ReadInv, ListFits
<1>6. sim[p] \in 1..k /\ DeletesFit(reqs', sim', k)
  BY <1>1, <1>4, <1>5, DeletesTail DEF p
<1>7. reqs' \in Seq(Requests) /\ Keeps(reqs, reqs', Reads)
  BY <1>1, <1>3, TailFacts, KeepsTail
<1>8. ReadTypes'
  BY <1>1, <1>2, <1>4, <1>7 DEF ReadTypes
<1>9. ListFits'
  <2>1. ASSUME NEW a \in 1..n PROVE sim'[tnewsms[a]] = k + a
    <3>1. sim[tnewsms[a]] = k + a /\ tnewsms[a] \in Positions
      BY <1>1 DEF ReadInv, ListFits
    <3>2. tnewsms[a] # p
      BY <3>1, <1>6, <1>1
    <3> QED
      BY <3>1, <3>2, <1>4
  <2>2. NewsFit(qmsg, sim', k + n, arrived)
    <3>1. NewsFit(qmsg, sim, k + n, arrived)
      BY DEF ReadInv, ListFits
    <3>2. ASSUME NEW i \in 1..Len(qmsg), qmsg[i] \in Inds
          PROVE  sim'[qmsg[i].pos] = sim[qmsg[i].pos]
      <4>1. qmsg[i].pos \in Positions
        BY <3>2 DEF Inds
      <4>2. sim[qmsg[i].pos] \in (k + n) + 1..arrived
        BY <3>1, <3>2 DEF NewsFit
      <4>3. qmsg[i].pos # p
        BY <4>2, <1>6, <1>1
      <4> QED
        BY <4>1, <4>3, <1>4
    <3>3. \A i \in 1..Len(qmsg) :
             qmsg[i] \in Inds => sim'[qmsg[i].pos] = sim[qmsg[i].pos]
      BY <3>2
    <3> DEFINE lo == k + n
    <3> HIDE DEF lo
    <3>4. NewsFit(qmsg, sim, lo, arrived)
      BY <3>1 DEF lo
    <3>5. NewsFit(qmsg, sim', lo, arrived)
      BY ONLY <3>3, <3>4, <1>1, NewsOther
    <3> QED
      BY <3>5 DEF lo
  <2> QED
    BY <2>1, <2>2, <1>2, <1>6 DEF ReadInv, ListFits
<1>10. ReadingFits'
  BY <1>2, <1>7 DEF ReadInv, ReadingFits, Keeps
<1> QED
  BY <1>8, <1>9, <1>10 DEF ReadInv

(* A message arrives in a free position. *)
LEMMA ArrivalKeepsReading ==
    ASSUME SmsAssumption, ReadInv, NEW p \in Positions, Cmti(p)
    PROVE  ReadInv'
<1> DEFINE k == Len(shown)
           n == Len(tnewsms)
           e == [kind |-> "SMS_NEW_MSG_IND", pos |-> p]
<1>1. /\ tnewsms \in Seq(Positions) /\ arrived \in 0..MaxNews
      /\ sim \in [Positions -> 0..MaxNews] /\ shown \in Seq(0..MaxNews)
      /\ reqs \in Seq(Requests) /\ qmsg \in Seq(Events)
      /\ k \in Nat /\ n \in Nat /\ MaxNews \in Nat /\ arrived \in Nat
  BY DEF ReadInv, ReadTypes, SmsAssumption
<1>2. /\ arrived < MaxNews /\ sim[p] = 0 /\ arrived' = arrived + 1
      /\ sim' = [sim EXCEPT ![p] = arrived + 1] /\ qmsg' = Append(qmsg, e)
      /\ tnewsms' = tnewsms /\ shown' = shown /\ reqs' = reqs
  BY DEF Cmti, Dispatch
<1>3. /\ sim' \in [Positions -> 0..MaxNews] /\ sim'[p] = arrived + 1
      /\ \A x \in Positions : sim[x] # 0 => sim'[x] = sim[x]
  <2>1. arrived + 1 \in 0..MaxNews
    BY <1>1, <1>2
  <2> QED
    BY <2>1, <1>1, <1>2
<1>4. e \in Events /\ e \in Inds /\ e \notin Shows /\ e.pos = p
  BY DEF Events, Inds, Shows
<1> HIDE DEF e
<1>5. qmsg' \in Seq(Events) /\ Keeps(qmsg, qmsg', Shows)
  BY <1>1, <1>2, <1>4, AppendFacts, KeepsAppend
<1>6. NewsFit(qmsg', sim', k + n, arrived + 1)
  <2>1. NewsFit(qmsg, sim, k + n, arrived) /\ k + n \in Nat /\ k + n <= arrived
    BY <1>1 DEF ReadInv, ListFits
  <2>2. ASSUME NEW i \in 1..Len(qmsg), qmsg[i] \in Inds
        PROVE  sim'[qmsg[i].pos] = sim[qmsg[i].pos]
    <3>1. qmsg[i].pos \in Positions
      BY <2>2 DEF Inds
    <3>2. sim[qmsg[i].pos] \in (k + n) + 1..arrived
      BY <2>1, <2>2 DEF NewsFit
    <3>3. sim[qmsg[i].pos] # 0
      BY <3>2, <2>1
    <3> QED
      BY <3>1, <3>3, <1>3
  <2>3. sim'[e.pos] = arrived + 1
    BY <1>3, <1>4
  <2>4. \A i \in 1..Len(qmsg) :
           qmsg[i] \in Inds => sim'[qmsg[i].pos] = sim[qmsg[i].pos]
    BY <2>2
  <2> DEFINE lo == k + n
  <2>5. lo \in Nat /\ lo <= arrived /\ NewsFit(qmsg, sim, lo, arrived)
    BY <2>1
  <2> HIDE DEF lo
  <2>6. NewsFit(Append(qmsg, e), sim', lo, arrived + 1)
    BY ONLY <2>3, <2>4, <2>5, <1>1, <1>4, NewsAppend
  <2> QED
    BY <2>6, <1>2 DEF lo
<1>7. DeletesFit(reqs, sim', k)
  <2>1. DeletesFit(reqs, sim, k)
    BY DEF ReadInv, ListFits
  <2>2. ASSUME NEW i \in 1..Len(reqs), reqs[i] \in Deletes
        PROVE  sim'[reqs[i].pos] = sim[reqs[i].pos]
    <3>1. reqs[i].pos \in Positions
      BY <2>2 DEF Deletes
    <3>2. sim[reqs[i].pos] \in 1..k
      BY <2>1, <2>2 DEF DeletesFit
    <3> QED
      BY <3>1, <3>2, <1>3, <1>1
  <2> QED
    BY <2>1, <2>2, <1>1, DeletesOther
<1>8. ReadTypes'
  BY <1>1, <1>2, <1>3, <1>5 DEF ReadTypes
<1>9. ListFits'
  <2>1. ASSUME NEW a \in 1..n PROVE sim'[tnewsms[a]] = k + a
    <3>1. sim[tnewsms[a]] = k + a /\ tnewsms[a] \in Positions
      BY <1>1 DEF ReadInv, ListFits
    <3>2. sim[tnewsms[a]] # 0
      BY <3>1, <1>1
    <3> QED
      BY <3>1, <3>2, <1>3
  <2>2. k + n <= arrived'
    BY <1>1, <1>2 DEF ReadInv, ListFits
  <2> QED
    BY <2>1, <2>2, <1>2, <1>6, <1>7 DEF ReadInv, ListFits
<1>10. ReadingFits'
  BY <1>2, <1>5 DEF ReadInv, ReadingFits, Keeps
<1> QED
  BY <1>8, <1>9, <1>10 DEF ReadInv

(* Without a report or a shown message among them, messages may come and   *)
(* go while commands are added that send.                                  *)
LEMMA SendKeepsReading ==
    ASSUME SmsAssumption, SendInv, ReadInv,
           NEW cnt \in 1..MaxParts, NEW idx \in 1..Full, Send(cnt, idx)
    PROVE  ReadInv'
<1>1. /\ UNCHANGED reading /\ qmsg' = qmsg
      /\ reqs' = reqs \/ _send(NewMsg(cnt), Append(log, NewMessage))
      /\ Len(log) < MaxSends
  BY DEF Send, NewMsg
<1>2. /\ reqs \in Seq(Requests) /\ qmsg \in Seq(Events)
      /\ NewsFit(qmsg, sim, Len(shown) + Len(tnewsms), arrived)
  BY DEF ReadInv, ReadTypes, ListFits
<1>3. MoreSends(reqs, reqs')
  BY <1>1, <1>2, NewMsgFacts, SendRequests, NoMoreSends
<1>4. Keeps(qmsg, qmsg', Shows)
  BY <1>1 DEF Keeps
<1> QED
  BY <1>1, <1>2, <1>3, <1>4, ReadingKeptBySends

LEMMA SndNxtSends ==
    ASSUME SmsAssumption, SendInv, SndNxt
    PROVE  MoreSends(reqs, reqs')
<1>1. reqs \in Seq(Requests) /\ tsmsnd \in Seq(Messages)
  BY DEF SendInv, SendTypes
<1>2. CASE tsmsnd # <<>>
  <2>1. Head(tsmsnd) \in Messages /\ _send(Head(tsmsnd), log)
    BY <1>1, <1>2 DEF SndNxt
  <2> QED
    BY <2>1, <1>1, SendRequests
<1>3. CASE tsmsnd = <<>>
  BY <1>1, <1>3, NoMoreSends DEF SndNxt
<1> QED
  BY <1>2, <1>3

LEMMA TimerKeepsReading ==
    ASSUME SmsAssumption, SendInv, ReadInv, Timer
    PROVE  ReadInv'
<1>1. UNCHANGED reading /\ qmsg' = qmsg /\ MoreSends(reqs, reqs')
  BY SndNxtSends DEF Timer
<1>2. /\ qmsg \in Seq(Events)
      /\ NewsFit(qmsg, sim, Len(shown) + Len(tnewsms), arrived)
  BY DEF ReadInv, ReadTypes, ListFits
<1>3. Keeps(qmsg, qmsg', Shows)
  BY <1>1 DEF Keeps
<1> QED
  BY <1>1, <1>2, <1>3, ReadingKeptBySends

(* A message of the other half is handled: SMS_READY or SMS_SEND_CNF.      *)
LEMMA MessageKeepsReading ==
    ASSUME SmsAssumption, ReadInv, UNCHANGED reading, qmsg # <<>>,
           qmsg' = Tail(qmsg), Head(qmsg) \notin Inds, Head(qmsg) \notin Shows,
           MoreSends(reqs, reqs')
    PROVE  ReadInv'
<1> DEFINE lo == Len(shown) + Len(tnewsms)
<1>1. /\ qmsg \in Seq(Events) /\ NewsFit(qmsg, sim, lo, arrived)
      /\ lo \in Nat /\ arrived \in Nat
  BY DEF ReadInv, ReadTypes, ListFits
<1> HIDE DEF lo
<1>2. /\ qmsg' \in Seq(Events) /\ NewsFit(qmsg', sim, lo, arrived)
      /\ Keeps(qmsg, qmsg', Shows)
  BY <1>1, TailFacts, NewsTail, KeepsTail
<1> QED
  BY <1>2, ReadingKeptBySends DEF lo

(* One is put in the queue, or a command that sends is answered. *)
LEMMA DispatchKeepsReading ==
    ASSUME SmsAssumption, ReadInv, UNCHANGED reading, NEW e \in Events,
           qmsg' = qmsg \/ qmsg' = Append(qmsg, e),
           e \notin Inds, e \notin Shows,
           reqs' = reqs \/ (reqs # <<>> /\ reqs' = Tail(reqs)
                            /\ Head(reqs) \in Sends)
    PROVE  ReadInv'
<1> DEFINE lo == Len(shown) + Len(tnewsms)
           k == Len(shown)
<1>1. /\ qmsg \in Seq(Events) /\ NewsFit(qmsg, sim, lo, arrived)
      /\ lo \in Nat /\ arrived \in Nat /\ lo <= arrived
      /\ reqs \in Seq(Requests) /\ DeletesFit(reqs, sim, k)
  BY DEF ReadInv, ReadTypes, ListFits
<1> HIDE DEF lo, k
<1>2. /\ qmsg' \in Seq(Events) /\ NewsFit(qmsg', sim, lo, arrived)
      /\ Keeps(qmsg, qmsg', Shows)
  <2>1. CASE qmsg' = qmsg
    BY <2>1, <1>1 DEF Keeps
  <2>2. CASE qmsg' = Append(qmsg, e)
    BY <2>2, <1>1, AppendFacts, NewsAppend, KeepsAppend
  <2> QED
    BY <2>1, <2>2
<1>3. /\ reqs' \in Seq(Requests) /\ DeletesFit(reqs', sim, k)
      /\ Keeps(reqs, reqs', Reads)
  <2>1. CASE reqs' = reqs
    BY <2>1, <1>1 DEF Keeps
  <2>2. CASE reqs # <<>> /\ reqs' = Tail(reqs) /\ Head(reqs) \in Sends
    <3>1. Head(reqs) \notin Reads
      BY <2>2 DEF Sends, Reads
    <3> QED
      BY <2>2, <3>1, <1>1, TailFacts, DeletesTail, KeepsTail
  <2> QED
    BY <2>1, <2>2
<1> QED
  BY <1>2, <1>3, ReadingKept DEF lo, k

LEMMA WaitingIsNat ==
    ASSUME SendInv
    PROVE  Waiting \in Nat
<1>1. CASE tsend = <<>>
  BY <1>1 DEF Waiting
<1>2. CASE tsend # <<>>
  <2>1. tsend[1] \in Sendings
    BY <1>2 DEF SendInv, SendTypes
  <2> QED
    BY <2>1, <1>2 DEF SendInv, SendingFits, Sendings, Waiting
<1> QED
  BY <1>1, <1>2

(* The other way round: what reading does to the queues leaves sending.    *)
LEMMA RequestsKeepSends ==
    ASSUME SendInv, NEW q \in Seq(Requests), Keeps(reqs, q, Sends),
           Block(q, Sends, Waiting), NEW r \in Requests, r \notin Sends
    PROVE  /\ Append(q, r) \in Seq(Requests)
           /\ Keeps(reqs, Append(q, r), Sends)
           /\ Block(Append(q, r), Sends, Waiting)
<1> DEFINE w == Waiting
           p == Append(q, r)
<1>1. w \in Nat
  BY WaitingIsNat
<1> HIDE DEF w
<1>2. <<r>> \in Seq(Requests) /\ q \o <<r>> = p /\ p \in Seq(Requests)
  BY OneMore, AppendFacts
<1>3. ~Has(<<r>>, Sends)
  BY DEF Has
<1>4. Block(q, Sends, w)
  BY DEF w
<1>5. Block(q \o <<r>>, Sends, w)
  BY <1>1, <1>2, <1>3, <1>4, BlockConcat
<1>6. Keeps(q, p, Sends)
  BY KeepsAppend
<1> QED
  BY <1>2, <1>5, <1>6 DEF w, Keeps

LEMMA ReadFirstKeepsSends ==
    ASSUME SendInv, NEW q \in Seq(Requests), Keeps(reqs, q, Sends),
           Block(q, Sends, Waiting), NEW t \in Seq(Positions)
    PROVE  /\ q \o ReadFirst(t) \in Seq(Requests)
           /\ Keeps(reqs, q \o ReadFirst(t), Sends)
           /\ Block(q \o ReadFirst(t), Sends, Waiting)
<1> DEFINE r == Request("CMGR", Head(t))
<1>1. CASE t # <<>> /\ ready
  <2>1. Head(t) \in Positions
    BY <1>1
  <2>2. r \in Requests /\ r \notin Sends
    BY <2>1 DEF Request, Requests, Reads, Sends
  <2>3. ReadFirst(t) = <<r>>
    BY <1>1 DEF ReadFirst
  <2> HIDE DEF r
  <2>4. q \o ReadFirst(t) = Append(q, r)
    BY <2>2, <2>3, OneMore
  <2> QED
    BY <2>2, <2>4, RequestsKeepSends
<1>2. CASE ~(t # <<>> /\ ready)
  <2>1. ReadFirst(t) = <<>>
    BY <1>2 DEF ReadFirst
  <2>2. q \o ReadFirst(t) = q
    BY <2>1
  <2> QED
    BY <2>2
<1> QED
  BY <1>1, <1>2

LEMMA TailKeepsSends ==
    ASSUME SendInv, reqs # <<>>, Head(reqs) \notin Sends, reqs' = Tail(reqs)
    PROVE  /\ reqs' \in Seq(Requests) /\ Keeps(reqs, reqs', Sends)
           /\ Block(reqs', Sends, Waiting)
<1> DEFINE w == Waiting
<1>1. w \in Nat
  BY WaitingIsNat
<1>2. reqs \in Seq(Requests) /\ Block(reqs, Sends, w)
  BY DEF SendInv, SendTypes, CommandsFit
<1> HIDE DEF w
<1>3. reqs' \in Seq(Requests) /\ Keeps(reqs, reqs', Sends)
  BY <1>2, TailFacts, KeepsTail
<1>4. Block(reqs', Sends, w)
  BY <1>1, <1>2, BlockTail
<1> QED
  BY <1>3, <1>4 DEF w

LEMMA UnchangedRequests ==
    ASSUME SendInv, reqs' = reqs
    PROVE  /\ reqs' \in Seq(Requests) /\ Keeps(reqs, reqs', Sends)
           /\ Block(reqs', Sends, Waiting)
BY DEF SendInv, SendTypes, CommandsFit, Keeps

(* What the halves see of the messages when one is handled or dispatched   *)
LEMMA HandledKeepsSending ==
    ASSUME SendInv, qmsg # <<>>, qmsg' = Tail(qmsg),
           Head(qmsg) \notin Confs, Head(qmsg) \notin Readies,
           UNCHANGED <<ready, sending>>,
           reqs' \in Seq(Requests), Keeps(reqs, reqs', Sends),
           Block(reqs', Sends, Waiting)
    PROVE  SendInv'
<1>1. qmsg \in Seq(Events)
  BY DEF SendInv, SendTypes
<1>2. /\ qmsg' \in Seq(Events) /\ Keeps(qmsg, qmsg', Confs)
      /\ Keeps(qmsg, qmsg', Readies)
  BY <1>1, TailFacts, KeepsTail
<1> QED
  BY <1>2, SendingKept

LEMMA DispatchKeepsSending ==
    ASSUME SendInv, NEW e \in Events, qmsg' = qmsg \/ qmsg' = Append(qmsg, e),
           e \notin Confs, e \notin Readies, UNCHANGED <<ready, sending>>,
           reqs' \in Seq(Requests), Keeps(reqs, reqs', Sends),
           Block(reqs', Sends, Waiting)
    PROVE  SendInv'
<1>1. qmsg \in Seq(Events)
  BY DEF SendInv, SendTypes
<1>2. /\ qmsg' \in Seq(Events) /\ Keeps(qmsg, qmsg', Confs)
      /\ Keeps(qmsg, qmsg', Readies)
  <2>1. CASE qmsg' = qmsg
    BY <2>1, <1>1 DEF Keeps
  <2>2. CASE qmsg' = Append(qmsg, e)
    BY <2>2, <1>1, AppendFacts, KeepsAppend
  <2> QED
    BY <2>1, <2>2
<1> QED
  BY <1>2, SendingKept

----------------------------------------------------------------------------
(* The invariant *)

LEMMA InitInv ==
    ASSUME SmsAssumption, Init
    PROVE  IInv
<1>1. \A K : ~Has(<<>>, K)
  BY DEF Has
<1>2. <<>> \in Seq(Requests) /\ <<>> \in Seq(Events) /\ Len(<<>>) = 0
  OBVIOUS
<1>3. SendInv
  <2>1. SendTypes
    <3>1. /\ <<>> \in Seq(Messages) /\ <<>> \in Seq(Sendings)
          /\ <<>> \in Seq(Records) /\ 0 <= Full /\ 0 <= MaxSends
      BY DEF SmsAssumption
    <3>2. ready \in BOOLEAN /\ timer \in BOOLEAN
      BY DEF Init
    <3> QED
      BY <3>1, <3>2, <1>2 DEF Init, SendTypes
  <2>2. ~Busy /\ Waiting = 0
    BY <1>1 DEF Init, Busy, Waiting
  <2>3. BufferFits
    BY DEF Init, BufferFits
  <2>4. SendingFits
    BY <1>1, <2>2, NoneIsOf DEF Init, SendingFits
  <2>5. CommandsFit
    <3>1. Block(<<>>, Sends, 0)
      BY <1>1, <1>2, BlockIsEmpty
    <3> QED
      BY <3>1, <1>1, <2>2, NoneIsOf DEF Init, CommandsFit
  <2>6. StartFits
    BY <1>1, NoneIsOf DEF Init, StartFits
  <2> QED
    BY <2>1, <2>3, <2>4, <2>5, <2>6 DEF SendInv
<1>4. ReadInv
  <2>1. ReadTypes
    BY DEF Init, ReadTypes, SmsAssumption
  <2>2. ListFits
    <3>1. NewsFit(<<>>, sim, 0, 0) /\ DeletesFit(<<>>, sim, 0)
      BY <1>2 DEF NewsFit, DeletesFit
    <3> QED
      BY <3>1, <1>2 DEF Init, ListFits
  <2>3. ReadingFits
    BY <1>1, NoneIsOf DEF Init, ReadingFits
  <2> QED
    BY <2>1, <2>2, <2>3 DEF ReadInv
<1> QED
  BY <1>3, <1>4 DEF IInv

LEMMA RspKeeps ==
    ASSUME SmsAssumption, IInv, NEW ok \in BOOLEAN, Rsp(ok)
    PROVE  IInv'
<1> DEFINE r == Head(reqs)
<1>1. /\ reqs # <<>> /\ reqs' = Tail(reqs) /\ ready' = ready
      /\ \/ r.op = "CMGS" /\ RspCmgs(r.id, ok)
         \/ r.op = "CMGR" /\ RspCmgr(r.pos, ok)
         \/ r.op = "CMGD" /\ ok /\ RspCmgd(r.pos)
  BY DEF Rsp
<1>2. SendInv /\ ReadInv
  BY DEF IInv
<1>3. r \in Requests
  BY <1>1, <1>2 DEF SendInv, SendTypes
<1>4. CASE r.op = "CMGS" /\ RspCmgs(r.id, ok)
  <2>1. r \in Sends
    BY <1>3, <1>4, RequestKinds
  <2>2. SendInv'
    BY <2>1, <1>1, <1>2, <1>4, AnswerKeepsSending
  <2>3. ReadInv'
    <3> DEFINE e == [kind |-> "SMS_SEND_CNF",
                     result |-> Answered(Head(tsend), ok).flg]
    <3>1. UNCHANGED reading /\ (qmsg' = qmsg \/ qmsg' = Append(qmsg, e))
      BY <1>4 DEF RspCmgs, Dispatch
    <3>2. CASE qmsg' = qmsg
      <4>1. SmsReadyMsg \in Events /\ SmsReadyMsg \notin Inds
            /\ SmsReadyMsg \notin Shows
        BY DEF SmsReadyMsg, Events, Readies, Inds, Shows
      <4> QED
        BY <4>1, <3>1, <3>2, <2>1, <1>1, <1>2, DispatchKeepsReading
    <3>3. CASE qmsg' = Append(qmsg, e)
      <4>1. e.kind = "SMS_SEND_CNF"
        OBVIOUS
      <4> HIDE DEF e
      <4>2. Append(qmsg, e) \in Seq(Events) /\ qmsg \in Seq(Events)
        BY <2>2, <3>3, <1>2 DEF SendInv, SendTypes
      <4>3. e \in Events
        <5>1. Len(qmsg) + 1 \in 1..Len(Append(qmsg, e))
              /\ Append(qmsg, e)[Len(qmsg) + 1] = e
          BY <4>2
        <5> QED
          BY <5>1, <4>2
      <4>4. e \notin Inds /\ e \notin Shows
        BY <4>1, <4>3, EventKinds
      <4> QED
        BY <4>3, <4>4, <3>1, <3>3, <2>1, <1>1, <1>2, DispatchKeepsReading
    <3> QED
      BY <3>1, <3>2, <3>3
  <2> QED
    BY <2>2, <2>3 DEF IInv
<1>5. CASE r.op = "CMGR" /\ RspCmgr(r.pos, ok)
  <2>1. r \in Reads /\ r \notin Sends
    BY <1>3, <1>5, RequestKinds
  <2>2. ReadInv'
    BY <2>1, <1>1, <1>2, <1>5, AnswerKeepsReading
  <2>3. SendInv'
    <3> DEFINE e == [kind |-> "SMS_READ_CNF", data |-> sim[r.pos]]
    <3>1. UNCHANGED sending /\ (qmsg' = qmsg \/ qmsg' = Append(qmsg, e))
      BY <1>5 DEF RspCmgr, Dispatch
    <3>2. r.pos \in Positions
      BY <2>1 DEF Reads
    <3>3. e \in Events /\ e \notin Confs /\ e \notin Readies
      <4>1. sim[r.pos] \in 0..MaxNews
        BY <3>2, <1>2 DEF ReadInv, ReadTypes
      <4> QED
        BY <4>1 DEF Events, Shows, Confs, Readies
    <3> HIDE DEF e
    <3> QED
      BY <3>1, <3>3, <2>1, <1>1, <1>2, TailKeepsSends, DispatchKeepsSending
  <2> QED
    BY <2>2, <2>3 DEF IInv
<1>6. CASE r.op = "CMGD" /\ ok /\ RspCmgd(r.pos)
  <2>1. r \in Deletes /\ r \notin Sends
    BY <1>3, <1>6, RequestKinds
  <2>2. ReadInv'
    BY <2>1, <1>1, <1>2, <1>6, DeleteKeepsReading
  <2>3. SendInv'
    <3>1. UNCHANGED sending /\ qmsg' = qmsg
      BY <1>6 DEF RspCmgd
    <3>2. qmsg \in Seq(Events) /\ \A K : Keeps(qmsg, qmsg', K)
      BY <3>1, <1>2 DEF SendInv, SendTypes, Keeps
    <3> QED
      BY <3>1, <3>2, <2>1, <1>1, <1>2, TailKeepsSends, SendingKept
  <2> QED
    BY <2>2, <2>3 DEF IInv
<1> QED
  BY <1>1, <1>4, <1>5, <1>6

LEMMA RunQmsgKeeps ==
    ASSUME SmsAssumption, NoHabit, IInv, RunQmsg
    PROVE  IInv'
<1> DEFINE e == Head(qmsg)
<1>1. /\ qmsg # <<>> /\ qmsg' = Tail(qmsg) /\ ready' = ready
      /\ \/ /\ e.kind = "SMS_READY" /\ SndNxt
            /\ UNCHANGED <<tsmsnd, timer, reading>>
         \/ NewSms(e)
         \/ ReadCnf(e)
         \/ \E chained \in BOOLEAN, cnt \in 1..MaxParts :
                SendCnf(e, chained, cnt)
  BY DEF RunQmsg
<1>2. SendInv /\ ReadInv
  BY DEF IInv
<1>3. e \in Events /\ reqs \in Seq(Requests) /\ qmsg \in Seq(Events)
  BY <1>1, <1>2 DEF SendInv, SendTypes
<1>4. CASE /\ e.kind = "SMS_READY" /\ SndNxt
           /\ UNCHANGED <<tsmsnd, timer, reading>>
  <2>1. e \in Readies /\ e \notin Inds /\ e \notin Shows
    BY <1>3, <1>4, EventKinds
  <2>2. SendInv'
    BY <2>1, <1>1, <1>2, <1>4, ReadyStartsSending
  <2>3. MoreSends(reqs, reqs') /\ UNCHANGED reading
    BY <1>2, <1>4, SndNxtSends
  <2>4. ReadInv'
    BY <2>1, <2>3, <1>1, <1>2, MessageKeepsReading
  <2> QED
    BY <2>2, <2>4 DEF IInv
<1>5. CASE NewSms(e)
  <2>1. e \notin Confs /\ e \notin Readies
    BY <1>3, <1>5, EventKinds DEF NewSms
  <2>2. ReadInv'
    BY <1>1, <1>2, <1>5, NewsKeepsReading
  <2>3. tnewsms' \in Seq(Positions)
    BY <2>2 DEF ReadInv, ReadTypes
  <2>4. /\ reqs' \in Seq(Requests) /\ Keeps(reqs, reqs', Sends)
        /\ Block(reqs', Sends, Waiting)
    <3>1. /\ Keeps(reqs, reqs, Sends) /\ Block(reqs, Sends, Waiting)
      BY <1>2 DEF Keeps, SendInv, CommandsFit
    <3>2. CASE tnewsms = <<>>
      <4>1. reqs' = reqs \o ReadFirst(tnewsms')
        BY <3>2, <1>5 DEF NewSms
      <4> QED
        BY <4>1, <3>1, <2>3, <1>2, <1>3, ReadFirstKeepsSends
    <3>3. CASE tnewsms # <<>>
      <4>1. reqs' = reqs
        BY <3>3, <1>3, <1>5 DEF NewSms
      <4> QED
        BY <4>1, <1>2, UnchangedRequests
    <3> QED
      BY <3>2, <3>3
  <2>5. UNCHANGED <<ready, sending>>
    BY <1>1, <1>5 DEF NewSms
  <2>6. SendInv'
    BY <2>1, <2>4, <2>5, <1>1, <1>2, HandledKeepsSending
  <2> QED
    BY <2>2, <2>6 DEF IInv
<1>6. CASE ReadCnf(e)
  <2>1. e \notin Confs /\ e \notin Readies
    BY <1>3, <1>6, EventKinds DEF ReadCnf
  <2>2. ReadInv'
    BY <1>1, <1>2, <1>6, ShowKeepsReading
  <2>3. tnewsms' \in Seq(Positions)
    BY <2>2 DEF ReadInv, ReadTypes
  <2>4. /\ reqs' \in Seq(Requests) /\ Keeps(reqs, reqs', Sends)
        /\ Block(reqs', Sends, Waiting)
    <3> DEFINE d == Request("CMGD", Head(tnewsms))
               mid == Append(reqs, d)
    <3>1. Head(tnewsms) \in Positions
      <4>1. e \in Shows
        BY <1>3, <1>6, EventKinds DEF ReadCnf
      <4>2. Has(qmsg, Shows)
        BY <4>1, <1>1, <1>3, QueueTail
      <4>3. tnewsms # <<>> /\ tnewsms \in Seq(Positions)
        BY <4>2, <1>2 DEF ReadInv, ReadTypes, ReadingFits
      <4> QED
        BY <4>3
    <3>2. d \in Requests /\ d \notin Sends
      BY <3>1 DEF Request, Requests, Deletes, Sends
    <3>3. reqs' = reqs \o <<d>> \o ReadFirst(tnewsms')
      BY <1>6 DEF ReadCnf
    <3> HIDE DEF d
    <3>4. reqs' = mid \o ReadFirst(tnewsms')
      BY <3>2, <3>3, <1>3, OneMore
    <3>5. /\ Keeps(reqs, reqs, Sends) /\ Block(reqs, Sends, Waiting)
      BY <1>2 DEF Keeps, SendInv, CommandsFit
    <3>6. /\ mid \in Seq(Requests) /\ Keeps(reqs, mid, Sends)
          /\ Block(mid, Sends, Waiting)
      BY <3>2, <3>5, <1>2, <1>3, RequestsKeepSends
    <3> HIDE DEF mid
    <3> QED
      BY <3>4, <3>6, <2>3, <1>2, ReadFirstKeepsSends
  <2>5. UNCHANGED <<ready, sending>>
    BY <1>1, <1>6 DEF ReadCnf
  <2>6. SendInv'
    BY <2>1, <2>4, <2>5, <1>1, <1>2, HandledKeepsSending
  <2> QED
    BY <2>2, <2>6 DEF IInv
<1>7. ASSUME NEW chained \in BOOLEAN, NEW cnt \in 1..MaxParts,
             SendCnf(e, chained, cnt)
      PROVE  IInv'
  <2>1. SendInv'
    BY <1>1, <1>2, <1>7, ResultKeepsSending
  <2>2. e \notin Inds /\ e \notin Shows
    BY <1>3, <1>7, EventKinds DEF SendCnf
  <2>3. UNCHANGED reading
    BY <1>7 DEF SendCnf
  <2>4. MoreSends(reqs, reqs')
    <3>1. CASE chained /\ Len(tsmsnd) = 1
      BY <3>1, <1>7 DEF SendCnf, NoHabit
    <3>2. CASE ~(chained /\ Len(tsmsnd) = 1)
      <4>1. reqs' = reqs
        BY <3>2, <1>7 DEF SendCnf
      <4> QED
        BY <4>1, <1>3, NoMoreSends
    <3> QED
      BY <3>1, <3>2
  <2>5. ReadInv'
    BY <2>2, <2>3, <2>4, <1>1, <1>2, MessageKeepsReading
  <2> QED
    BY <2>1, <2>5 DEF IInv
<1> QED
  BY <1>1, <1>4, <1>5, <1>6, <1>7

LEMMA NextInv ==
    ASSUME SmsAssumption, NoHabit, IInv, [Next]_vars
    PROVE  IInv'
<1>1. SendInv /\ ReadInv
  BY DEF IInv
<1>2. ASSUME NEW cnt \in 1..MaxParts, NEW idx \in 1..Full, Send(cnt, idx)
      PROVE  IInv'
  BY <1>1, <1>2, SendKeepsSending, SendKeepsReading DEF IInv
<1>3. CASE Timer
  BY <1>1, <1>3, TimerKeepsSending, TimerKeepsReading DEF IInv
<1>4. CASE SmsReady
  <2>1. SmsReadyMsg \in Events /\ SmsReadyMsg \notin Inds
        /\ SmsReadyMsg \notin Shows
    BY DEF SmsReadyMsg, Events, Readies, Inds, Shows
  <2>2. UNCHANGED reading /\ qmsg' = Append(qmsg, SmsReadyMsg) /\ reqs' = reqs
    BY <1>4 DEF SmsReady, Dispatch
  <2>3. ReadInv'
    BY <2>1, <2>2, <1>1, DispatchKeepsReading
  <2>4. SendInv'
    BY <1>1, <1>4, SmsReadyKeepsSending
  <2> QED
    BY <2>3, <2>4 DEF IInv
<1>5. CASE RunQmsg
  BY <1>5, RunQmsgKeeps
<1>6. ASSUME NEW ok \in BOOLEAN, Rsp(ok) PROVE IInv'
  BY <1>6, RspKeeps
<1>7. ASSUME NEW p \in Positions, Cmti(p) PROVE IInv'
  <2> DEFINE e == [kind |-> "SMS_NEW_MSG_IND", pos |-> p]
  <2>1. e \in Events /\ e \notin Confs /\ e \notin Readies
    BY DEF Events, Inds, Confs, Readies
  <2>2. /\ qmsg' = Append(qmsg, e) /\ UNCHANGED <<ready, sending>>
        /\ reqs' = reqs
    BY <1>7 DEF Cmti, Dispatch
  <2> HIDE DEF e
  <2>3. SendInv'
    BY <2>1, <2>2, <1>1, UnchangedRequests, DispatchKeepsSending
  <2>4. ReadInv'
    BY <1>1, <1>7, ArrivalKeepsReading
  <2> QED
    BY <2>3, <2>4 DEF IInv
<1>8. CASE UNCHANGED vars
  <2>1. /\ UNCHANGED <<ready, sending>> /\ UNCHANGED reading
        /\ reqs' = reqs /\ qmsg' = qmsg
    BY <1>8 DEF vars
  <2>2. /\ \A K : Keeps(qmsg, qmsg', K) /\ Keeps(reqs, reqs', K)
        /\ qmsg' \in Seq(Events) /\ reqs' \in Seq(Requests)
    BY <2>1, <1>1 DEF Keeps, SendInv, SendTypes
  <2>3. SendInv'
    BY <2>1, <2>2, <1>1, UnchangedRequests, SendingKept
  <2>4. ReadInv'
    BY <2>1, <2>2, <1>1, ReadingKept DEF ReadInv, ListFits
  <2> QED
    BY <2>3, <2>4 DEF IInv
<1> QED
  BY <1>2, <1>3, <1>4, <1>5, <1>6, <1>7, <1>8 DEF Next
----------------------------------------------------------------------------
(* The properties *)

LEMMA InvFollows ==
    ASSUME SmsAssumption, IInv
    PROVE  Inv
<1>1. SendInv /\ ReadInv
  BY DEF IInv
<1>2. /\ tsmsnd \in Seq(Messages) /\ qmsg \in Seq(Events)
      /\ tsend \in Seq(Sendings) /\ log \in Seq(Records)
      /\ Len(log) \in Nat /\ Len(log) <= MaxSends
      /\ DOMAIN tsend = 1..Len(tsend) /\ DOMAIN qmsg = 1..Len(qmsg)
      /\ MaxSends \in Nat
  BY <1>1 DEF SendInv, SendTypes, SmsAssumption
<1>3. tsend # <<>> =>
        /\ Len(tsend) = 1 /\ ~Has(qmsg, Confs)
        /\ tsend[1].id = tsmsnd[1].id /\ tsend[1].rval < tsend[1].sval
  BY <1>1 DEF SendInv, SendingFits, FirstId
<1>4. Busy => /\ tsmsnd # <<>> /\ ~timer /\ log[FirstId].sent = 1
              /\ FirstId = Head(tsmsnd).id /\ FirstId \in 1..MaxSends
  <2> SUFFICES ASSUME Busy
               PROVE  /\ tsmsnd # <<>> /\ ~timer /\ log[FirstId].sent = 1
                      /\ FirstId = Head(tsmsnd).id /\ FirstId \in 1..MaxSends
    OBVIOUS
  <2>1. tsmsnd # <<>> /\ ~timer /\ log[FirstId].sent = 1
    BY <1>1 DEF SendInv, SendingFits
  <2>2. Head(tsmsnd) = tsmsnd[1] /\ tsmsnd[1] \in Messages
    BY <2>1, <1>2
  <2> QED
    BY <2>1, <2>2 DEF FirstId, Messages
<1>5. TypeOK
  <2>1. ASSUME NEW i \in DOMAIN tsend
        PROVE  tsend[i].id \in 1..MaxSends /\ tsend[i].rval < tsend[i].sval
    <3>1. tsend # <<>> /\ i = 1
      BY <1>2, <1>3
    <3> QED
      BY <3>1, <1>3, <1>4 DEF Busy, FirstId
  <2> QED
    BY <2>1, <1>1 DEF TypeOK, SendInv, SendTypes, ReadInv, ReadTypes, Messages
<1>6. OneIsSent
  <2>1. \A i \in 1..Len(qmsg) : qmsg[i].kind = "SMS_SEND_CNF" <=> qmsg[i] \in Confs
    BY <1>2, EventKinds
  <2>2. ~Has(qmsg, Confs) => Confirmations = {}
    BY <2>1, <1>2 DEF Confirmations, Has
  <2>3. \E i : Confirmations \subseteq {i}
    <3>1. CASE Has(qmsg, Confs)
      <4>1. PICK i \in 1..Len(qmsg) : qmsg[i] \in Confs
        BY <3>1 DEF Has
      <4>2. Single(qmsg, Confs)
        BY <1>1 DEF SendInv, SendingFits
      <4>3. Confirmations \subseteq {i}
        BY <4>1, <4>2, <2>1, <1>2 DEF Confirmations, Single
      <4> QED
        BY <4>3
    <3>2. CASE ~Has(qmsg, Confs)
      BY <3>2, <2>2
    <3> QED
      BY <3>1, <3>2
  <2>4. Confirmations = {} \/ \E i : Confirmations = {i}
    BY <2>3
  <2>5. Cardinality({}) = 0 /\ \A i : Cardinality({i}) = 1
    BY FS_EmptySet, FS_Singleton
  <2>6. Len(tsend) + Cardinality(Confirmations) <= 1
    <3>1. Cardinality(Confirmations) \in {0, 1}
      <4>1. CASE Confirmations = {}
        BY <4>1, <2>5, Zenon
      <4>2. CASE \E i : Confirmations = {i}
        <5>1. PICK i : Confirmations = {i}
          BY <4>2
        <5> QED
          BY <5>1, <2>5, Zenon
      <4> QED
        BY <4>1, <4>2, <2>4
    <3>2. tsend # <<>> => Cardinality(Confirmations) = 0
      <4>1. tsend # <<>> => Confirmations = {}
        BY <1>3, <2>2
      <4> QED
        BY <4>1, <2>5, Zenon
    <3>3. tsend = <<>> => Len(tsend) = 0
      OBVIOUS
    <3> DEFINE c == Cardinality(Confirmations)
    <3> HIDE DEF c
    <3>4. c \in {0, 1} /\ (tsend # <<>> => c = 0)
      BY <3>1, <3>2, Zenon DEF c
    <3>5. tsend # <<>> => Len(tsend) = 1
      BY <1>3
    <3>6. Len(tsend) \in {0, 1} /\ (Len(tsend) = 1 => c = 0)
      BY <3>3, <3>4, <3>5
    <3>7. Len(tsend) + c <= 1
      <4> DEFINE n == Len(tsend)
      <4>1. n \in {0, 1} /\ (n = 1 => c = 0) /\ c \in {0, 1}
        BY <3>6, <3>4
      <4> HIDE DEF n
      <4>2. n + c <= 1
        BY ONLY <4>1
      <4> QED
        BY <4>2 DEF n
    <3> QED
      BY <3>7 DEF c
  <2>7. InFlight <=> Busy
    BY <1>2, BusyIsInFlight
  <2>8. tsend # <<>> => tsend[1].id = Head(tsmsnd).id
    BY <1>3, <1>4 DEF Busy, FirstId
  <2> QED
    BY <2>6, <2>7, <2>8, <1>4 DEF OneIsSent
<1>7. NewInOrder
  <2> DEFINE k == Len(shown)
             n == Len(tnewsms)
  <2>1. /\ tnewsms \in Seq(Positions) /\ sim \in [Positions -> 0..MaxNews]
        /\ shown \in Seq(0..MaxNews) /\ qmsg \in Seq(Events)
        /\ k \in Nat /\ n \in Nat /\ arrived \in Nat
        /\ DOMAIN shown = 1..k
    BY <1>1 DEF ReadInv, ReadTypes
  <2>2. \A i \in 1..k : shown[i] = i
    BY <1>1 DEF ReadInv, ListFits
  <2>3. shown = [i \in DOMAIN shown |-> i]
    BY <2>1, <2>2
  <2>4. ASSUME NEW i \in 1..arrived
        PROVE  i \in Range_(shown) \/ i \in Range_(sim)
    <3>1. CASE i <= k
      <4>1. i \in DOMAIN shown /\ shown[i] = i
        BY <3>1, <2>1, <2>2
      <4>2. i \in Range_(shown)
        BY <4>1 DEF Range_
      <4> QED
        BY <4>2
    <3>2. CASE k < i /\ i <= k + n
      <4> DEFINE a == i - k
      <4>1. a \in 1..n /\ k + a = i
        BY <3>2, <2>1
      <4> HIDE DEF a
      <4>2. tnewsms[a] \in Positions /\ sim[tnewsms[a]] = k + a
        BY <4>1, <2>1, <1>1 DEF ReadInv, ListFits
      <4>3. i \in Range_(sim)
        BY <4>1, <4>2, <2>1 DEF Range_
      <4> QED
        BY <4>3
    <3>3. CASE k + n < i
      <4>1. i \in (k + n) + 1..arrived
        BY <3>3, <2>1
      <4>2. NewsFit(qmsg, sim, k + n, arrived)
        BY <1>1 DEF ReadInv, ListFits
      <4>3. PICK a \in 1..Len(qmsg) : qmsg[a] \in Inds /\ sim[qmsg[a].pos] = i
        BY <4>1, <4>2 DEF NewsFit
      <4>4. qmsg[a].pos \in Positions
        BY <4>3 DEF Inds
      <4> QED
        BY <4>3, <4>4, <2>1 DEF Range_
    <3> QED
      BY <3>1, <3>2, <3>3, <2>1
  <2> QED
    BY <2>3, <2>4 DEF NewInOrder
<1> QED
  BY <1>5, <1>6, <1>7 DEF Inv

(* The message under way is the first of the buffer, and its answers are   *)
(* all that come; messages that arrive are in the SIM card, and in the     *)
(* order of their arrival, until the program has them: for any numbers of  *)
(* messages, parts and positions, unless the habits are used that concern  *)
(* sending (send inserts at any index, sendcnf removes the first; readcnf  *)
(* takes the first of tnewsms).  A message that cannot be read is allowed. *)
THEOREM OneMessageIsUnderWay ==
    ASSUME NoHabit
    PROVE  Spec => []Inv
<1>1. Init => IInv
  BY SmsAssumption, InitInv
<1>2. IInv /\ [Next]_vars => IInv'
  BY SmsAssumption, NextInv
<1>3. IInv => Inv
  BY SmsAssumption, InvFollows
<1> QED
  BY <1>1, <1>2, <1>3, PTL DEF Spec
----------------------------------------------------------------------------
(* Results: only sendcnf tells one. *)

LEMMA SendTellsNothing ==
    ASSUME NEW m, NEW lg \in Seq(Records), _send(m, lg)
    PROVE  \A i \in 1..Len(lg) : log'[i].told = lg[i].told
<1> SUFFICES ASSUME NEW i \in 1..Len(lg) PROVE log'[i].told = lg[i].told
  OBVIOUS
<1>1. lg[i] \in Records /\ i \in DOMAIN lg
  OBVIOUS
<1>2. CASE ready
  <2> DEFINE n == lg[m.id].sent + 1
  <2>1. log' = [lg EXCEPT ![m.id].sent = n]
    BY <1>2 DEF _send
  <2> HIDE DEF n
  <2>2. log'[i] = IF i = m.id THEN [lg[i] EXCEPT !.sent = n] ELSE lg[i]
    BY <2>1, <1>1
  <2> QED
    BY <2>2, <1>1 DEF Records
<1>3. CASE ~ready
  BY <1>3 DEF _send
<1> QED
  BY <1>2, <1>3

LEMMA AnswerTellsNothing ==
    ASSUME log \in Seq(Records), NEW id, NEW ok \in BOOLEAN, RspCmgs(id, ok)
    PROVE  \A i \in 1..Len(log) : log'[i].told = log[i].told
<1> SUFFICES ASSUME NEW i \in 1..Len(log) PROVE log'[i].told = log[i].told
  OBVIOUS
<1> DEFINE n == log[id].answers + 1
           o == log[id].ok /\ ok
           x == [log EXCEPT ![id].answers = n]
<1>1. log[i] \in Records /\ i \in DOMAIN log
  OBVIOUS
<1>2. log' = [log EXCEPT ![id].answers = n, ![id].ok = o]
  BY DEF RspCmgs
<1> HIDE DEF n, o
<1>3. log'[i] = IF i = id THEN [log[i] EXCEPT !.answers = n, !.ok = o]
                          ELSE log[i]
  BY <1>1, <1>2
<1> QED
  BY <1>1, <1>3 DEF Records

LEMMA ResultIsOfFirst ==
    ASSUME SmsAssumption, SendInv, qmsg # <<>>,
           NEW chained \in BOOLEAN, NEW cnt \in 1..MaxParts,
           SendCnf(Head(qmsg), chained, cnt),
           NEW i \in 1..Len(log), log'[i].told # log[i].told
    PROVE  /\ log[i].told = "no" /\ log[i].sent = 1
           /\ \A m \in Range_(tsmsnd) : m.id = i => log[i].answers = m.cnt
           /\ log'[i].told = "ok" <=> log[i].ok
<1> DEFINE next == NewMsg(cnt)
           result == IF Head(qmsg).result THEN "ok" ELSE "error"
           told == [log EXCEPT ![FirstId].told = result]
           lg == IF chained THEN Append(told, NewMessage) ELSE told
<1>1. /\ tsmsnd \in Seq(Messages) /\ qmsg \in Seq(Events)
      /\ log \in Seq(Records) /\ Len(log) \in Nat
  BY DEF SendInv, SendTypes
<1>2. Head(qmsg) \in Confs /\ Head(qmsg) \in Events
  <2>1. Head(qmsg) \in Events /\ Head(qmsg).kind = "SMS_SEND_CNF"
    BY <1>1, TailFacts DEF SendCnf
  <2> QED
    BY <2>1, EventKinds
<1>3. Has(qmsg, Confs)
      /\ Head(qmsg) \in [kind : {"SMS_SEND_CNF"}, result : {log[FirstId].ok}]
  BY <1>1, <1>2, QueueTail DEF SendInv, SendingFits
<1>4. /\ tsmsnd # <<>> /\ log[FirstId].sent = 1 /\ log[FirstId].told = "no"
      /\ log[FirstId].answers = tsmsnd[1].cnt
  BY <1>3 DEF SendInv, SendingFits, Busy
<1>5. Head(tsmsnd) = tsmsnd[1] /\ FirstId \in 1..Len(log)
  <2>1. Head(tsmsnd) = tsmsnd[1] /\ 1 \in 1..Len(tsmsnd)
    BY <1>1, <1>4
  <2> QED
    BY <2>1 DEF SendInv, BufferFits, FirstId
<1>6. \/ _send(next, lg)
      \/ log' = lg
  BY <1>5 DEF SendCnf, NewMsg, FirstId
<1>7. result \in Outcomes /\ (result = "ok" <=> log[FirstId].ok)
  <2>1. Head(qmsg).result = log[FirstId].ok
    BY <1>3
  <2> QED
    BY <2>1 DEF Outcomes
<1> HIDE DEF result, next
<1>8. /\ told \in Seq(Records) /\ Len(told) = Len(log)
      /\ \A j \in 1..Len(log) : j # FirstId => told[j] = log[j]
      /\ told[FirstId].told = result
  <2> DEFINE x == [log[FirstId] EXCEPT !.told = result]
  <2>1. log[FirstId] \in Records
    BY <1>1, <1>5
  <2>2. x \in Records /\ x.told = result
    BY <2>1, <1>7 DEF Records
  <2>3. told = [log EXCEPT ![FirstId] = x]
    OBVIOUS
  <2> HIDE DEF x, told
  <2> QED
    BY <2>2, <2>3, <1>1, <1>5, ExceptSeq
<1> HIDE DEF told
<1>9. lg \in Seq(Records) /\ i \in 1..Len(lg) /\ lg[i].told = told[i].told
  <2>1. CASE chained
    <3>1. NewMessage \in Records
      BY DEF NewMessage, Records, Outcomes
    <3> QED
      BY <2>1, <3>1, <1>1, <1>8, AppendFacts
  <2>2. CASE ~chained
    BY <2>2, <1>8
  <2> QED
    BY <2>1, <2>2
<1> HIDE DEF lg
<1>10. log'[i].told = told[i].told
  <2>1. CASE _send(next, lg)
    BY <2>1, <1>9, SendTellsNothing
  <2>2. CASE log' = lg
    BY <2>2, <1>9
  <2> QED
    BY <2>1, <2>2, <1>6
<1>11. i = FirstId /\ log'[i].told = result
  BY <1>8, <1>10
<1>12. ASSUME NEW m \in Range_(tsmsnd), m.id = i
       PROVE  log[i].answers = m.cnt
  <2>1. PICK a \in 1..Len(tsmsnd) : tsmsnd[a] = m
    BY <1>1 DEF Range_
  <2>2. 1 \in 1..Len(tsmsnd) /\ tsmsnd[a].id = tsmsnd[1].id
    BY <2>1, <1>1, <1>11, <1>12, <1>4 DEF FirstId
  <2>3. a = 1
    BY <2>2 DEF SendInv, BufferFits
  <2> QED
    BY <2>1, <2>3, <1>4, <1>11
<1> QED
  BY <1>4, <1>7, <1>11, <1>12

LEMMA StepTellsOwn ==
    ASSUME SmsAssumption, IInv, [Next]_vars, NEW i \in 1..Len(log),
           log'[i].told # log[i].told
    PROVE  /\ log[i].told = "no" /\ log[i].sent = 1
           /\ \A m \in Range_(tsmsnd) : m.id = i => log[i].answers = m.cnt
           /\ log'[i].told = "ok" <=> log[i].ok
<1>1. SendInv
  BY DEF IInv
<1>2. log \in Seq(Records) /\ Len(log) \in Nat
  BY <1>1 DEF SendInv, SendTypes
<1>3. SndNxt => log'[i].told = log[i].told
  BY <1>2, SendTellsNothing DEF SndNxt
<1>4. ASSUME NEW cnt \in 1..MaxParts, NEW idx \in 1..Full, Send(cnt, idx)
      PROVE  FALSE
  <2> DEFINE lg == Append(log, NewMessage)
  <2>1. _send(NewMsg(cnt), lg) \/ log' = lg
    BY <1>4 DEF Send, NewMsg
  <2>2. lg \in Seq(Records) /\ i \in 1..Len(lg) /\ lg[i] = log[i]
    <3>1. NewMessage \in Records
      BY DEF NewMessage, Records, Outcomes
    <3> QED
      BY <3>1, <1>2, AppendFacts
  <2> HIDE DEF lg
  <2> QED
    BY <2>1, <2>2, SendTellsNothing
<1>5. CASE Timer
  BY <1>3, <1>5 DEF Timer
<1>6. CASE SmsReady
  BY <1>6 DEF SmsReady, sending
<1>7. CASE RunQmsg
  <2> DEFINE e == Head(qmsg)
  <2>1. ~SndNxt /\ qmsg # <<>>
    BY <1>3, <1>7 DEF RunQmsg
  <2>2. ~NewSms(e) /\ ~ReadCnf(e)
    BY DEF NewSms, ReadCnf, sending
  <2>3. PICK chained \in BOOLEAN, cnt \in 1..MaxParts :
            SendCnf(e, chained, cnt)
    BY <2>1, <2>2, <1>7 DEF RunQmsg
  <2> QED
    BY <2>1, <2>3, <1>1, ResultIsOfFirst
<1>8. ASSUME NEW ok \in BOOLEAN, Rsp(ok) PROVE FALSE
  <2> DEFINE r == Head(reqs)
  <2>1. ~RspCmgs(r.id, ok)
    BY <1>2, AnswerTellsNothing
  <2>2. ~RspCmgr(r.pos, ok) /\ ~RspCmgd(r.pos)
    BY DEF RspCmgr, RspCmgd, sending
  <2> QED
    BY <2>1, <2>2, <1>8 DEF Rsp
<1>9. ASSUME NEW p \in Positions, Cmti(p) PROVE FALSE
  BY <1>9 DEF Cmti, sending
<1>10. CASE UNCHANGED vars
  BY <1>10 DEF vars, sending
<1> QED
  BY <1>4, <1>5, <1>6, <1>7, <1>8, <1>9, <1>10 DEF Next

(* A message is told its result once, after all of its parts were          *)
(* answered, and the result is its own: whether all of them were sent      *)
(* (rsp counts the answers in the first of tsend, sendcnf takes the first  *)
(* of tsmsnd, and neither knows a message); on the same assumption.        *)
THEOREM ResultsAreOwn ==
    ASSUME NoHabit
    PROVE  Spec => ResultIsOwn
<1> DEFINE Own(i) ==
        log'[i].told # log[i].told =>
           /\ log[i].told = "no" /\ log[i].sent = 1
           /\ \A m \in Range_(tsmsnd) : m.id = i => log[i].answers = m.cnt
           /\ (log'[i].told = "ok") = log[i].ok
<1>1. Init => IInv
  BY SmsAssumption, InitInv
<1>2. IInv /\ [Next]_vars => IInv'
  BY SmsAssumption, NextInv
<1>3. IInv /\ [Next]_vars => \A i \in DOMAIN log : Own(i)
  <2> SUFFICES ASSUME IInv, [Next]_vars, NEW i \in DOMAIN log PROVE Own(i)
    OBVIOUS
  <2>1. i \in 1..Len(log) /\ log[i].ok \in BOOLEAN
    <3>1. log \in Seq(Records)
      BY DEF IInv, SendInv, SendTypes
    <3>2. i \in 1..Len(log) /\ log[i] \in Records
      BY <3>1
    <3> QED
      BY <3>2 DEF Records
  <2>2. log'[i].told # log[i].told =>
           /\ log[i].told = "no" /\ log[i].sent = 1
           /\ \A m \in Range_(tsmsnd) : m.id = i => log[i].answers = m.cnt
           /\ log'[i].told = "ok" <=> log[i].ok
    BY <2>1, SmsAssumption, StepTellsOwn
  <2> QED
    BY <2>1, <2>2
<1>4. IInv /\ [Next]_vars => [\A i \in DOMAIN log : Own(i)]_vars
  BY <1>3
<1> QED
  BY <1>1, <1>2, <1>4, PTL DEF Spec, ResultIsOwn
=============================================================================
