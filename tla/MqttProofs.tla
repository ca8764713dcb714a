----------------------------- MODULE MqttProofs -----------------------------
(***************************************************************************)
(* The MQTT clients, with the parts of socket and link below them.         *)
(*                                                                         *)
(* For any clients, and whatever goes wrong, the types are kept and no     *)
(* result of a publish is told twice.  A packet number that is to be told  *)
(* is in one place: the socket's buffer, the packet under way, the list of *)
(* repetitions or a message (Held); an operation takes an item from one    *)
(* place and carries it to the next (Carries, Passes).                     *)
(*                                                                         *)
(* For one client, whose modem and server spare it the special cases, all  *)
(* of Inv holds.  Such a client is Linked, and has all that a connection   *)
(* has, or Unlinked, and has none of it; no publish is lost on the way     *)
(* from the one to the other (Keeps).                                      *)
(***************************************************************************)
EXTENDS Mqtt, SequenceTheorems, WellFoundedInduction, TLAPS

(* Some element of q is in S, and at most one place of q is.               *)
Some(q, S) == \E k \in 1..Len(q) : q[k] \in S
Sole(q, S) == \A j, k \in 1..Len(q) : q[j] \in S /\ q[k] \in S => j = k

----------------------------------------------------------------------------
(* Sequences *)

LEMMA EmptyHas ==
    ASSUME NEW S
    PROVE  ~Some(<<>>, S) /\ Sole(<<>>, S)
BY DEF Some, Sole

LEMMA AppendHas ==
    ASSUME NEW T, NEW q \in Seq(T), NEW x \in T, NEW S
    PROVE  /\ Some(Append(q, x), S) <=> Some(q, S) \/ x \in S
           /\ Sole(Append(q, x), S) <=> Sole(q, S) /\ ~(Some(q, S) /\ x \in S)
<1> DEFINE r == Append(q, x)
           n == Len(q)
<1>1. /\ n \in Nat /\ Len(r) = n + 1 /\ r[n + 1] = x
      /\ \A k \in 1..n : r[k] = q[k]
  BY AppendProperties, LenProperties
<1> HIDE DEF r, n
<1>2. 1..(n + 1) = (1..n) \union {n + 1} /\ n + 1 \notin 1..n
  BY <1>1
<1>3. Some(r, S) <=> \E k \in 1..(n + 1) : r[k] \in S
  BY <1>1 DEF Some
<1>4. Some(q, S) <=> \E k \in 1..n : q[k] \in S
  BY DEF Some, n
<1>5. Sole(q, S) <=> \A j, k \in 1..n : q[j] \in S /\ q[k] \in S => j = k
  BY DEF Sole, n
<1>6. Sole(r, S) <=> \A j, k \in 1..(n + 1) : r[j] \in S /\ r[k] \in S => j = k
  BY <1>1 DEF Sole
<1> QED
  BY <1>1, <1>2, <1>3, <1>4, <1>5, <1>6 DEF r

LEMMA TailFacts ==
    ASSUME NEW T, NEW q \in Seq(T), q # <<>>
    PROVE  /\ Len(q) \in Nat \ {0} /\ Len(Tail(q)) = Len(q) - 1
           /\ Head(q) = q[1] /\ Head(q) \in T /\ Tail(q) \in Seq(T)
           /\ \A i \in 1..Len(q) - 1 : Tail(q)[i] = q[i + 1]
<1>1. Len(q) \in Nat /\ (\A k \in 1..Len(q) : q[k] \in T)
  BY LenProperties, ElementOfSeq
<1>2. Len(q) # 0
  BY EmptySeq
<1>3. Tail(q) \in Seq(T) /\ Len(Tail(q)) = Len(q) - 1
  BY HeadTailProperties
<1>4. \A i \in 1..Len(q) - 1 : Tail(q)[i] = q[i + 1]
  BY <1>1, <1>2, <1>3, HeadTailProperties
<1>5. Head(q) = q[1] /\ Head(q) \in T
  BY <1>1, <1>2, HeadTailProperties
<1> QED
  BY <1>1, <1>2, <1>3, <1>4, <1>5

LEMMA TailHas ==
    ASSUME NEW T, NEW q \in Seq(T), q # <<>>, NEW S
    PROVE  /\ Some(q, S) <=> Some(Tail(q), S) \/ Head(q) \in S
           /\ Sole(q, S) <=> /\ Sole(Tail(q), S)
                             /\ ~(Some(Tail(q), S) /\ Head(q) \in S)
<1> DEFINE r == Tail(q)
           n == Len(q)
<1>1. /\ n \in Nat \ {0} /\ Len(r) = n - 1 /\ Head(q) = q[1]
      /\ \A k \in 1..(n - 1) : r[k] = q[k + 1]
  BY TailFacts
<1> HIDE DEF r, n
<1>2. /\ \A k \in 1..(n - 1) : k + 1 \in 1..n /\ k + 1 # 1
      /\ \A k \in 1..n : k = 1 \/ (k - 1 \in 1..(n - 1) /\ (k - 1) + 1 = k)
      /\ 1 \in 1..n
  BY <1>1
<1>3. Some(q, S) <=> \E k \in 1..n : q[k] \in S
  BY DEF Some, n
<1>4. Some(r, S) <=> \E k \in 1..(n - 1) : q[k + 1] \in S
  BY <1>1 DEF Some
<1>5. Some(q, S) <=> Some(r, S) \/ q[1] \in S
  BY <1>2, <1>3, <1>4
<1>6. ASSUME Sole(q, S) PROVE Sole(r, S) /\ ~(Some(r, S) /\ q[1] \in S)
  <2>1. \A j, k \in 1..n : q[j] \in S /\ q[k] \in S => j = k
    BY <1>6 DEF Sole, n
  <2>2. ASSUME NEW j \in 1..(n - 1), NEW k \in 1..(n - 1), r[j] \in S, r[k] \in S
        PROVE  j = k
    <3>1. q[j + 1] \in S /\ q[k + 1] \in S /\ j + 1 \in 1..n /\ k + 1 \in 1..n
      BY <2>2, <1>1, <1>2
    <3>2. j + 1 = k + 1
      BY <2>1, <3>1
    <3> QED
      BY <3>2, <1>1
  <2>3. Sole(r, S)
    BY <2>2, <1>1 DEF Sole
  <2>4. ~(Some(r, S) /\ q[1] \in S)
    BY <2>1, <1>2, <1>4
  <2> QED
    BY <2>3, <2>4
<1>7. ASSUME Sole(r, S), ~(Some(r, S) /\ q[1] \in S) PROVE Sole(q, S)
  <2>1. \A j, k \in 1..(n - 1) : r[j] \in S /\ r[k] \in S => j = k
    BY <1>7, <1>1 DEF Sole
  <2>2. ASSUME NEW j \in 1..n, NEW k \in 1..n, q[j] \in S, q[k] \in S
        PROVE  j = k
    <3>1. CASE j = 1 \/ k = 1
      BY <3>1, <2>2, <1>2, <1>4, <1>7
    <3>2. CASE j # 1 /\ k # 1
      <4>1. /\ j - 1 \in 1..(n - 1) /\ k - 1 \in 1..(n - 1)
            /\ (j - 1) + 1 = j /\ (k - 1) + 1 = k
        BY <1>2, <3>2
      <4>2. r[j - 1] \in S /\ r[k - 1] \in S
        BY <4>1, <2>2, <1>1
      <4>3. j - 1 = k - 1
        BY <4>1, <4>2, <2>1
      <4> QED
        BY <4>3, <1>1
    <3> QED
      BY <3>1, <3>2
  <2> QED
    BY <2>2 DEF Sole, n
<1> QED
  BY <1>1, <1>5, <1>6, <1>7 DEF r

(* One element less *)
LEMMA RemoveAtIs ==
    ASSUME NEW T, NEW q \in Seq(T), NEW k \in 1..Len(q)
    PROVE  /\ RemoveAt(q, k) \in Seq(T) /\ Len(RemoveAt(q, k)) = Len(q) - 1
           /\ \A j \in 1..(Len(q) - 1) :
                RemoveAt(q, k)[j] = IF j < k THEN q[j] ELSE q[j + 1]
<1> DEFINE r == RemoveAt(q, k)
           n == Len(q)
<1>1. n \in Nat /\ k \in Nat /\ 1 <= k /\ k <= n /\ \A j \in 1..n : q[j] \in T
  BY LenProperties, ElementOfSeq
<1> DEFINE a == SubSeq(q, 1, k - 1)
           b == SubSeq(q, k + 1, n)
<1>2. /\ a \in Seq(T) /\ Len(a) = k - 1
      /\ \A j \in 1..(k - 1) : a[j] = q[j]
  <2>1. \A j \in 1..(k - 1) : q[j] \in T
    BY <1>1
  <2>2. /\ SubSeq(q, 1, k - 1) \in Seq(T)
        /\ Len(SubSeq(q, 1, k - 1)) = IF 1 <= k - 1 THEN (k - 1) - 1 + 1 ELSE 0
        /\ \A j \in 1..((k - 1) - 1 + 1) : SubSeq(q, 1, k - 1)[j] = q[1 + j - 1]
    BY <1>1, <2>1, SubSeqProperties
  <2>3. (k - 1) - 1 + 1 = k - 1 /\ \A j \in 1..(k - 1) : 1 + j - 1 = j
    BY <1>1
  <2> QED
    BY <2>2, <2>3, <1>1
<1>3. /\ b \in Seq(T) /\ Len(b) = n - k
      /\ \A j \in 1..(n - k) : b[j] = q[k + j]
  <2>1. \A j \in (k + 1)..n : q[j] \in T
    BY <1>1
  <2>2. /\ SubSeq(q, k + 1, n) \in Seq(T)
        /\ Len(SubSeq(q, k + 1, n)) = IF k + 1 <= n THEN n - (k + 1) + 1 ELSE 0
        /\ \A j \in 1..(n - (k + 1) + 1) : SubSeq(q, k + 1, n)[j] = q[(k + 1) + j - 1]
    BY <1>1, <2>1, SubSeqProperties
  <2>3. /\ n - (k + 1) + 1 = n - k
        /\ (IF k + 1 <= n THEN n - (k + 1) + 1 ELSE 0) = n - k
    <3> HIDE DEF n
    <3> QED
      BY <1>1
  <2>4. b \in Seq(T) /\ Len(b) = n - k
    BY ONLY <2>2, <2>3 DEF b
  <2>5. ASSUME NEW j \in 1..(n - k) PROVE b[j] = q[k + j]
    <3>1. b[j] = q[(k + 1) + j - 1]
      BY <2>2, <2>3
    <3>2. (k + 1) + j - 1 = k + j
      BY <1>1
    <3> QED
      BY <3>1, <3>2
  <2> QED
    BY <2>4, <2>5
<1>4. r = a \o b
  BY DEF RemoveAt
<1> HIDE DEF r, n, a, b
<1>5. /\ r \in Seq(T) /\ Len(r) = n - 1
      /\ \A j \in 1..(n - 1) : r[j] = IF j < k THEN q[j] ELSE q[j + 1]
  <2>1. /\ a \o b \in Seq(T) /\ Len(a \o b) = (k - 1) + (n - k)
        /\ \A j \in 1..((k - 1) + (n - k)) :
             (a \o b)[j] = IF j <= k - 1 THEN a[j] ELSE b[j - (k - 1)]
    <3>1. /\ a \o b \in Seq(T) /\ Len(a \o b) = Len(a) + Len(b)
          /\ \A j \in 1..(Len(a) + Len(b)) :
               (a \o b)[j] = IF j <= Len(a) THEN a[j] ELSE b[j - Len(a)]
      BY <1>2, <1>3, ConcatProperties
    <3>2. Len(a) = k - 1 /\ Len(b) = n - k
      BY <1>2, <1>3
    <3> QED
      BY <3>1, <3>2
  <2>2. (k - 1) + (n - k) = n - 1
    BY <1>1
  <2>3. ASSUME NEW j \in 1..(n - 1)
        PROVE  r[j] = IF j < k THEN q[j] ELSE q[j + 1]
    <3>1. CASE j < k
      BY <3>1, <2>1, <2>2, <1>1, <1>2, <1>4
    <3>2. CASE ~(j < k)
      <4>1. j - (k - 1) \in 1..(n - k) /\ k + (j - (k - 1)) = j + 1
        BY <3>2, <1>1
      <4> QED
        BY <3>2, <4>1, <2>1, <2>2, <1>1, <1>3, <1>4
    <3> QED
      BY <3>1, <3>2
  <2> QED
    BY <2>1, <2>2, <2>3, <1>4
<1> QED
  BY <1>5 DEF r, n

LEMMA RemoveAtExcept ==
    ASSUME NEW T, NEW q \in Seq(T), NEW k \in 1..Len(q), NEW x \in T
    PROVE  RemoveAt([q EXCEPT ![k] = x], k) = RemoveAt(q, k)
<1> PICK r : r = [q EXCEPT ![k] = x]
  OBVIOUS
<1>1. Len(q) \in Nat
  BY LenProperties
<1>2. /\ r \in Seq(T) /\ Len(r) = Len(q)
      /\ \A j \in 1..Len(q) : r[j] = IF j = k THEN x ELSE q[j]
  BY <1>1, ExceptSeq
<1> PICK a : a = RemoveAt(r, k)
  OBVIOUS
<1> PICK b : b = RemoveAt(q, k)
  OBVIOUS
<1>3. /\ a \in Seq(T) /\ Len(a) = Len(q) - 1
      /\ \A j \in 1..(Len(q) - 1) : a[j] = IF j < k THEN r[j] ELSE r[j + 1]
  <2>1. k \in 1..Len(r) /\ r \in Seq(T)
    BY <1>2
  <2>2. /\ a \in Seq(T) /\ Len(a) = Len(r) - 1
        /\ \A j \in 1..(Len(r) - 1) : a[j] = IF j < k THEN r[j] ELSE r[j + 1]
    BY ONLY <2>1, a = RemoveAt(r, k), RemoveAtIs
  <2> QED
    BY ONLY <2>2, <1>2
<1>4. /\ b \in Seq(T) /\ Len(b) = Len(q) - 1
      /\ \A j \in 1..(Len(q) - 1) : b[j] = IF j < k THEN q[j] ELSE q[j + 1]
  BY RemoveAtIs
<1>5. ASSUME NEW j \in 1..(Len(q) - 1) PROVE a[j] = b[j]
  <2>1. CASE j < k
    <3>1. j \in 1..Len(q) /\ j # k
      BY <1>1, <2>1
    <3> QED
      BY <2>1, <3>1, <1>2, <1>3, <1>4
  <2>2. CASE ~(j < k)
    <3>1. j + 1 \in 1..Len(q) /\ j + 1 # k
      BY <1>1, <2>2
    <3> QED
      BY <2>2, <3>1, <1>2, <1>3, <1>4
  <2> QED
    BY <2>1, <2>2
<1>6. a = b
  BY <1>3, <1>4, <1>5, SeqEqual
<1> QED
  BY <1>6

LEMMA RemoveAtHas ==
    ASSUME NEW T, NEW q \in Seq(T), NEW k \in 1..Len(q), NEW S
    PROVE  /\ RemoveAt(q, k) \in Seq(T)
           /\ Some(RemoveAt(q, k), S) => Some(q, S)
           /\ Sole(q, S) => Sole(RemoveAt(q, k), S)
           /\ Sole(q, S) /\ q[k] \in S => ~Some(RemoveAt(q, k), S)
           /\ q[k] \notin S => (Some(RemoveAt(q, k), S) <=> Some(q, S))
<1> DEFINE r == RemoveAt(q, k)
           n == Len(q)
<1>1. n \in Nat /\ k \in Nat /\ 1 <= k /\ k <= n /\ \A j \in 1..n : q[j] \in T
  BY LenProperties, ElementOfSeq
<1>5. /\ r \in Seq(T) /\ Len(r) = n - 1
      /\ \A j \in 1..(n - 1) : r[j] = IF j < k THEN q[j] ELSE q[j + 1]
  BY RemoveAtIs
<1> HIDE DEF r, n
<1> DEFINE old(j) == IF j < k THEN j ELSE j + 1
<1>6. /\ \A j \in 1..(n - 1) : old(j) \in 1..n /\ old(j) # k /\ r[j] = q[old(j)]
      /\ \A i, j \in 1..(n - 1) : old(i) = old(j) => i = j
      /\ \A j \in 1..n : j = k \/ \E i \in 1..(n - 1) : old(i) = j
  <2>1. \A j \in 1..(n - 1) : old(j) \in 1..n /\ old(j) # k
    BY <1>1
  <2>2. \A j \in 1..(n - 1) : r[j] = q[old(j)]
    BY <1>5
  <2>3. \A i, j \in 1..(n - 1) : old(i) = old(j) => i = j
    BY <1>1
  <2>4. ASSUME NEW j \in 1..n, j # k PROVE \E i \in 1..(n - 1) : old(i) = j
    <3>1. CASE j < k
      <4>1. j \in 1..(n - 1) /\ old(j) = j
        BY <3>1, <1>1
      <4> QED
        BY <4>1
    <3>2. CASE j > k
      <4>1. j - 1 \in 1..(n - 1) /\ old(j - 1) = j
        BY <3>2, <1>1
      <4> QED
        BY <4>1
    <3> QED
      BY <3>1, <3>2, <2>4, <1>1
  <2> QED
    BY <2>1, <2>2, <2>3, <2>4
<1> HIDE DEF old
<1>7. Some(r, S) => Some(q, S)
  BY <1>5, <1>6 DEF Some, n
<1>8. ASSUME Sole(q, S) PROVE Sole(r, S)
  <2>1. \A i, j \in 1..n : q[i] \in S /\ q[j] \in S => i = j
    BY <1>8 DEF Sole, n
  <2>2. ASSUME NEW i \in 1..(n - 1), NEW j \in 1..(n - 1), r[i] \in S, r[j] \in S
        PROVE  i = j
    <3>1. old(i) \in 1..n /\ old(j) \in 1..n /\ q[old(i)] \in S /\ q[old(j)] \in S
      BY <1>6, <2>2
    <3>2. old(i) = old(j)
      BY <2>1, <3>1
    <3> QED
      BY <1>6, <3>2
  <2> QED
    BY <1>5, <2>2 DEF Sole
<1>9. ASSUME Sole(q, S), q[k] \in S PROVE ~Some(r, S)
  <2>1. k \in 1..n
    BY <1>1
  <2> QED
    BY <1>9, <2>1, <1>5, <1>6 DEF Some, Sole, n
<1>10. ASSUME q[k] \notin S, Some(q, S) PROVE Some(r, S)
  <2>1. PICK j \in 1..n : q[j] \in S
    BY <1>10 DEF Some, n
  <2>2. PICK i \in 1..(n - 1) : old(i) = j
    BY <2>1, <1>6, <1>10
  <2> QED
    BY <2>1, <2>2, <1>5, <1>6 DEF Some
<1> QED
  BY <1>5, <1>7, <1>8, <1>9, <1>10 DEF r

----------------------------------------------------------------------------
(* Types                                                                   *)

Kinds == {"none", "CONNECT", "PINGREQ", "DISCONNECT", "PUBACK", "PUB0", "PUB1",
          "DUP"}
Packets == [kind : Kinds, n : Nat]
Commands ==
    {SHUT} \union {Cmd(v, i) : v \in {"CIPSTART", "CIPCLOSE"}, i \in Clients}
           \union {SendCmd(i, p) : i \in Clients, p \in Packets}
Repeated == {CONNECT} \union {Packet("PUB1", n) : n \in Nat}
Messages ==
    {e \in {"DISCONNECT", "MQTT_DUP_IND", "MQTT_DUP_FAIL"} \X Clients \X Packets :
        e[1] = "MQTT_DUP_FAIL" => e[3] \in Repeated}
Entries ==
    [client : Clients, packet : Repeated, due : BOOLEAN, cnt : 1..DupCnt]
Results == {"no", "ok", "failed", "lost"}
Publishes == [client : Clients, told : Results]
Flags == [Clients -> BOOLEAN]

MqttRecord == [
    link : [Clients -> LinkStates], pending : Flags,
    buf : [Clients -> Seq(Packets)], cur : [Clients -> Packets],
    conning : Flags, up : Flags, session : Flags, discing : Flags,
    usertag : Flags, errcb : Flags, dropped : Flags,
    cnt : [Clients -> 0..ReconnMax], cyc : [Clients -> 0..CycleMax],
    treconn : Flags, tping : Flags, tdisc : Flags,
    tlist : Seq(Entries), msgs : Seq(Messages), cmds : Seq(Commands),
    ip : BOOLEAN, shuting : BOOLEAN, restart : BOOLEAN, wants : Flags,
    pubs : Seq(Publishes) ]

----------------------------------------------------------------------------
(* Where a publish is: in a buffer, in execution, among the packets to be  *)
(* retransmitted, or in the message that these have failed                 *)

Of(n) == {p \in Packets : p.kind \in {"PUB0", "PUB1"} /\ p.n = n}
DupOf(n) == {e \in Entries : e.packet \in Of(n)}
FailOf(n) == {e \in Messages : e[1] = "MQTT_DUP_FAIL" /\ e[3] \in Of(n)}

Here(b, c, i, n) == Some(b[i], Of(n)) \/ c[i] \in Of(n)
None(b, c, d, g, n) ==
    /\ \A i \in Clients : ~Here(b, c, i, n)
    /\ ~Some(d, DupOf(n)) /\ ~Some(g, FailOf(n))
One(b, c, d, g, n) ==
    /\ \A i \in Clients :
         /\ Sole(b[i], Of(n)) /\ ~(Some(b[i], Of(n)) /\ c[i] \in Of(n))
         /\ Here(b, c, i, n) => ~Some(d, DupOf(n)) /\ ~Some(g, FailOf(n))
         /\ \A j \in Clients : Here(b, c, i, n) /\ Here(b, c, j, n) => i = j
    /\ Sole(d, DupOf(n)) /\ Sole(g, FailOf(n))
    /\ ~(Some(d, DupOf(n)) /\ Some(g, FailOf(n)))

Untaught(r, n) == n \in 1..Len(r) /\ r[n].told \in {"no", "lost"}

(* A publish is in one place at the most, and in none when its result was  *)
(* told; that of p is in none, for p is on its way from one to another.    *)
Held(b, c, d, g, r, p) ==
    \A n \in Nat :
        /\ One(b, c, d, g, n)
        /\ None(b, c, d, g, n) \/ Untaught(r, n)
        /\ p \in Of(n) => None(b, c, d, g, n) /\ Untaught(r, n)

HeldTypes(b, c, d, g, r) ==
    /\ b \in [Clients -> Seq(Packets)] /\ c \in [Clients -> Packets]
    /\ d \in Seq(Entries) /\ g \in Seq(Messages) /\ r \in Seq(Publishes)

LEMMA PacketType ==
    /\ NoItem \in Packets /\ CONNECT \in Packets /\ PINGREQ \in Packets
    /\ DISCONNECT \in Packets /\ PUBACK \in Packets
    /\ \A k \in Kinds, n \in Nat :
         /\ Packet(k, n) \in Packets
         /\ Packet(k, n).kind = k /\ Packet(k, n).n = n
BY DEF NoItem, CONNECT, PINGREQ, DISCONNECT, PUBACK, Packet, Packets, Kinds

LEMMA NotOf ==
    /\ \A n : NoItem \notin Of(n) /\ CONNECT \notin Of(n) /\ PINGREQ \notin Of(n)
              /\ DISCONNECT \notin Of(n) /\ PUBACK \notin Of(n)
    /\ \A n, k : Packet("DUP", k) \notin Of(n)
    /\ \A p \in Packets : \A n : p \in Of(n) <=> p.kind \in {"PUB0", "PUB1"} /\ p.n = n
BY DEF NoItem, CONNECT, PINGREQ, DISCONNECT, PUBACK, Packet, Of

(* To hold a packet that is no publish is to hold none.                    *)
LEMMA HeldPlain ==
    ASSUME NEW b, NEW c, NEW d, NEW g, NEW r, NEW p, NEW o,
           Held(b, c, d, g, r, o), \A n \in Nat : p \notin Of(n)
    PROVE  Held(b, c, d, g, r, p)
BY DEF Held

LEMMA HeldDropCur ==
    ASSUME NEW b, NEW c, NEW d, NEW g, NEW r, HeldTypes(b, c, d, g, r),
           Held(b, c, d, g, r, NoItem), NEW i \in Clients
    PROVE  /\ HeldTypes(b, [c EXCEPT ![i] = NoItem], d, g, r)
           /\ Held(b, [c EXCEPT ![i] = NoItem], d, g, r, c[i])
<1> PICK e : e = [c EXCEPT ![i] = NoItem]
  OBVIOUS
<1>1. \A j \in Clients : e[j] = IF j = i THEN NoItem ELSE c[j]
  BY DEF HeldTypes
<1>2. HeldTypes(b, e, d, g, r)
  BY PacketType DEF HeldTypes
<1>3. ASSUME NEW n \in Nat
      PROVE  /\ One(b, e, d, g, n)
             /\ None(b, e, d, g, n) \/ Untaught(r, n)
             /\ c[i] \in Of(n) => None(b, e, d, g, n) /\ Untaught(r, n)
  <2>1. /\ One(b, c, d, g, n)
        /\ None(b, c, d, g, n) \/ Untaught(r, n)
    BY DEF Held
  <2>2. NoItem \notin Of(n)
    BY NotOf
  <2>3. \A j \in Clients : Here(b, e, j, n) => Here(b, c, j, n)
    BY <1>1, <2>2 DEF Here
  <2>4. One(b, e, d, g, n)
    BY <1>1, <2>1, <2>2, <2>3 DEF One
  <2>5. None(b, c, d, g, n) => None(b, e, d, g, n)
    BY <2>3 DEF None
  <2>6. ASSUME c[i] \in Of(n) PROVE None(b, e, d, g, n) /\ Untaught(r, n)
    <3>1. Here(b, c, i, n) /\ ~Here(b, e, i, n)
      BY <2>6, <2>1, <2>2, <1>1 DEF Here, One
    <3>2. \A j \in Clients : ~Here(b, e, j, n)
      BY <2>1, <2>3, <3>1 DEF One
    <3>3. ~Some(d, DupOf(n)) /\ ~Some(g, FailOf(n))
      BY <2>1, <3>1 DEF One
    <3> QED
      BY <2>1, <3>1, <3>2, <3>3 DEF None
  <2> QED
    BY <2>1, <2>4, <2>5, <2>6
<1> QED
  BY <1>2, <1>3 DEF Held

LEMMA HeldSetCur ==
    ASSUME NEW b, NEW c, NEW d, NEW g, NEW r, HeldTypes(b, c, d, g, r),
           NEW p \in Packets, Held(b, c, d, g, r, p), NEW i \in Clients, c[i] = NoItem
    PROVE  /\ HeldTypes(b, [c EXCEPT ![i] = p], d, g, r)
           /\ Held(b, [c EXCEPT ![i] = p], d, g, r, NoItem)
<1> PICK e : e = [c EXCEPT ![i] = p]
  OBVIOUS
<1>1. \A j \in Clients : e[j] = IF j = i THEN p ELSE c[j]
  BY DEF HeldTypes
<1>2. HeldTypes(b, e, d, g, r)
  BY PacketType DEF HeldTypes
<1>3. ASSUME NEW n \in Nat
      PROVE  /\ One(b, e, d, g, n)
             /\ None(b, e, d, g, n) \/ Untaught(r, n)
             /\ NoItem \notin Of(n)
  <2>1. /\ One(b, c, d, g, n)
        /\ None(b, c, d, g, n) \/ Untaught(r, n)
        /\ p \in Of(n) => None(b, c, d, g, n) /\ Untaught(r, n)
    BY DEF Held
  <2>2. NoItem \notin Of(n)
    BY NotOf
  <2>3. CASE p \notin Of(n)
    <3>1. \A j \in Clients : Here(b, e, j, n) <=> Here(b, c, j, n)
      BY <1>1, <2>2, <2>3 DEF Here
    <3>2. One(b, e, d, g, n)
      BY <1>1, <2>1, <2>3, <3>1 DEF One
    <3> QED
      BY <2>1, <2>2, <3>1, <3>2 DEF None
  <2>4. CASE p \in Of(n)
    <3>1. \A j \in Clients : Here(b, e, j, n) => j = i
      BY <1>1, <2>1, <2>4 DEF Here, None
    <3>2. One(b, e, d, g, n)
      BY <1>1, <2>1, <2>4, <3>1 DEF One, None, Here
    <3> QED
      BY <2>1, <2>2, <2>4, <3>2
  <2> QED
    BY <2>3, <2>4
<1> QED
  BY <1>2, <1>3 DEF Held

LEMMA HeldDropBuf ==
    ASSUME NEW b, NEW c, NEW d, NEW g, NEW r, HeldTypes(b, c, d, g, r),
           NEW p, Held(b, c, d, g, r, p), NEW i \in Clients
    PROVE  /\ HeldTypes([b EXCEPT ![i] = <<>>], c, d, g, r)
           /\ Held([b EXCEPT ![i] = <<>>], c, d, g, r, p)
<1> PICK e : e = [b EXCEPT ![i] = <<>>]
  OBVIOUS
<1>1. \A j \in Clients : e[j] = IF j = i THEN <<>> ELSE b[j]
  BY DEF HeldTypes
<1>2. HeldTypes(e, c, d, g, r)
  BY DEF HeldTypes
<1>3. ASSUME NEW n \in Nat
      PROVE  /\ One(e, c, d, g, n)
             /\ None(b, c, d, g, n) => None(e, c, d, g, n)
  <2>1. One(b, c, d, g, n)
    BY DEF Held
  <2>2. ~Some(<<>>, Of(n)) /\ Sole(<<>>, Of(n))
    BY EmptyHas
  <2>3. \A j \in Clients : Here(e, c, j, n) => Here(b, c, j, n)
    BY <1>1, <2>2 DEF Here
  <2>4. One(e, c, d, g, n)
    BY <1>1, <2>1, <2>2, <2>3 DEF One
  <2> QED
    BY <2>3, <2>4 DEF None
<1> QED
  BY <1>2, <1>3 DEF Held

LEMMA HeldAppend ==
    ASSUME NEW b, NEW c, NEW d, NEW g, NEW r, HeldTypes(b, c, d, g, r),
           NEW p \in Packets, Held(b, c, d, g, r, p), NEW i \in Clients
    PROVE  /\ HeldTypes([b EXCEPT ![i] = Append(@, p)], c, d, g, r)
           /\ Held([b EXCEPT ![i] = Append(@, p)], c, d, g, r, NoItem)
<1> PICK e : e = [b EXCEPT ![i] = Append(@, p)]
  OBVIOUS
<1>1. \A j \in Clients : e[j] = IF j = i THEN Append(b[j], p) ELSE b[j]
  BY DEF HeldTypes
<1>2. b[i] \in Seq(Packets) /\ Append(b[i], p) \in Seq(Packets)
  BY DEF HeldTypes
<1>3. HeldTypes(e, c, d, g, r)
  BY <1>2 DEF HeldTypes
<1>4. ASSUME NEW n \in Nat
      PROVE  /\ One(e, c, d, g, n)
             /\ None(e, c, d, g, n) \/ Untaught(r, n)
             /\ NoItem \notin Of(n)
  <2>1. /\ One(b, c, d, g, n)
        /\ None(b, c, d, g, n) \/ Untaught(r, n)
        /\ p \in Of(n) => None(b, c, d, g, n) /\ Untaught(r, n)
    BY DEF Held
  <2>2. NoItem \notin Of(n)
    BY NotOf
  <2>3. /\ Some(e[i], Of(n)) <=> Some(b[i], Of(n)) \/ p \in Of(n)
        /\ Sole(e[i], Of(n)) <=> Sole(b[i], Of(n)) /\ ~(Some(b[i], Of(n)) /\ p \in Of(n))
    BY <1>1, <1>2, AppendHas
  <2>4. CASE p \notin Of(n)
    <3>1. \A j \in Clients : /\ Some(e[j], Of(n)) <=> Some(b[j], Of(n))
                             /\ Sole(e[j], Of(n)) <=> Sole(b[j], Of(n))
      BY <1>1, <2>3, <2>4
    <3>2. \A j \in Clients : Here(e, c, j, n) <=> Here(b, c, j, n)
      BY <3>1 DEF Here
    <3>3. One(e, c, d, g, n)
      BY <2>1, <3>1, <3>2 DEF One
    <3> QED
      BY <2>1, <2>2, <3>2, <3>3 DEF None
  <2>5. CASE p \in Of(n)
    <3>1. \A j \in Clients : ~Some(b[j], Of(n)) /\ c[j] \notin Of(n)
      BY <2>1, <2>5 DEF None, Here
    <3>2. \A j \in Clients : Here(e, c, j, n) => j = i
      BY <1>1, <3>1 DEF Here
    <3>3. \A j \in Clients : Sole(e[j], Of(n))
      BY <1>1, <2>1, <2>3, <3>1 DEF One
    <3>4. One(e, c, d, g, n)
      BY <2>1, <2>5, <3>1, <3>2, <3>3 DEF One, None
    <3> QED
      BY <2>1, <2>2, <2>5, <3>4
  <2> QED
    BY <2>4, <2>5
<1> QED
  BY <1>3, <1>4 DEF Held

(* The oldest packet of the buffer is taken out of it.                     *)
LEMMA HeldTakeBuf ==
    ASSUME NEW b, NEW c, NEW d, NEW g, NEW r, HeldTypes(b, c, d, g, r),
           Held(b, c, d, g, r, NoItem), NEW i \in Clients, b[i] # <<>>
    PROVE  /\ HeldTypes([b EXCEPT ![i] = Tail(@)], c, d, g, r)
           /\ Head(b[i]) \in Packets
           /\ Held([b EXCEPT ![i] = Tail(@)], c, d, g, r, Head(b[i]))
<1> PICK e : e = [b EXCEPT ![i] = Tail(@)]
  OBVIOUS
<1> PICK p : p = Head(b[i])
  OBVIOUS
<1>1. \A j \in Clients : e[j] = IF j = i THEN Tail(b[j]) ELSE b[j]
  BY DEF HeldTypes
<1>2. b[i] \in Seq(Packets)
  BY DEF HeldTypes
<1>3. Tail(b[i]) \in Seq(Packets) /\ p \in Packets
  BY <1>2, TailFacts
<1>4. HeldTypes(e, c, d, g, r)
  BY <1>3 DEF HeldTypes
<1>5. ASSUME NEW n \in Nat
      PROVE  /\ One(e, c, d, g, n)
             /\ None(e, c, d, g, n) \/ Untaught(r, n)
             /\ p \in Of(n) => None(e, c, d, g, n) /\ Untaught(r, n)
  <2>1. One(b, c, d, g, n) /\ (None(b, c, d, g, n) \/ Untaught(r, n))
    BY DEF Held
  <2>2. /\ Some(b[i], Of(n)) <=> Some(e[i], Of(n)) \/ p \in Of(n)
        /\ Sole(b[i], Of(n)) <=> Sole(e[i], Of(n)) /\ ~(Some(e[i], Of(n)) /\ p \in Of(n))
    BY <1>1, <1>2, TailHas
  <2>3. \A j \in Clients : Here(e, c, j, n) => Here(b, c, j, n)
    BY <1>1, <2>2 DEF Here
  <2>4. One(e, c, d, g, n)
    BY <1>1, <2>1, <2>2, <2>3 DEF One
  <2>5. None(b, c, d, g, n) => None(e, c, d, g, n)
    BY <2>3 DEF None
  <2>6. ASSUME p \in Of(n) PROVE None(e, c, d, g, n) /\ Untaught(r, n)
    <3>1. Here(b, c, i, n) /\ ~Here(e, c, i, n)
      BY <2>6, <2>1, <2>2 DEF Here, One
    <3>2. \A j \in Clients : ~Here(e, c, j, n)
      BY <2>1, <2>3, <3>1 DEF One
    <3>3. ~Some(d, DupOf(n)) /\ ~Some(g, FailOf(n))
      BY <2>1, <3>1 DEF One
    <3> QED
      BY <2>1, <3>1, <3>2, <3>3 DEF None
  <2> QED
    BY <2>1, <2>4, <2>5, <2>6
<1> QED
  BY <1>3, <1>4, <1>5 DEF Held

LEMMA HeldInsert ==
    ASSUME NEW b, NEW c, NEW d, NEW g, NEW r, HeldTypes(b, c, d, g, r),
           NEW e \in Entries, Held(b, c, d, g, r, e.packet)
    PROVE  /\ HeldTypes(b, c, Append(d, e), g, r)
           /\ Held(b, c, Append(d, e), g, r, NoItem)
<1> PICK f : f = Append(d, e)
  OBVIOUS
<1>1. d \in Seq(Entries)
  BY DEF HeldTypes
<1>2. HeldTypes(b, c, f, g, r)
  BY <1>1, AppendProperties DEF HeldTypes
<1>3. ASSUME NEW n \in Nat
      PROVE  /\ One(b, c, f, g, n)
             /\ None(b, c, f, g, n) \/ Untaught(r, n)
             /\ NoItem \notin Of(n)
  <2>1. /\ One(b, c, d, g, n)
        /\ None(b, c, d, g, n) \/ Untaught(r, n)
        /\ e.packet \in Of(n) => None(b, c, d, g, n) /\ Untaught(r, n)
    BY DEF Held
  <2>2. NoItem \notin Of(n)
    BY NotOf
  <2>3. e.packet \in Of(n) <=> e \in DupOf(n)
    BY DEF DupOf
  <2>4. /\ Some(f, DupOf(n)) <=> Some(d, DupOf(n)) \/ e \in DupOf(n)
        /\ Sole(f, DupOf(n)) <=> Sole(d, DupOf(n)) /\ ~(Some(d, DupOf(n)) /\ e \in DupOf(n))
    BY <1>1, AppendHas
  <2>5. CASE e \notin DupOf(n)
    BY <2>1, <2>2, <2>4, <2>5 DEF One, None
  <2>6. CASE e \in DupOf(n)
    BY <2>1, <2>2, <2>3, <2>4, <2>6 DEF One, None
  <2> QED
    BY <2>5, <2>6
<1> QED
  BY <1>2, <1>3 DEF Held

LEMMA HeldRemove ==
    ASSUME NEW b, NEW c, NEW d, NEW g, NEW r, HeldTypes(b, c, d, g, r),
           Held(b, c, d, g, r, NoItem), NEW k \in 1..Len(d)
    PROVE  /\ HeldTypes(b, c, RemoveAt(d, k), g, r) /\ d[k] \in Entries
           /\ Held(b, c, RemoveAt(d, k), g, r, d[k].packet)
<1> PICK f : f = RemoveAt(d, k)
  OBVIOUS
<1>1. d \in Seq(Entries)
  BY DEF HeldTypes
<1>2. HeldTypes(b, c, f, g, r)
  BY <1>1, RemoveAtHas DEF HeldTypes
<1>3. d[k] \in Entries
  BY <1>1, ElementOfSeq
<1>4. ASSUME NEW n \in Nat
      PROVE  /\ One(b, c, f, g, n)
             /\ None(b, c, f, g, n) \/ Untaught(r, n)
             /\ d[k].packet \in Of(n) => None(b, c, f, g, n) /\ Untaught(r, n)
  <2>1. One(b, c, d, g, n) /\ (None(b, c, d, g, n) \/ Untaught(r, n))
    BY DEF Held
  <2>2. d[k].packet \in Of(n) <=> d[k] \in DupOf(n)
    BY <1>3 DEF DupOf
  <2>3. /\ Some(f, DupOf(n)) => Some(d, DupOf(n))
        /\ Sole(d, DupOf(n)) => Sole(f, DupOf(n))
        /\ Sole(d, DupOf(n)) /\ d[k] \in DupOf(n) => ~Some(f, DupOf(n))
    BY <1>1, RemoveAtHas
  <2>4. One(b, c, f, g, n) /\ (None(b, c, d, g, n) => None(b, c, f, g, n))
    BY <2>1, <2>3 DEF One, None
  <2>5. ASSUME d[k] \in DupOf(n) PROVE None(b, c, f, g, n) /\ Untaught(r, n)
    <3>1. Some(d, DupOf(n))
      BY <2>5 DEF Some
    <3> QED
      BY <2>1, <2>3, <2>5, <3>1 DEF One, None
  <2> QED
    BY <2>1, <2>2, <2>4, <2>5
<1> QED
  BY <1>2, <1>3, <1>4 DEF Held

LEMMA HeldClear ==
    ASSUME NEW b, NEW c, NEW d, NEW g, NEW r, HeldTypes(b, c, d, g, r),
           NEW p, Held(b, c, d, g, r, p)
    PROVE  HeldTypes(b, c, <<>>, g, r) /\ Held(b, c, <<>>, g, r, p)
<1>1. HeldTypes(b, c, <<>>, g, r)
  BY DEF HeldTypes
<1>2. ASSUME NEW n \in Nat
      PROVE  /\ One(b, c, <<>>, g, n)
             /\ None(b, c, d, g, n) => None(b, c, <<>>, g, n)
  BY EmptyHas DEF Held, One, None
<1> QED
  BY <1>1, <1>2 DEF Held

(* An entry is changed, but not its packet.                                *)
LEMMA HeldUpdate ==
    ASSUME NEW b, NEW c, NEW d, NEW g, NEW r, HeldTypes(b, c, d, g, r),
           NEW p, Held(b, c, d, g, r, p), NEW k \in 1..Len(d), NEW e \in Entries,
           e.packet = d[k].packet
    PROVE  /\ HeldTypes(b, c, [d EXCEPT ![k] = e], g, r)
           /\ Held(b, c, [d EXCEPT ![k] = e], g, r, p)
<1> PICK f : f = [d EXCEPT ![k] = e]
  OBVIOUS
<1>1. d \in Seq(Entries) /\ Len(d) \in Nat
  BY LenProperties DEF HeldTypes
<1>2. /\ f \in Seq(Entries) /\ Len(f) = Len(d)
      /\ \A j \in 1..Len(d) : f[j] = IF j = k THEN e ELSE d[j]
  BY <1>1, ExceptSeq
<1>3. HeldTypes(b, c, f, g, r)
  BY <1>2 DEF HeldTypes
<1>4. ASSUME NEW n \in Nat
      PROVE  /\ One(b, c, f, g, n) <=> One(b, c, d, g, n)
             /\ None(b, c, f, g, n) <=> None(b, c, d, g, n)
  <2>1. \A j \in 1..Len(d) : d[j] \in Entries
    BY <1>1, ElementOfSeq
  <2>2. \A j \in 1..Len(d) : f[j] \in DupOf(n) <=> d[j] \in DupOf(n)
    BY <1>2, <2>1 DEF DupOf
  <2>3. /\ Some(f, DupOf(n)) <=> Some(d, DupOf(n))
        /\ Sole(f, DupOf(n)) <=> Sole(d, DupOf(n))
    BY <1>2, <2>2 DEF Some, Sole
  <2> QED
    BY <2>3 DEF One, None
<1> QED
  BY <1>3, <1>4 DEF Held

LEMMA FailIs ==
    ASSUME NEW i \in Clients, NEW p \in Repeated
    PROVE  p \in Packets /\ <<"MQTT_DUP_FAIL", i, p>> \in Messages
<1>1. p \in Packets
  BY PacketType DEF Repeated, Kinds
<1> QED
  BY <1>1 DEF Messages

(* A message of something else *)
LEMMA HeldSay ==
    ASSUME NEW b, NEW c, NEW d, NEW g, NEW r, HeldTypes(b, c, d, g, r),
           NEW p, Held(b, c, d, g, r, p), NEW e \in Messages,
           \A n \in Nat : e \notin FailOf(n)
    PROVE  HeldTypes(b, c, d, Append(g, e), r) /\ Held(b, c, d, Append(g, e), r, p)
<1> PICK f : f = Append(g, e)
  OBVIOUS
<1>1. g \in Seq(Messages)
  BY DEF HeldTypes
<1>2. HeldTypes(b, c, d, f, r)
  BY <1>1, AppendProperties DEF HeldTypes
<1>3. ASSUME NEW n \in Nat
      PROVE  /\ One(b, c, d, f, n) <=> One(b, c, d, g, n)
             /\ None(b, c, d, f, n) <=> None(b, c, d, g, n)
  <2>1. /\ Some(f, FailOf(n)) <=> Some(g, FailOf(n))
        /\ Sole(f, FailOf(n)) <=> Sole(g, FailOf(n))
    BY <1>1, AppendHas
  <2> QED
    BY <2>1 DEF One, None
<1> QED
  BY <1>2, <1>3 DEF Held

(* ... and that a publish has failed *)
LEMMA HeldSayFail ==
    ASSUME NEW b, NEW c, NEW d, NEW g, NEW r, HeldTypes(b, c, d, g, r),
           NEW i \in Clients, NEW p \in Repeated, Held(b, c, d, g, r, p)
    PROVE  LET f == Append(g, <<"MQTT_DUP_FAIL", i, p>>)
           IN  HeldTypes(b, c, d, f, r) /\ Held(b, c, d, f, r, NoItem)
<1> PICK e : e = <<"MQTT_DUP_FAIL", i, p>>
  OBVIOUS
<1> PICK f : f = Append(g, e)
  OBVIOUS
<1>1. g \in Seq(Messages) /\ e \in Messages
  BY FailIs DEF HeldTypes
<1>2. HeldTypes(b, c, d, f, r)
  BY <1>1, AppendProperties DEF HeldTypes
<1>3. ASSUME NEW n \in Nat
      PROVE  /\ One(b, c, d, f, n)
             /\ None(b, c, d, f, n) \/ Untaught(r, n)
             /\ NoItem \notin Of(n)
  <2>1. /\ One(b, c, d, g, n)
        /\ None(b, c, d, g, n) \/ Untaught(r, n)
        /\ p \in Of(n) => None(b, c, d, g, n) /\ Untaught(r, n)
    BY DEF Held
  <2>2. NoItem \notin Of(n)
    BY NotOf
  <2>3. p \in Of(n) <=> e \in FailOf(n)
    BY <1>1 DEF FailOf
  <2>4. /\ Some(f, FailOf(n)) <=> Some(g, FailOf(n)) \/ e \in FailOf(n)
        /\ Sole(f, FailOf(n)) <=> Sole(g, FailOf(n)) /\ ~(Some(g, FailOf(n)) /\ e \in FailOf(n))
    BY <1>1, AppendHas
  <2>5. CASE e \notin FailOf(n)
    BY <2>1, <2>2, <2>4, <2>5 DEF One, None
  <2>6. CASE e \in FailOf(n)
    BY <2>1, <2>2, <2>3, <2>4, <2>6 DEF One, None
  <2> QED
    BY <2>5, <2>6
<1> QED
  BY <1>2, <1>3 DEF Held

(* A message is taken.                                                     *)
LEMMA HeldHear ==
    ASSUME NEW b, NEW c, NEW d, NEW g, NEW r, HeldTypes(b, c, d, g, r),
           Held(b, c, d, g, r, NoItem), g # <<>>
    PROVE  /\ HeldTypes(b, c, d, Tail(g), r) /\ Head(g) \in Messages
           /\ Held(b, c, d, Tail(g), r, NoItem)
           /\ Head(g)[1] = "MQTT_DUP_FAIL" => Held(b, c, d, Tail(g), r, Head(g)[3])
<1> PICK f : f = Tail(g)
  OBVIOUS
<1> PICK e : e = Head(g)
  OBVIOUS
<1>1. g \in Seq(Messages)
  BY DEF HeldTypes
<1>2. f \in Seq(Messages) /\ e \in Messages
  BY <1>1, TailFacts
<1>3. HeldTypes(b, c, d, f, r)
  BY <1>2 DEF HeldTypes
<1>4. ASSUME NEW n \in Nat
      PROVE  /\ One(b, c, d, f, n)
             /\ None(b, c, d, f, n) \/ Untaught(r, n)
             /\ NoItem \notin Of(n)
             /\ e \in FailOf(n) => None(b, c, d, f, n) /\ Untaught(r, n)
  <2>1. /\ One(b, c, d, g, n)
        /\ None(b, c, d, g, n) \/ Untaught(r, n)
    BY DEF Held
  <2>2. NoItem \notin Of(n)
    BY NotOf
  <2>3. /\ Some(g, FailOf(n)) <=> Some(f, FailOf(n)) \/ e \in FailOf(n)
        /\ Sole(g, FailOf(n)) <=> Sole(f, FailOf(n)) /\ ~(Some(f, FailOf(n)) /\ e \in FailOf(n))
    BY <1>1, TailHas
  <2> QED
    BY <2>1, <2>2, <2>3 DEF One, None
<1>5. ASSUME e[1] = "MQTT_DUP_FAIL" PROVE Held(b, c, d, f, r, e[3])
  <2>1. \A n \in Nat : e[3] \in Of(n) => e \in FailOf(n)
    BY <1>2, <1>5 DEF FailOf
  <2> QED
    BY <1>4, <2>1 DEF Held
<1> QED
  BY <1>2, <1>3, <1>4, <1>5 DEF Held

LEMMA HeldTell ==
    ASSUME NEW b, NEW c, NEW d, NEW g, NEW r, HeldTypes(b, c, d, g, r),
           NEW p \in Packets, p.kind \in {"PUB0", "PUB1"}, Held(b, c, d, g, r, p),
           NEW v \in {"ok", "failed"}
    PROVE  LET s == [r EXCEPT ![p.n].told = v]
           IN  HeldTypes(b, c, d, g, s) /\ Held(b, c, d, g, s, NoItem)
<1> PICK s : s = [r EXCEPT ![p.n].told = v]
  OBVIOUS
<1>1. r \in Seq(Publishes) /\ p.n \in Nat
  BY DEF HeldTypes, Packets
<1>2. p.n \in 1..Len(r) /\ \A n \in Nat : p \in Of(n) <=> n = p.n
  BY <1>1 DEF Held, Of, Untaught
<1>3. r[p.n] \in Publishes
  BY <1>1, <1>2, ElementOfSeq
<1> PICK x : x = [r[p.n] EXCEPT !.told = v]
  OBVIOUS
<1>4. x \in Publishes /\ s = [r EXCEPT ![p.n] = x]
  BY <1>3 DEF Publishes, Results
<1>5. /\ s \in Seq(Publishes) /\ Len(s) = Len(r)
      /\ \A n \in 1..Len(r) : n # p.n => s[n] = r[n]
  BY <1>1, <1>2, <1>4, ExceptSeq
<1>6. HeldTypes(b, c, d, g, s)
  BY <1>5 DEF HeldTypes
<1>7. ASSUME NEW n \in Nat
      PROVE  /\ One(b, c, d, g, n)
             /\ None(b, c, d, g, n) \/ Untaught(s, n)
             /\ NoItem \notin Of(n)
  <2>1. /\ One(b, c, d, g, n)
        /\ None(b, c, d, g, n) \/ Untaught(r, n)
        /\ p \in Of(n) => None(b, c, d, g, n) /\ Untaught(r, n)
    BY DEF Held
  <2> QED
    BY <2>1, <1>2, <1>5, NotOf DEF Untaught
<1> QED
  BY <1>6, <1>7 DEF Held

(* What is lost was not told before.                                       *)
LEMMA HeldLose ==
    ASSUME NEW b, NEW c, NEW d, NEW g, NEW r, HeldTypes(b, c, d, g, r),
           NEW p, Held(b, c, d, g, r, p), NEW i \in Clients
    PROVE  LET s == [n \in DOMAIN r |->
                        IF r[n].client = i /\ r[n].told = "no"
                        THEN [r[n] EXCEPT !.told = "lost"] ELSE r[n]]
           IN  HeldTypes(b, c, d, g, s) /\ Held(b, c, d, g, s, p)
<1> PICK s : s = [n \in DOMAIN r |->
                    IF r[n].client = i /\ r[n].told = "no"
                    THEN [r[n] EXCEPT !.told = "lost"] ELSE r[n]]
  OBVIOUS
<1>1. r \in Seq(Publishes) /\ Len(r) \in Nat /\ DOMAIN r = 1..Len(r)
  BY LenProperties DEF HeldTypes
<1>2. ASSUME NEW n \in 1..Len(r)
      PROVE  /\ s[n] \in Publishes
             /\ r[n].told \in {"no", "lost"} => s[n].told \in {"no", "lost"}
  <2>1. r[n] \in Publishes
    BY <1>1, ElementOfSeq
  <2>2. s[n] = IF r[n].client = i /\ r[n].told = "no"
               THEN [r[n] EXCEPT !.told = "lost"] ELSE r[n]
    BY <1>1
  <2>3. /\ [r[n] EXCEPT !.told = "lost"] \in Publishes
        /\ [r[n] EXCEPT !.told = "lost"].told = "lost"
    BY <2>1 DEF Publishes, Results
  <2> QED
    BY <2>1, <2>2, <2>3
<1>3. s \in Seq(Publishes) /\ Len(s) = Len(r)
  <2>1. s \in [1..Len(r) -> Publishes]
    BY <1>1, <1>2
  <2> QED
    BY <2>1, <1>1, IsASeq
<1>4. HeldTypes(b, c, d, g, s)
  BY <1>3 DEF HeldTypes
<1>5. \A n \in Nat : Untaught(r, n) => Untaught(s, n)
  BY <1>2, <1>3 DEF Untaught
<1> QED
  BY <1>4, <1>5 DEF Held

LEMMA HeldPublish ==
    ASSUME NEW b, NEW c, NEW d, NEW g, NEW r, HeldTypes(b, c, d, g, r),
           Held(b, c, d, g, r, NoItem), NEW i \in Clients, NEW k \in {"PUB0", "PUB1"}
    PROVE  LET s == Append(r, [client |-> i, told |-> "no"])
               p == Packet(k, Len(r) + 1)
           IN  HeldTypes(b, c, d, g, s) /\ p \in Packets /\ Held(b, c, d, g, s, p)
<1> PICK x : x = [client |-> i, told |-> "no"]
  OBVIOUS
<1> PICK s : s = Append(r, x)
  OBVIOUS
<1> PICK p : p = Packet(k, Len(r) + 1)
  OBVIOUS
<1>1. r \in Seq(Publishes) /\ Len(r) \in Nat /\ x \in Publishes /\ x.told = "no"
  BY LenProperties DEF HeldTypes, Publishes, Results
<1>2. /\ s \in Seq(Publishes) /\ Len(s) = Len(r) + 1 /\ s[Len(r) + 1] = x
      /\ \A n \in 1..Len(r) : s[n] = r[n]
  BY <1>1, AppendProperties
<1>3. /\ p \in Packets
      /\ \A n \in Nat : p \in Of(n) => n = Len(r) + 1
  BY <1>1 DEF Of, Packet, Packets, Kinds
<1>4. HeldTypes(b, c, d, g, s)
  BY <1>2 DEF HeldTypes
<1>5. ASSUME NEW n \in Nat
      PROVE  /\ One(b, c, d, g, n)
             /\ None(b, c, d, g, n) \/ Untaught(s, n)
             /\ p \in Of(n) => None(b, c, d, g, n) /\ Untaught(s, n)
  <2>1. /\ One(b, c, d, g, n)
        /\ None(b, c, d, g, n) \/ Untaught(r, n)
    BY DEF Held
  <2>2. Untaught(r, n) => Untaught(s, n)
    BY <1>1, <1>2 DEF Untaught
  <2>3. ASSUME n = Len(r) + 1 PROVE ~Untaught(r, n) /\ Untaught(s, n)
    BY <2>3, <1>1, <1>2 DEF Untaught
  <2> QED
    BY <1>3, <2>1, <2>2, <2>3
<1> QED
  BY <1>3, <1>4, <1>5 DEF Held

----------------------------------------------------------------------------
(* The record                                                              *)

Fields == {"link", "pending", "buf", "cur", "conning", "up", "session",
           "discing", "usertag", "errcb", "cnt", "cyc", "treconn", "tping",
           "tdisc", "tlist", "msgs", "cmds", "ip", "shuting", "restart",
           "wants", "dropped", "pubs"}

SameBut(t, u, F) == \A f \in Fields \ F : u[f] = t[f]

LEMMA RecordFields ==
    ASSUME NEW t \in MqttRecord
    PROVE  DOMAIN t = Fields /\ t = [f \in Fields |-> t[f]]
BY DEF MqttRecord, Fields

LEMMA SameTrans ==
    ASSUME NEW t, NEW u, NEW v, NEW F, NEW G, SameBut(t, u, F), SameBut(u, v, G)
    PROVE  SameBut(t, v, F \union G)
BY DEF SameBut

(* A record whose fields are of their types is one of MqttRecord.          *)
LEMMA RecordFrom ==
    ASSUME NEW u, DOMAIN u = Fields, u = [f \in Fields |-> u[f]],
           u.link \in [Clients -> LinkStates], u.pending \in Flags,
           u.buf \in [Clients -> Seq(Packets)], u.cur \in [Clients -> Packets],
           u.conning \in Flags, u.up \in Flags, u.session \in Flags,
           u.discing \in Flags, u.usertag \in Flags, u.errcb \in Flags,
           u.cnt \in [Clients -> 0..ReconnMax], u.cyc \in [Clients -> 0..CycleMax],
           u.treconn \in Flags, u.tping \in Flags, u.tdisc \in Flags,
           u.tlist \in Seq(Entries), u.msgs \in Seq(Messages),
           u.cmds \in Seq(Commands), u.ip \in BOOLEAN, u.shuting \in BOOLEAN,
           u.restart \in BOOLEAN, u.wants \in Flags, u.dropped \in Flags,
           u.pubs \in Seq(Publishes)
    PROVE  u \in MqttRecord
BY DEF MqttRecord, Fields

LEMMA ReqIs ==
    ASSUME NEW t \in MqttRecord, NEW c \in Commands, NEW u, u = Req(t, c)
    PROVE  /\ u \in MqttRecord /\ SameBut(t, u, {"cmds"})
           /\ u.cmds = Append(t.cmds, c)
<1>1. t.cmds \in Seq(Commands)
  BY DEF MqttRecord
<1>2. Append(t.cmds, c) \in Seq(Commands)
  BY <1>1
<1>3. u = [t EXCEPT !.cmds = Append(t.cmds, c)]
  BY DEF Req
<1>4. u \in MqttRecord
  BY ONLY <1>2, <1>3, t \in MqttRecord DEF MqttRecord
<1>5. SameBut(t, u, {"cmds"}) /\ u.cmds = Append(t.cmds, c)
  BY ONLY <1>3, RecordFields, t \in MqttRecord DEF SameBut, Fields
<1> QED
  BY <1>4, <1>5

LEMMA CommandType ==
    /\ SHUT \in Commands
    /\ \A i \in Clients : /\ Cmd("CIPSTART", i) \in Commands
                          /\ Cmd("CIPCLOSE", i) \in Commands
                          /\ \A p \in Packets : SendCmd(i, p) \in Commands
BY DEF Commands

LEMMA ShutIs ==
    ASSUME NEW t \in MqttRecord, NEW u, u = Shut(t)
    PROVE  /\ u \in MqttRecord /\ SameBut(t, u, {"cmds", "shuting"})
           /\ u.cmds = Append(t.cmds, SHUT) /\ u.shuting = TRUE
<1> PICK v : v = Req(t, SHUT)
  OBVIOUS
<1>1. /\ v \in MqttRecord /\ SameBut(t, v, {"cmds"})
      /\ v.cmds = Append(t.cmds, SHUT)
  BY ReqIs, CommandType
<1>2. u = [v EXCEPT !.shuting = TRUE]
  BY DEF Shut
<1>3. u \in MqttRecord
  BY ONLY <1>1, <1>2 DEF MqttRecord
<1>4. SameBut(t, u, {"cmds", "shuting"}) /\ u.cmds = v.cmds /\ u.shuting = TRUE
  BY ONLY <1>1, <1>2, RecordFields DEF SameBut, Fields
<1> QED
  BY <1>1, <1>3, <1>4

LEMMA LinkConnectIs ==
    ASSUME NEW t \in MqttRecord, NEW i \in Clients, NEW u, u = LinkConnect(t, i)
    PROVE  /\ u \in MqttRecord /\ SameBut(t, u, {"link", "pending", "cmds"})
           /\ u.link = [t.link EXCEPT ![i] = "CONNECTING"]
           /\ t.ip /\ ~t.shuting =>
                /\ u.pending = t.pending
                /\ u.cmds = Append(t.cmds, Cmd("CIPSTART", i))
           /\ ~(t.ip /\ ~t.shuting) =>
                /\ u.pending = [t.pending EXCEPT ![i] = TRUE]
                /\ u.cmds = t.cmds
<1> PICK v : v = [t EXCEPT !.link[i] = "CONNECTING"]
  OBVIOUS
<1>1. v \in MqttRecord
  BY ONLY t \in MqttRecord, i \in Clients, v = [t EXCEPT !.link[i] = "CONNECTING"]
     DEF MqttRecord, LinkStates
<1>2. SameBut(t, v, {"link"}) /\ v.link = [t.link EXCEPT ![i] = "CONNECTING"]
  BY ONLY t \in MqttRecord, v = [t EXCEPT !.link[i] = "CONNECTING"], RecordFields
     DEF SameBut, Fields
<1>3. CASE t.ip /\ ~t.shuting
  <2>1. u = Req(v, Cmd("CIPSTART", i))
    BY <1>3 DEF LinkConnect
  <2>2. /\ u \in MqttRecord /\ SameBut(v, u, {"cmds"})
        /\ u.cmds = Append(v.cmds, Cmd("CIPSTART", i))
    BY <2>1, <1>1, ReqIs, CommandType
  <2> QED
    BY <1>2, <1>3, <2>2 DEF SameBut, Fields
<1>4. CASE ~(t.ip /\ ~t.shuting)
  <2>1. u = [v EXCEPT !.pending[i] = TRUE]
    BY <1>4 DEF LinkConnect
  <2>2. u \in MqttRecord
    BY ONLY <1>1, <2>1, i \in Clients DEF MqttRecord, Flags
  <2>3. SameBut(v, u, {"pending"}) /\ u.pending = [v.pending EXCEPT ![i] = TRUE]
    BY ONLY <1>1, <2>1, RecordFields DEF SameBut, Fields
  <2> QED
    BY <1>2, <1>4, <2>2, <2>3 DEF SameBut, Fields
<1> QED
  BY <1>3, <1>4

DisconnectShape(t, u, i) ==
    /\ u \in MqttRecord
    /\ SameBut(t, u, {"link", "pending", "msgs", "cmds"})
    /\ t.link[i] \in {"NIL LINK", "DISCONNECTING"} => u = t
    /\ t.link[i] \notin {"NIL LINK", "DISCONNECTING"} =>
         /\ u.link = [t.link EXCEPT ![i] = "DISCONNECTING"]
         /\ u.pending = [t.pending EXCEPT ![i] = FALSE]
         /\ LET soon == t.link[i] = "CONNECTING" /\ t.pending[i] /\ ~t.ip IN
              /\ u.msgs = IF soon
                          THEN Append(t.msgs, <<"DISCONNECT", i, NoItem>>)
                          ELSE t.msgs
              /\ u.cmds = IF soon THEN t.cmds
                          ELSE Append(t.cmds, Cmd("CIPCLOSE", i))

LEMMA LinkDisconnectIs ==
    ASSUME NEW t \in MqttRecord, NEW i \in Clients, NEW u, u = LinkDisconnect(t, i)
    PROVE  DisconnectShape(t, u, i)
<1> USE DEF DisconnectShape
<1> PICK v : v = [t EXCEPT !.link[i] = "DISCONNECTING", !.pending[i] = FALSE]
  OBVIOUS
<1>1. v \in MqttRecord
  BY ONLY t \in MqttRecord, i \in Clients,
     v = [t EXCEPT !.link[i] = "DISCONNECTING", !.pending[i] = FALSE]
     DEF MqttRecord, LinkStates, Flags
<1>2. /\ SameBut(t, v, {"link", "pending"})
      /\ v.link = [t.link EXCEPT ![i] = "DISCONNECTING"]
      /\ v.pending = [t.pending EXCEPT ![i] = FALSE]
  BY ONLY t \in MqttRecord, RecordFields,
     v = [t EXCEPT !.link[i] = "DISCONNECTING", !.pending[i] = FALSE]
     DEF SameBut, Fields
<1>3. CASE t.link[i] \in {"NIL LINK", "DISCONNECTING"}
  BY <1>3 DEF LinkDisconnect, SameBut
<1>4. CASE t.link[i] = "CONNECTING" /\ t.pending[i] /\ ~t.ip
  <2> PICK w : w = Append(v.msgs, <<"DISCONNECT", i, NoItem>>)
    OBVIOUS
  <2>1. u = [v EXCEPT !.msgs = w]
    BY <1>4 DEF LinkDisconnect
  <2>2. w \in Seq(Messages)
    BY <1>1, PacketType DEF MqttRecord, Messages
  <2>3. u \in MqttRecord
    BY ONLY <1>1, <2>1, <2>2 DEF MqttRecord
  <2>4. SameBut(v, u, {"msgs"}) /\ u.msgs = w
    BY ONLY <1>1, <2>1, RecordFields DEF SameBut, Fields
  <2> QED
    BY <1>2, <1>4, <2>3, <2>4 DEF SameBut, Fields
<1>5. CASE /\ t.link[i] \notin {"NIL LINK", "DISCONNECTING"}
           /\ ~(t.link[i] = "CONNECTING" /\ t.pending[i] /\ ~t.ip)
  <2>1. u = Req(v, Cmd("CIPCLOSE", i))
    BY <1>5 DEF LinkDisconnect
  <2>2. /\ u \in MqttRecord /\ SameBut(v, u, {"cmds"})
        /\ u.cmds = Append(v.cmds, Cmd("CIPCLOSE", i))
    BY <2>1, <1>1, ReqIs, CommandType
  <2> QED
    BY <1>2, <1>5, <2>2 DEF SameBut, Fields
<1> QED
  BY <1>3, <1>4, <1>5

Closed == {"NIL LINK", "INITIAL", "CLOSED"}

SocketShape(t, u, i) ==
    /\ u \in MqttRecord
    /\ SameBut(t, u, {"link", "pending", "cmds", "buf", "cur", "usertag"})
    /\ t.link[i] \notin Closed => u = t
    /\ t.link[i] \in Closed =>
         /\ u.link = [t.link EXCEPT ![i] = "CONNECTING"]
         /\ u.buf = [t.buf EXCEPT ![i] = <<>>]
         /\ u.cur = [t.cur EXCEPT ![i] = NoItem]
         /\ u.usertag = [t.usertag EXCEPT ![i] = FALSE]
         /\ t.ip /\ ~t.shuting =>
              /\ u.pending = t.pending
              /\ u.cmds = Append(t.cmds, Cmd("CIPSTART", i))
         /\ ~(t.ip /\ ~t.shuting) =>
              /\ u.pending = [t.pending EXCEPT ![i] = TRUE]
              /\ u.cmds = t.cmds

LEMMA SocketConnectIs ==
    ASSUME NEW t \in MqttRecord, NEW i \in Clients, NEW u, u = SocketConnect(t, i)
    PROVE  SocketShape(t, u, i)
<1> USE DEF SocketShape, Closed
<1> PICK v : v = IF t.link[i] = "NIL LINK" THEN [t EXCEPT !.link[i] = "INITIAL"] ELSE t
  OBVIOUS
<1>1. v \in MqttRecord
  <2>1. [t EXCEPT !.link[i] = "INITIAL"] \in MqttRecord
    BY ONLY t \in MqttRecord, i \in Clients DEF MqttRecord, LinkStates
  <2> QED
    BY <2>1
<1>2. /\ SameBut(t, v, {"link"})
      /\ v.link = IF t.link[i] = "NIL LINK" THEN [t.link EXCEPT ![i] = "INITIAL"]
                  ELSE t.link
  BY ONLY t \in MqttRecord, RecordFields,
     v = IF t.link[i] = "NIL LINK" THEN [t EXCEPT !.link[i] = "INITIAL"] ELSE t
     DEF SameBut, Fields
<1>3. t.link \in [Clients -> LinkStates]
  BY DEF MqttRecord
<1>4. CASE t.link[i] \notin {"NIL LINK", "INITIAL", "CLOSED"}
  <2>1. v = t /\ ~CanConnect(v, i)
    BY <1>4 DEF CanConnect
  <2> QED
    BY <1>4, <2>1 DEF SocketConnect, SameBut
<1>5. CASE t.link[i] \in {"NIL LINK", "INITIAL", "CLOSED"}
  <2>1. CanConnect(v, i)
    <3>1. CASE t.link[i] = "NIL LINK"
      <4>1. v.link[i] = "INITIAL"
        BY ONLY <3>1, <1>2, <1>3, i \in Clients
      <4> QED
        BY <4>1 DEF CanConnect
    <3>2. CASE t.link[i] # "NIL LINK"
      BY <3>2, <1>2, <1>5 DEF CanConnect
    <3> QED
      BY <3>1, <3>2
  <2> PICK w : w = LinkConnect(v, i)
    OBVIOUS
  <2>2. u = [w EXCEPT !.buf[i] = <<>>, !.cur[i] = NoItem, !.usertag[i] = FALSE]
    BY <2>1 DEF SocketConnect
  <2>3. /\ w \in MqttRecord /\ SameBut(v, w, {"link", "pending", "cmds"})
        /\ w.link = [v.link EXCEPT ![i] = "CONNECTING"]
        /\ v.ip /\ ~v.shuting =>
             /\ w.pending = v.pending
             /\ w.cmds = Append(v.cmds, Cmd("CIPSTART", i))
        /\ ~(v.ip /\ ~v.shuting) =>
             /\ w.pending = [v.pending EXCEPT ![i] = TRUE]
             /\ w.cmds = v.cmds
    <3> HIDE DEF SameBut
    <3> QED
      BY ONLY v \in MqttRecord, w = LinkConnect(v, i), i \in Clients, LinkConnectIs
  <2>4. u \in MqttRecord
    <3>1. NoItem \in Packets
      BY ONLY PacketType
    <3>2. <<>> \in Seq(Packets)
      BY ONLY EmptySeq
    <3>3. w \in MqttRecord
      BY <2>3
    <3> QED
      BY ONLY <3>1, <3>2, <3>3, <2>2, i \in Clients DEF MqttRecord, Flags
  <2>5. /\ SameBut(w, u, {"buf", "cur", "usertag"})
        /\ u.buf = [w.buf EXCEPT ![i] = <<>>]
        /\ u.cur = [w.cur EXCEPT ![i] = NoItem]
        /\ u.usertag = [w.usertag EXCEPT ![i] = FALSE]
    BY ONLY <2>2, <2>3, RecordFields DEF SameBut, Fields
  <2>6. w.link = [t.link EXCEPT ![i] = "CONNECTING"]
    <3>1. w.link = [v.link EXCEPT ![i] = "CONNECTING"]
      BY <2>3
    <3>2. CASE t.link[i] = "NIL LINK"
      BY ONLY <3>1, <3>2, <1>2, <1>3, i \in Clients
    <3>3. CASE t.link[i] # "NIL LINK"
      BY ONLY <3>1, <3>3, <1>2
    <3> QED
      BY <3>2, <3>3
  <2>7. /\ v.ip = t.ip /\ v.shuting = t.shuting /\ v.pending = t.pending
        /\ v.cmds = t.cmds /\ v.buf = t.buf /\ v.cur = t.cur
        /\ v.usertag = t.usertag
    BY <1>2 DEF SameBut, Fields
  <2>8. w.buf = t.buf /\ w.cur = t.cur /\ w.usertag = t.usertag
    BY <2>3, <2>7 DEF SameBut, Fields
  <2>9. u.link = w.link /\ u.pending = w.pending /\ u.cmds = w.cmds
    BY <2>5 DEF SameBut, Fields
  <2>10. SameBut(t, u, {"link", "pending", "cmds", "buf", "cur", "usertag"})
    <3>1. SameBut(t, w, {"link"} \union {"link", "pending", "cmds"})
      BY ONLY <1>2, <2>3, SameTrans
    <3>2. SameBut(t, u, ({"link"} \union {"link", "pending", "cmds"})
                        \union {"buf", "cur", "usertag"})
      BY ONLY <3>1, <2>5, SameTrans
    <3>3. ({"link"} \union {"link", "pending", "cmds"}) \union {"buf", "cur", "usertag"}
          = {"link", "pending", "cmds", "buf", "cur", "usertag"}
      OBVIOUS
    <3> QED
      BY ONLY <3>2, <3>3
  <2> QED
    BY <1>5, <2>3, <2>4, <2>5, <2>6, <2>7, <2>8, <2>9, <2>10
<1> QED
  BY <1>4, <1>5

SendShape(t, u, i, p) ==
    /\ u \in MqttRecord
    /\ SameBut(t, u, {"link", "pending", "cmds", "buf", "cur"})
    /\ CanConnect(t, i) =>
         /\ u.buf = [t.buf EXCEPT ![i] = Append(@, p)] /\ u.cur = t.cur
    /\ t.link[i] = "CONNECTED" /\ t.cur[i] = NoItem =>
         /\ u.cur = [t.cur EXCEPT ![i] = p] /\ u.buf = t.buf
         /\ u.cmds = Append(t.cmds, SendCmd(i, p))
         /\ u.link = t.link /\ u.pending = t.pending
    /\ t.link[i] = "CONNECTED" /\ t.cur[i] # NoItem =>
         /\ u.buf = [t.buf EXCEPT ![i] = Append(@, p)] /\ u.cur = t.cur
         /\ u.link = t.link /\ u.pending = t.pending /\ u.cmds = t.cmds
    /\ ~Accepts(t, i) => u = t

LEMMA SendIs ==
    ASSUME NEW t \in MqttRecord, NEW i \in Clients, NEW p \in Packets,
           NEW u, u = Send(t, i, p)
    PROVE  SendShape(t, u, i, p)
<1> USE DEF SendShape
<1>1. t.buf \in [Clients -> Seq(Packets)] /\ t.cur \in [Clients -> Packets]
  BY DEF MqttRecord
<1>2. Append(t.buf[i], p) \in Seq(Packets)
  BY <1>1
<1>3. CASE CanConnect(t, i)
  <2> PICK v : v = LinkConnect(t, i)
    OBVIOUS
  <2>1. v \in MqttRecord /\ SameBut(t, v, {"link", "pending", "cmds"})
    BY LinkConnectIs
  <2>2. v.buf = t.buf /\ v.cur = t.cur
    BY <2>1 DEF SameBut, Fields
  <2>3. u = [v EXCEPT !.buf[i] = Append(v.buf[i], p)]
    <3>1. Send(t, i, p) = [LinkConnect(t, i) EXCEPT !.buf[i] = Append(@, p)]
      BY <1>3 DEF Send, CanConnect
    <3> QED
      BY <3>1
  <2>4. u \in MqttRecord
    BY ONLY <2>1, <2>2, <2>3, <1>2, i \in Clients DEF MqttRecord
  <2>5. SameBut(v, u, {"buf"}) /\ u.buf = [v.buf EXCEPT ![i] = Append(@, p)]
    BY ONLY <2>1, <2>3, RecordFields DEF SameBut, Fields
  <2> QED
    BY <1>3, <2>1, <2>2, <2>4, <2>5 DEF SameBut, Fields, CanConnect, Accepts
<1>4. CASE t.link[i] = "CONNECTED" /\ t.cur[i] = NoItem
  <2> PICK v : v = [t EXCEPT !.cur[i] = p]
    OBVIOUS
  <2>1. v \in MqttRecord
    BY ONLY t \in MqttRecord, i \in Clients, p \in Packets, v = [t EXCEPT !.cur[i] = p]
       DEF MqttRecord
  <2>2. SameBut(t, v, {"cur"}) /\ v.cur = [t.cur EXCEPT ![i] = p]
    BY ONLY t \in MqttRecord, v = [t EXCEPT !.cur[i] = p], RecordFields
       DEF SameBut, Fields
  <2>3. u = Req(v, SendCmd(i, p))
    BY <1>4 DEF Send, CanConnect
  <2>4. /\ u \in MqttRecord /\ SameBut(v, u, {"cmds"})
        /\ u.cmds = Append(v.cmds, SendCmd(i, p))
    BY <2>1, <2>3, ReqIs, CommandType
  <2> QED
    BY <1>4, <2>2, <2>4 DEF SameBut, Fields, CanConnect, Accepts
<1>5. CASE t.link[i] = "CONNECTED" /\ t.cur[i] # NoItem
  <2>1. u = [t EXCEPT !.buf[i] = Append(t.buf[i], p)]
    BY <1>5 DEF Send, CanConnect
  <2>2. u \in MqttRecord
    BY ONLY <1>2, <2>1, t \in MqttRecord, i \in Clients DEF MqttRecord
  <2>3. SameBut(t, u, {"buf"}) /\ u.buf = [t.buf EXCEPT ![i] = Append(@, p)]
    BY ONLY <2>1, t \in MqttRecord, RecordFields DEF SameBut, Fields
  <2> QED
    BY <1>5, <2>2, <2>3 DEF SameBut, Fields, CanConnect, Accepts
<1>6. CASE ~Accepts(t, i)
  BY <1>6 DEF Send, Accepts, CanConnect, SameBut
<1> QED
  BY <1>3, <1>4, <1>5, <1>6 DEF Accepts

----------------------------------------------------------------------------
(* Every publish without a result is somewhere, but for that of p, which   *)
(* is on its way.                                                          *)

Untold1(r, n) == n \in 1..Len(r) /\ r[n].told = "no"

Kept(b, c, d, g, r, p) ==
    \A n \in Nat : Untold1(r, n) => p \in Of(n) \/ ~None(b, c, d, g, n)

LEMMA KeptDropCur ==
    ASSUME NEW b, NEW c, NEW d, NEW g, NEW r, HeldTypes(b, c, d, g, r),
           Kept(b, c, d, g, r, NoItem), NEW i \in Clients
    PROVE  Kept(b, [c EXCEPT ![i] = NoItem], d, g, r, c[i])
<1> DEFINE e == [c EXCEPT ![i] = NoItem]
<1>1. \A j \in Clients : j # i => e[j] = c[j]
  BY DEF HeldTypes
<1> HIDE DEF e
<1>9. Kept(b, e, d, g, r, c[i])
  BY <1>1, NotOf DEF Kept, None, Here
<1> QED
  BY <1>9 DEF e

LEMMA KeptSetCur ==
    ASSUME NEW b, NEW c, NEW d, NEW g, NEW r, HeldTypes(b, c, d, g, r),
           NEW p \in Packets, Kept(b, c, d, g, r, p), NEW i \in Clients, c[i] = NoItem
    PROVE  Kept(b, [c EXCEPT ![i] = p], d, g, r, NoItem)
<1> DEFINE e == [c EXCEPT ![i] = p]
<1>1. e[i] = p /\ \A j \in Clients : j # i => e[j] = c[j]
  BY DEF HeldTypes
<1> HIDE DEF e
<1>9. Kept(b, e, d, g, r, NoItem)
  BY <1>1, NotOf DEF Kept, None, Here
<1> QED
  BY <1>9 DEF e

LEMMA KeptAppend ==
    ASSUME NEW b, NEW c, NEW d, NEW g, NEW r, HeldTypes(b, c, d, g, r),
           NEW p \in Packets, Kept(b, c, d, g, r, p), NEW i \in Clients
    PROVE  Kept([b EXCEPT ![i] = Append(@, p)], c, d, g, r, NoItem)
<1> DEFINE e == [b EXCEPT ![i] = Append(@, p)]
<1>1. e[i] = Append(b[i], p) /\ b[i] \in Seq(Packets)
      /\ \A j \in Clients : j # i => e[j] = b[j]
  BY DEF HeldTypes
<1> HIDE DEF e
<1>2. \A n \in Nat : Some(e[i], Of(n)) <=> Some(b[i], Of(n)) \/ p \in Of(n)
  BY <1>1, AppendHas
<1>9. Kept(e, c, d, g, r, NoItem)
  BY <1>1, <1>2 DEF Kept, None, Here
<1> QED
  BY <1>9 DEF e

LEMMA KeptTakeBuf ==
    ASSUME NEW b, NEW c, NEW d, NEW g, NEW r, HeldTypes(b, c, d, g, r),
           Kept(b, c, d, g, r, NoItem), NEW i \in Clients, b[i] # <<>>
    PROVE  Kept([b EXCEPT ![i] = Tail(@)], c, d, g, r, Head(b[i]))
<1> DEFINE e == [b EXCEPT ![i] = Tail(@)]
<1>1. e[i] = Tail(b[i]) /\ b[i] \in Seq(Packets)
      /\ \A j \in Clients : j # i => e[j] = b[j]
  BY DEF HeldTypes
<1> HIDE DEF e
<1>2. \A n \in Nat : Some(b[i], Of(n)) <=> Some(e[i], Of(n)) \/ Head(b[i]) \in Of(n)
  BY <1>1, TailHas
<1>9. Kept(e, c, d, g, r, Head(b[i]))
  BY <1>1, <1>2, NotOf DEF Kept, None, Here
<1> QED
  BY <1>9 DEF e

LEMMA KeptInsert ==
    ASSUME NEW b, NEW c, NEW d, NEW g, NEW r, HeldTypes(b, c, d, g, r),
           NEW e \in Entries, Kept(b, c, d, g, r, e.packet)
    PROVE  Kept(b, c, Append(d, e), g, r, NoItem)
<1>1. d \in Seq(Entries)
  BY DEF HeldTypes
<1>2. \A n : Some(Append(d, e), DupOf(n)) <=> Some(d, DupOf(n)) \/ e \in DupOf(n)
  BY <1>1, AppendHas
<1>3. \A n : e.packet \in Of(n) => e \in DupOf(n)
  BY DEF DupOf
<1> QED
  BY <1>2, <1>3 DEF Kept, None

LEMMA KeptRemove ==
    ASSUME NEW b, NEW c, NEW d, NEW g, NEW r, HeldTypes(b, c, d, g, r),
           Kept(b, c, d, g, r, NoItem), NEW k \in 1..Len(d)
    PROVE  Kept(b, c, RemoveAt(d, k), g, r, d[k].packet)
<1>1. d \in Seq(Entries)
  BY DEF HeldTypes
<1>2. \A n : d[k] \notin DupOf(n) => (Some(RemoveAt(d, k), DupOf(n)) <=> Some(d, DupOf(n)))
  BY <1>1, RemoveAtHas
<1>3. \A n : d[k] \in DupOf(n) => d[k].packet \in Of(n)
  BY DEF DupOf
<1> QED
  BY <1>2, <1>3, NotOf DEF Kept, None

LEMMA KeptUpdate ==
    ASSUME NEW b, NEW c, NEW d, NEW g, NEW r, HeldTypes(b, c, d, g, r),
           NEW p, Kept(b, c, d, g, r, p), NEW k \in 1..Len(d), NEW e \in Entries,
           e.packet = d[k].packet
    PROVE  Kept(b, c, [d EXCEPT ![k] = e], g, r, p)
<1> DEFINE f == [d EXCEPT ![k] = e]
<1>1. d \in Seq(Entries) /\ Len(d) \in Nat
  BY LenProperties DEF HeldTypes
<1>2. /\ f \in Seq(Entries) /\ Len(f) = Len(d)
      /\ \A j \in 1..Len(d) : f[j] = IF j = k THEN e ELSE d[j]
  BY <1>1, ExceptSeq
<1> HIDE DEF f
<1>3. ASSUME NEW n \in Nat PROVE Some(f, DupOf(n)) <=> Some(d, DupOf(n))
  <2>1. \A j \in 1..Len(d) : d[j] \in Entries
    BY <1>1, ElementOfSeq
  <2>2. \A j \in 1..Len(d) : f[j] \in DupOf(n) <=> d[j] \in DupOf(n)
    BY <1>2, <2>1 DEF DupOf
  <2> QED
    BY <1>2, <2>2 DEF Some
<1>9. Kept(b, c, f, g, r, p)
  BY <1>3 DEF Kept, None
<1> QED
  BY <1>9 DEF f

LEMMA KeptSay ==
    ASSUME NEW b, NEW c, NEW d, NEW g, NEW r, HeldTypes(b, c, d, g, r),
           NEW p, Kept(b, c, d, g, r, p), NEW e \in Messages
    PROVE  Kept(b, c, d, Append(g, e), r, p)
<1>1. g \in Seq(Messages)
  BY DEF HeldTypes
<1>2. \A n : Some(Append(g, e), FailOf(n)) <=> Some(g, FailOf(n)) \/ e \in FailOf(n)
  BY <1>1, AppendHas
<1> QED
  BY <1>2 DEF Kept, None

LEMMA KeptSayFail ==
    ASSUME NEW b, NEW c, NEW d, NEW g, NEW r, HeldTypes(b, c, d, g, r),
           NEW i \in Clients, NEW p \in Repeated, Kept(b, c, d, g, r, p)
    PROVE  Kept(b, c, d, Append(g, <<"MQTT_DUP_FAIL", i, p>>), r, NoItem)
<1> DEFINE e == <<"MQTT_DUP_FAIL", i, p>>
<1>1. g \in Seq(Messages) /\ e \in Messages
  BY FailIs DEF HeldTypes
<1>2. \A n : Some(Append(g, e), FailOf(n)) <=> Some(g, FailOf(n)) \/ e \in FailOf(n)
  BY <1>1, AppendHas
<1>3. \A n : p \in Of(n) => e \in FailOf(n)
  BY <1>1 DEF FailOf
<1> QED
  BY <1>2, <1>3 DEF Kept, None

LEMMA KeptHear ==
    ASSUME NEW b, NEW c, NEW d, NEW g, NEW r, HeldTypes(b, c, d, g, r),
           Kept(b, c, d, g, r, NoItem), g # <<>>
    PROVE  Kept(b, c, d, Tail(g), r,
                IF Head(g)[1] = "MQTT_DUP_FAIL" THEN Head(g)[3] ELSE NoItem)
<1>1. g \in Seq(Messages)
  BY DEF HeldTypes
<1>2. \A n : Some(g, FailOf(n)) <=> Some(Tail(g), FailOf(n)) \/ Head(g) \in FailOf(n)
  BY <1>1, TailHas
<1>3. \A n : Head(g) \in FailOf(n) => Head(g)[1] = "MQTT_DUP_FAIL" /\ Head(g)[3] \in Of(n)
  BY DEF FailOf
<1> QED
  BY <1>2, <1>3, NotOf DEF Kept, None

LEMMA KeptTell ==
    ASSUME NEW b, NEW c, NEW d, NEW g, NEW r, HeldTypes(b, c, d, g, r),
           NEW p \in Packets, p.kind \in {"PUB0", "PUB1"}, Kept(b, c, d, g, r, p),
           p.n \in 1..Len(r), NEW v \in {"ok", "failed"}
    PROVE  Kept(b, c, d, g, [r EXCEPT ![p.n].told = v], NoItem)
<1> DEFINE s == [r EXCEPT ![p.n].told = v]
<1>1. r \in Seq(Publishes) /\ r[p.n] \in Publishes
  BY ElementOfSeq DEF HeldTypes
<1>2. s = [r EXCEPT ![p.n] = [r[p.n] EXCEPT !.told = v]]
  OBVIOUS
<1>3. [r[p.n] EXCEPT !.told = v] \in Publishes /\ [r[p.n] EXCEPT !.told = v].told = v
  BY <1>1 DEF Publishes, Results
<1>4. Len(s) = Len(r) /\ s[p.n].told = v /\ \A n \in 1..Len(r) : n # p.n => s[n] = r[n]
  BY <1>1, <1>2, <1>3, ExceptSeq
<1> HIDE DEF s
<1>5. \A n \in Nat : Untold1(s, n) => n # p.n /\ Untold1(r, n)
  BY <1>4 DEF Untold1
<1>6. \A n : p \in Of(n) => n = p.n
  BY DEF Of
<1>9. Kept(b, c, d, g, s, NoItem)
  BY <1>5, <1>6 DEF Kept
<1> QED
  BY <1>9 DEF s

LEMMA KeptPublish ==
    ASSUME NEW b, NEW c, NEW d, NEW g, NEW r, HeldTypes(b, c, d, g, r),
           Kept(b, c, d, g, r, NoItem), NEW i \in Clients, NEW k \in {"PUB0", "PUB1"}
    PROVE  Kept(b, c, d, g, Append(r, [client |-> i, told |-> "no"]),
                Packet(k, Len(r) + 1))
<1> DEFINE x == [client |-> i, told |-> "no"]
           s == Append(r, x)
<1>1. r \in Seq(Publishes) /\ Len(r) \in Nat /\ x \in Publishes
  BY LenProperties DEF HeldTypes, Publishes, Results
<1>2. Len(s) = Len(r) + 1 /\ \A n \in 1..Len(r) : s[n] = r[n]
  BY <1>1, AppendProperties
<1> HIDE DEF s
<1>3. \A n \in Nat : Untold1(s, n) => n = Len(r) + 1 \/ Untold1(r, n)
  BY <1>1, <1>2 DEF Untold1
<1>4. Len(r) + 1 \in Nat /\ Packet(k, Len(r) + 1) \in Of(Len(r) + 1)
  BY <1>1 DEF Of, Packet, Packets, Kinds
<1>9. Kept(b, c, d, g, s, Packet(k, Len(r) + 1))
  BY <1>3, <1>4, NotOf DEF Kept
<1> QED
  BY <1>9 DEF s, x

(* When no publish waits for its result                                    *)
LEMMA KeptNone ==
    ASSUME NEW b, NEW c, NEW d, NEW g, NEW r, NEW p, \A n \in Nat : ~Untold1(r, n)
    PROVE  Kept(b, c, d, g, r, p)
BY DEF Kept

----------------------------------------------------------------------------
(* The packets to be retransmitted                                         *)

LEMMA SmallestOfSet ==
    ASSUME NEW T, T \subseteq Nat, T # {}
    PROVE  \E k \in T : \A n \in T : k <= n
<1> DEFINE R == OpToRel(<, Nat)
<1>1. IsWellFoundedOn(R, Nat)
  BY NatLessThanWellFounded
<1>2. \A k, n \in Nat : k < n => <<k, n>> \in R
  BY DEF OpToRel
<1> HIDE DEF R
<1>3. PICK k \in T : \A n \in T : ~(<<n, k>> \in R)
  BY <1>1, WFMin
<1>4. ASSUME NEW n \in T PROVE k <= n
  <2>1. k \in Nat /\ n \in Nat /\ ~(n < k)
    BY <1>2, <1>3
  <2> QED
    BY <2>1
<1> QED
  BY <1>3, <1>4

Matches(q, i, p) == {k \in 1..Len(q) : IsFor(q[k], i, p)}

FirstOf(q, i, p) == IF Matches(q, i, p) # {} THEN Min(Matches(q, i, p)) ELSE 0

LEMMA FirstIs ==
    ASSUME NEW q \in Seq(Entries), NEW i, NEW p, NEW k, k = FirstOf(q, i, p)
    PROVE  \/ k = 0 /\ Matches(q, i, p) = {}
           \/ /\ k \in 1..Len(q) /\ IsFor(q[k], i, p) /\ k \in Matches(q, i, p)
              /\ \A j \in Matches(q, i, p) : k <= j
<1>1. Matches(q, i, p) \subseteq Nat
  BY LenProperties DEF Matches
<1>3. CASE Matches(q, i, p) # {}
  <2>1. \E j \in Matches(q, i, p) : \A n \in Matches(q, i, p) : j <= n
    BY <1>1, <1>3, SmallestOfSet
  <2>2. k \in Matches(q, i, p) /\ \A n \in Matches(q, i, p) : k <= n
    BY <1>3, <2>1 DEF Min, FirstOf
  <2> QED
    BY <2>2 DEF Matches
<1> QED
  BY <1>3 DEF FirstOf

LEMMA SelectIs ==
    ASSUME NEW q, NEW i, NEW p
    PROVE  SelectInSeq(q, LAMBDA e : IsFor(e, i, p)) = FirstOf(q, i, p)
BY DEF SelectInSeq, FirstOf, Matches

LEMMA RmvIs ==
    ASSUME NEW t \in MqttRecord, NEW i, NEW p, NEW u, u = Rmv(t, i, p),
           NEW k, k = FirstOf(t.tlist, i, p)
    PROVE  /\ u \in MqttRecord /\ SameBut(t, u, {"tlist"})
           /\ k = 0 => u = t
           /\ k # 0 => k \in 1..Len(t.tlist) /\ u.tlist = RemoveAt(t.tlist, k)
<1>1. t.tlist \in Seq(Entries)
  BY DEF MqttRecord
<1>2. \/ k = 0 /\ Matches(t.tlist, i, p) = {}
      \/ k \in 1..Len(t.tlist) /\ k \in Matches(t.tlist, i, p)
  BY <1>1, FirstIs
<1> PICK v : v = IF Matches(t.tlist, i, p) # {} THEN RemoveAt(t.tlist, k) ELSE t.tlist
  OBVIOUS
<1>3. RemoveFirstMatch(t.tlist, LAMBDA e : IsFor(e, i, p)) = v
  BY DEF RemoveFirstMatch, Matches, SelectInSeq, FirstOf
<1>4. u = [t EXCEPT !.tlist = v]
  BY <1>3 DEF Rmv
<1>5. v \in Seq(Entries)
  BY <1>1, <1>2, RemoveAtHas
<1>7. u \in MqttRecord
  BY ONLY <1>4, <1>5, t \in MqttRecord DEF MqttRecord
<1>8. SameBut(t, u, {"tlist"}) /\ u.tlist = v
  BY ONLY <1>4, t \in MqttRecord, RecordFields DEF SameBut, Fields
<1>9. CASE k = 0
  <2>1. v = t.tlist
    BY <1>9, <1>2, LenProperties, <1>1
  <2>2. \A f \in Fields : u[f] = t[f]
    BY <2>1, <1>8 DEF SameBut
  <2>3. u = t
    BY <2>2, <1>7, RecordFields
  <2> QED
    BY <2>3, <1>9, <1>7, <1>8
<1>10. CASE k # 0
  BY <1>10, <1>2, <1>7, <1>8
<1> QED
  BY <1>9, <1>10

----------------------------------------------------------------------------
(* What the operators do to the publishes                                  *)

Carries(t, p) == Held(t.buf, t.cur, t.tlist, t.msgs, t.pubs, p)
Keeps(t, p) == Kept(t.buf, t.cur, t.tlist, t.msgs, t.pubs, p)
Passes(t, u, p, o) ==
    /\ Carries(t, p) => Carries(u, o)
    /\ Keeps(t, p) => Keeps(u, o)
Five == {"buf", "cur", "tlist", "msgs", "pubs"}

LEMMA RecordTypes ==
    ASSUME NEW t \in MqttRecord
    PROVE  HeldTypes(t.buf, t.cur, t.tlist, t.msgs, t.pubs)
BY DEF MqttRecord, HeldTypes

LEMMA PassSame ==
    ASSUME NEW t, NEW u, NEW F, SameBut(t, u, F), F \intersect Five = {}, NEW p
    PROVE  Passes(t, u, p, p)
<1>1. /\ u.buf = t.buf /\ u.cur = t.cur /\ u.tlist = t.tlist
      /\ u.msgs = t.msgs /\ u.pubs = t.pubs
  BY DEF SameBut, Fields, Five
<1> QED
  BY <1>1 DEF Passes, Carries, Keeps

LEMMA PassPlain ==
    ASSUME NEW t, NEW o, NEW p, \A n \in Nat : o \notin Of(n) /\ p \notin Of(n)
    PROVE  Passes(t, t, o, p)
BY HeldPlain DEF Passes, Carries, Keeps, Kept

LEMMA SendPass ==
    ASSUME NEW t \in MqttRecord, NEW i \in Clients, NEW p \in Packets,
           NEW u, u = Send(t, i, p)
    PROVE  /\ Carries(t, p) => Carries(u, NoItem)
           /\ Keeps(t, p) /\ Accepts(t, i) => Keeps(u, NoItem)
<1>1. SendShape(t, u, i, p)
  BY SendIs
<1>2. u.tlist = t.tlist /\ u.msgs = t.msgs /\ u.pubs = t.pubs
  BY <1>1 DEF SameBut, Fields, SendShape
<1>3. HeldTypes(t.buf, t.cur, t.tlist, t.msgs, t.pubs)
  BY RecordTypes
<1>4. CASE CanConnect(t, i) \/ (t.link[i] = "CONNECTED" /\ t.cur[i] # NoItem)
  <2> PICK b : b = [t.buf EXCEPT ![i] = Append(@, p)]
    OBVIOUS
  <2>1. u.buf = b /\ u.cur = t.cur
    BY <1>1, <1>4 DEF SendShape
  <2>2. Carries(t, p) => Held(b, t.cur, t.tlist, t.msgs, t.pubs, NoItem)
    BY <1>3, HeldAppend DEF Carries
  <2>3. Keeps(t, p) => Kept(b, t.cur, t.tlist, t.msgs, t.pubs, NoItem)
    BY <1>3, KeptAppend DEF Keeps
  <2> QED
    BY <1>2, <2>1, <2>2, <2>3 DEF Carries, Keeps
<1>5. CASE t.link[i] = "CONNECTED" /\ t.cur[i] = NoItem
  <2> PICK c : c = [t.cur EXCEPT ![i] = p]
    OBVIOUS
  <2>1. u.cur = c /\ u.buf = t.buf
    BY <1>1, <1>5 DEF SendShape
  <2>2. Carries(t, p) => Held(t.buf, c, t.tlist, t.msgs, t.pubs, NoItem)
    BY <1>3, <1>5, HeldSetCur DEF Carries
  <2>3. Keeps(t, p) => Kept(t.buf, c, t.tlist, t.msgs, t.pubs, NoItem)
    BY <1>3, <1>5, KeptSetCur DEF Keeps
  <2> QED
    BY <1>2, <2>1, <2>2, <2>3 DEF Carries, Keeps
<1>6. CASE ~Accepts(t, i)
  <2>1. u = t
    BY <1>1, <1>6 DEF SendShape
  <2>2. \A n \in Nat : NoItem \notin Of(n)
    BY NotOf
  <2> QED
    BY <1>6, <2>1, <2>2, HeldPlain DEF Carries
<1> QED
  BY <1>4, <1>5, <1>6 DEF Accepts

LEMMA SndNxtIs ==
    ASSUME NEW t \in MqttRecord, NEW i \in Clients, NEW u, u = SndNxt(t, i)
    PROVE  /\ u \in MqttRecord /\ SameBut(t, u, {"cmds", "buf", "cur"})
           /\ Passes(t, u, NoItem, NoItem)
           /\ \/ u = t
              \/ /\ t.link[i] = "CONNECTED" /\ t.cur[i] = NoItem /\ t.buf[i] # <<>>
                 /\ Head(t.buf[i]) \in Packets
                 /\ u.buf = [t.buf EXCEPT ![i] = Tail(@)]
                 /\ u.cur = [t.cur EXCEPT ![i] = Head(t.buf[i])]
                 /\ u.cmds = Append(t.cmds, SendCmd(i, Head(t.buf[i])))
<1>1. CASE t.link[i] = "CONNECTED" /\ t.buf[i] # <<>> /\ t.cur[i] = NoItem
  <2> PICK h : h = Head(t.buf[i])
    OBVIOUS
  <2> PICK q : q = Tail(t.buf[i])
    OBVIOUS
  <2>1. t.buf[i] \in Seq(Packets)
    BY DEF MqttRecord
  <2>2. h \in Packets /\ q \in Seq(Packets)
    BY <2>1, <1>1, TailFacts
  <2> PICK v : v = [t EXCEPT !.cur[i] = h, !.buf[i] = q]
    OBVIOUS
  <2>3. v \in MqttRecord
    BY ONLY <2>2, t \in MqttRecord, i \in Clients,
       v = [t EXCEPT !.cur[i] = h, !.buf[i] = q] DEF MqttRecord
  <2>4. /\ SameBut(t, v, {"buf", "cur"}) /\ v.cur = [t.cur EXCEPT ![i] = h]
        /\ v.buf = [t.buf EXCEPT ![i] = q]
    BY ONLY t \in MqttRecord, RecordFields,
       v = [t EXCEPT !.cur[i] = h, !.buf[i] = q] DEF SameBut, Fields
  <2>5. u = Req(v, SendCmd(i, h))
    BY <1>1 DEF SndNxt
  <2>6. /\ u \in MqttRecord /\ SameBut(v, u, {"cmds"})
        /\ u.cmds = Append(v.cmds, SendCmd(i, h))
    BY <2>2, <2>3, <2>5, ReqIs, CommandType
  <2>7. /\ SameBut(t, u, {"cmds", "buf", "cur"}) /\ v.cmds = t.cmds
        /\ u.cur = v.cur /\ u.buf = v.buf
    BY ONLY <2>4, <2>6 DEF SameBut, Fields
  <2>8. Passes(t, u, NoItem, NoItem)
    <3>1. t.cur[i] = NoItem /\ u.tlist = t.tlist /\ u.msgs = t.msgs /\ u.pubs = t.pubs
      BY <1>1, <2>7 DEF SameBut, Fields
    <3> PICK b : b = [t.buf EXCEPT ![i] = Tail(@)]
      OBVIOUS
    <3>2. u.buf = b /\ u.cur = [t.cur EXCEPT ![i] = h]
      BY <2>4, <2>7
    <3>3. HeldTypes(t.buf, t.cur, t.tlist, t.msgs, t.pubs)
      BY RecordTypes
    <3>4. /\ HeldTypes(b, t.cur, t.tlist, t.msgs, t.pubs)
          /\ Carries(t, NoItem) => Held(b, t.cur, t.tlist, t.msgs, t.pubs, h)
          /\ Keeps(t, NoItem) => Kept(b, t.cur, t.tlist, t.msgs, t.pubs, h)
      <4>1. HeldTypes(b, t.cur, t.tlist, t.msgs, t.pubs)
        BY <3>3, <2>2, <2>1 DEF HeldTypes
      <4> QED
        BY <4>1, <3>3, <1>1, HeldTakeBuf, KeptTakeBuf DEF Carries, Keeps
    <3>5. /\ Held(b, t.cur, t.tlist, t.msgs, t.pubs, h) => Carries(u, NoItem)
          /\ Kept(b, t.cur, t.tlist, t.msgs, t.pubs, h) => Keeps(u, NoItem)
      <4> PICK c : c = [t.cur EXCEPT ![i] = h]
        OBVIOUS
      <4>1. Held(b, t.cur, t.tlist, t.msgs, t.pubs, h)
            => Held(b, c, t.tlist, t.msgs, t.pubs, NoItem)
        BY <3>1, <3>4, <2>2, HeldSetCur
      <4>2. Kept(b, t.cur, t.tlist, t.msgs, t.pubs, h)
            => Kept(b, c, t.tlist, t.msgs, t.pubs, NoItem)
        BY <3>1, <3>4, <2>2, KeptSetCur
      <4> QED
        BY <3>1, <3>2, <4>1, <4>2 DEF Carries, Keeps
    <3> QED
      BY <3>4, <3>5 DEF Passes
  <2> QED
    BY <1>1, <2>2, <2>4, <2>6, <2>7, <2>8
<1>2. CASE ~(t.link[i] = "CONNECTED" /\ t.buf[i] # <<>> /\ t.cur[i] = NoItem)
  BY <1>2 DEF SndNxt, SameBut, Passes
<1> QED
  BY <1>1, <1>2

LEMMA InsIs ==
    ASSUME NEW t \in MqttRecord, NEW i \in Clients, NEW p \in Repeated,
           NEW u, u = Ins(t, i, p)
    PROVE  /\ u \in MqttRecord /\ SameBut(t, u, {"tlist"})
           /\ u.tlist = Append(t.tlist, Entry(i, p))
           /\ Entry(i, p) \in Entries /\ Passes(t, u, p, NoItem)
<1> PICK e : e = Entry(i, p)
  OBVIOUS
<1>1. e \in Entries /\ e.packet = p
  BY MqttAssumption DEF Entries, Entry
<1> PICK d : d = Append(t.tlist, e)
  OBVIOUS
<1>2. d \in Seq(Entries)
  BY <1>1, AppendProperties DEF MqttRecord
<1>3. u = [t EXCEPT !.tlist = d]
  BY DEF Ins
<1>4. u \in MqttRecord
  BY ONLY <1>2, <1>3, t \in MqttRecord DEF MqttRecord
<1>5. SameBut(t, u, {"tlist"}) /\ u.tlist = d
  BY ONLY <1>3, t \in MqttRecord, RecordFields DEF SameBut, Fields
<1>6. u.buf = t.buf /\ u.cur = t.cur /\ u.msgs = t.msgs /\ u.pubs = t.pubs
  BY <1>5 DEF SameBut, Fields
<1>7. HeldTypes(t.buf, t.cur, t.tlist, t.msgs, t.pubs)
  BY RecordTypes
<1>8. Carries(t, p) => Held(t.buf, t.cur, d, t.msgs, t.pubs, NoItem)
  BY <1>1, <1>7, HeldInsert DEF Carries
<1>9. Keeps(t, p) => Kept(t.buf, t.cur, d, t.msgs, t.pubs, NoItem)
  BY <1>1, <1>7, KeptInsert DEF Keeps
<1>10. Passes(t, u, p, NoItem)
  BY <1>5, <1>6, <1>8, <1>9 DEF Passes, Carries, Keeps
<1> QED
  BY <1>1, <1>4, <1>5, <1>10

RmvShape(t, u, i, p) ==
    /\ u \in MqttRecord /\ SameBut(t, u, {"tlist"})
    /\ t.tlist = <<>> => u = t
    /\ Passes(t, u, NoItem, IF Matches(t.tlist, i, p) = {} THEN NoItem ELSE p)

LEMMA RmvPass ==
    ASSUME NEW t \in MqttRecord, NEW i, NEW p, NEW u, u = Rmv(t, i, p)
    PROVE  RmvShape(t, u, i, p)
<1> PICK k : k = FirstOf(t.tlist, i, p)
  OBVIOUS
<1>1. /\ u \in MqttRecord /\ SameBut(t, u, {"tlist"})
      /\ k = 0 => u = t
      /\ k # 0 => k \in 1..Len(t.tlist) /\ u.tlist = RemoveAt(t.tlist, k)
  BY RmvIs
<1>2. t.tlist \in Seq(Entries)
  BY DEF MqttRecord
<1>3. \/ k = 0 /\ Matches(t.tlist, i, p) = {}
      \/ /\ k \in 1..Len(t.tlist) /\ IsFor(t.tlist[k], i, p)
         /\ k \in Matches(t.tlist, i, p)
  BY <1>2, FirstIs
<1>4. t.tlist = <<>> => u = t
  <2>1. t.tlist = <<>> => Matches(t.tlist, i, p) = {}
    BY DEF Matches
  <2> QED
    BY <2>1, <1>1, <1>3
<1>5. u.buf = t.buf /\ u.cur = t.cur /\ u.msgs = t.msgs /\ u.pubs = t.pubs
  BY <1>1 DEF SameBut, Fields
<1>6. CASE k = 0
  <2>1. Matches(t.tlist, i, p) = {} /\ u = t
    BY <1>1, <1>3, <1>6, <1>2, LenProperties
  <2> QED
    BY <2>1, <1>1 DEF Passes, RmvShape
<1>7. CASE k # 0
  <2>1. /\ k \in 1..Len(t.tlist) /\ u.tlist = RemoveAt(t.tlist, k)
        /\ Matches(t.tlist, i, p) # {} /\ t.tlist[k].packet = p
    BY <1>1, <1>3, <1>7 DEF IsFor
  <2>2. HeldTypes(t.buf, t.cur, t.tlist, t.msgs, t.pubs)
    BY RecordTypes
  <2>3. Carries(t, NoItem) => Held(t.buf, t.cur, RemoveAt(t.tlist, k), t.msgs, t.pubs, p)
    BY <2>1, <2>2, HeldRemove DEF Carries
  <2>4. Keeps(t, NoItem) => Kept(t.buf, t.cur, RemoveAt(t.tlist, k), t.msgs, t.pubs, p)
    BY <2>1, <2>2, KeptRemove DEF Keeps
  <2> QED
    BY <1>1, <1>4, <1>5, <2>1, <2>3, <2>4 DEF RmvShape, Passes, Carries, Keeps
<1> QED
  BY <1>6, <1>7

(* A CONNECT that is removed is no publish.                                *)
LEMMA RmvConnectIs ==
    ASSUME NEW t \in MqttRecord, NEW i, NEW u, u = Rmv(t, i, CONNECT)
    PROVE  RmvShape(t, u, i, CONNECT) /\ Passes(t, u, NoItem, NoItem)
<1>1. RmvShape(t, u, i, CONNECT)
  BY RmvPass
<1>2. Passes(t, u, NoItem, NoItem) \/ Passes(t, u, NoItem, CONNECT)
  BY <1>1 DEF RmvShape
<1>3. \A n \in Nat : CONNECT \notin Of(n) /\ NoItem \notin Of(n)
  BY NotOf
<1>4. Passes(u, u, CONNECT, NoItem)
  BY <1>3, PassPlain
<1> QED
  BY <1>1, <1>2, <1>4 DEF Passes

RsmShape(t, u, i, p) ==
    /\ u \in MqttRecord /\ SameBut(t, u, {"tlist", "msgs"})
    /\ t.tlist = <<>> => u = t
    /\ \/ u.msgs = t.msgs
       \/ p \in Repeated /\ u.msgs = Append(t.msgs, <<"MQTT_DUP_FAIL", i, p>>)
    /\ Passes(t, u, NoItem, NoItem)

LEMMA RsmIs ==
    ASSUME NEW t \in MqttRecord, NEW i \in Clients, NEW p \in Packets,
           NEW u, u = Rsm(t, i, p)
    PROVE  RsmShape(t, u, i, p)
<1> PICK k : k = FirstOf(t.tlist, i, p)
  OBVIOUS
<1> PICK q : q = t.tlist
  OBVIOUS
<1>1. q \in Seq(Entries) /\ Len(q) \in Nat
  BY LenProperties DEF MqttRecord
<1>2. \/ k = 0 /\ Matches(q, i, p) = {}
      \/ /\ k \in 1..Len(q) /\ IsFor(q[k], i, p) /\ k \in Matches(q, i, p)
  BY <1>1, FirstIs
<1>3. HeldTypes(t.buf, t.cur, q, t.msgs, t.pubs)
  BY RecordTypes
<1>4. SelectInSeq(q, LAMBDA e : IsFor(e, i, p)) = k
  BY SelectIs
<1>5. CASE k = 0
  <2>1. u = t
    BY <1>4, <1>5 DEF Rsm
  <2> QED
    BY <2>1 DEF RsmShape, SameBut, Passes
<1>6. CASE k # 0
  <2>1. /\ k \in 1..Len(q) /\ IsFor(q[k], i, p) /\ k \in Matches(q, i, p)
        /\ q[k] \in Entries /\ q # <<>>
    BY <1>1, <1>2, <1>6, ElementOfSeq
  <2>2. CASE q[k].cnt # 1
    <3> PICK e : e = [q[k] EXCEPT !.cnt = @ - 1, !.due = FALSE]
      OBVIOUS
    <3>1. e \in Entries /\ e.packet = q[k].packet
      <4>1. q[k].cnt \in 1..DupCnt /\ DupCnt \in Nat
        BY <2>1, MqttAssumption DEF Entries
      <4>2. q[k].cnt - 1 \in 1..DupCnt
        BY <4>1, <2>2
      <4> QED
        BY ONLY <4>2, <2>1, e = [q[k] EXCEPT !.cnt = @ - 1, !.due = FALSE] DEF Entries
    <3> PICK d : d = [q EXCEPT ![k] = e]
      OBVIOUS
    <3>2. d \in Seq(Entries)
      BY <3>1, <1>1, <2>1, ExceptSeq
    <3>3. u = [t EXCEPT !.tlist = d]
      <4>1. Rsm(t, i, p) = [[t EXCEPT !.tlist[k].cnt = @ - 1] EXCEPT !.tlist[k].due = FALSE]
        BY <1>4, <2>1, <2>2, <1>6 DEF Rsm
      <4>2. [[t EXCEPT !.tlist[k].cnt = @ - 1] EXCEPT !.tlist[k].due = FALSE]
            = [t EXCEPT !.tlist = d]
        BY <2>1, <1>1 DEF MqttRecord
      <4> QED
        BY <4>1, <4>2
    <3>4. u \in MqttRecord
      BY ONLY <3>2, <3>3, t \in MqttRecord DEF MqttRecord
    <3>5. SameBut(t, u, {"tlist"}) /\ u.tlist = d
      BY ONLY <3>3, t \in MqttRecord, RecordFields DEF SameBut, Fields
    <3>6. u.buf = t.buf /\ u.cur = t.cur /\ u.msgs = t.msgs /\ u.pubs = t.pubs
      BY <3>5 DEF SameBut, Fields
    <3>7. Carries(t, NoItem) => Held(t.buf, t.cur, d, t.msgs, t.pubs, NoItem)
      BY <1>3, <2>1, <3>1, HeldUpdate DEF Carries
    <3>8. Keeps(t, NoItem) => Kept(t.buf, t.cur, d, t.msgs, t.pubs, NoItem)
      BY <1>3, <2>1, <3>1, KeptUpdate DEF Keeps
    <3>9. Passes(t, u, NoItem, NoItem)
      BY <3>5, <3>6, <3>7, <3>8 DEF Passes, Carries, Keeps
    <3>10. SameBut(t, u, {"tlist", "msgs"})
      BY <3>5 DEF SameBut
    <3> QED
      BY <2>1, <3>4, <3>6, <3>9, <3>10 DEF RsmShape
  <2>3. CASE q[k].cnt = 1
    <3> PICK x : x = [q[k] EXCEPT !.cnt = @ - 1]
      OBVIOUS
    <3> PICK g : g = Append(t.msgs, <<"MQTT_DUP_FAIL", i, p>>)
      OBVIOUS
    <3> PICK d : d = RemoveAt(q, k)
      OBVIOUS
    <3> PICK f : f = [q EXCEPT ![k] = x]
      OBVIOUS
    <3>1. /\ RemoveAt(f, k) = d /\ Len(f) = Len(q)
          /\ \A j \in 1..Len(q) : f[j] = IF j = k THEN x ELSE q[j]
      <4>1. q \in Seq(Entries \union {x})
        <5>1. PICK n \in Nat : q \in [1..n -> Entries]
          BY ONLY <1>1, SeqDef
        <5>2. q \in [1..n -> Entries \union {x}]
          BY ONLY <5>1
        <5> QED
          BY ONLY <5>2, SeqDef
      <4>2. x \in Entries \union {x}
        OBVIOUS
      <4>3. RemoveAt([q EXCEPT ![k] = x], k) = RemoveAt(q, k)
        BY ONLY <4>1, <4>2, <2>1, RemoveAtExcept
      <4>4. /\ Len([q EXCEPT ![k] = x]) = Len(q)
            /\ \A j \in 1..Len(q) : [q EXCEPT ![k] = x][j] = IF j = k THEN x ELSE q[j]
        BY ONLY <4>1, <4>2, <2>1, ExceptSeq
      <4> QED
        BY <4>3, <4>4
    <3>2. x.client = q[k].client /\ x.packet = q[k].packet
      BY <2>1 DEF Entries
    <3>3. Matches(f, i, p) = Matches(q, i, p)
      BY <3>1, <3>2 DEF Matches, IsFor
    <3>4. RemoveFirstMatch(f, LAMBDA e : IsFor(e, i, p)) = d
      <4>1. RemoveFirstMatch(f, LAMBDA e : IsFor(e, i, p))
            = IF Matches(f, i, p) # {} THEN RemoveAt(f, FirstOf(f, i, p)) ELSE f
        BY DEF RemoveFirstMatch, Matches, SelectInSeq, FirstOf
      <4>2. FirstOf(f, i, p) = k
        BY <3>3 DEF FirstOf
      <4> QED
        BY <4>1, <4>2, <3>1, <3>3, <2>1
    <3>5. u = [t EXCEPT !.msgs = g, !.tlist = d]
      <4> PICK w : w = [[t EXCEPT !.tlist[k].cnt = @ - 1]
                            EXCEPT !.msgs = Append(@, <<"MQTT_DUP_FAIL", i, p>>)]
        OBVIOUS
      <4>1. Rsm(t, i, p) = Rmv(w, i, p)
        BY <1>4, <2>1, <2>3, <1>6 DEF Rsm
      <4>2. w = [t EXCEPT !.tlist = f, !.msgs = g]
        BY <2>1, <1>1 DEF MqttRecord
      <4>3. w.tlist = f
        BY <4>2 DEF MqttRecord
      <4>4. Rmv(w, i, p) = [w EXCEPT !.tlist = d]
        BY <4>3, <3>4 DEF Rmv
      <4>5. u = [w EXCEPT !.tlist = d]
        BY <4>1, <4>4
      <4> QED
        BY ONLY <4>5, <4>2, t \in MqttRecord DEF MqttRecord
    <3>6. d \in Seq(Entries)
      BY <1>1, <2>1, RemoveAtIs
    <3> PICK o : o = p
      OBVIOUS
    <3>7. o \in Repeated
      BY <2>1 DEF IsFor, Entries
    <3>8. g \in Seq(Messages)
      <4>1. <<"MQTT_DUP_FAIL", i, o>> \in Messages
        BY <3>7, FailIs
      <4> QED
        BY <4>1, AppendProperties DEF MqttRecord
    <3>9. u \in MqttRecord
      BY ONLY <3>5, <3>6, <3>8, t \in MqttRecord DEF MqttRecord
    <3>10. SameBut(t, u, {"tlist", "msgs"}) /\ u.tlist = d /\ u.msgs = g
      BY ONLY <3>5, t \in MqttRecord, RecordFields DEF SameBut, Fields
    <3>11. u.buf = t.buf /\ u.cur = t.cur /\ u.pubs = t.pubs
      BY <3>10 DEF SameBut, Fields
    <3>12. q[k].packet = p
      BY <2>1 DEF IsFor
    <3>13. HeldTypes(t.buf, t.cur, d, t.msgs, t.pubs)
      BY <1>3, <3>6 DEF HeldTypes
    <3>14. Carries(t, NoItem) => Held(t.buf, t.cur, d, t.msgs, t.pubs, p)
      BY <1>3, <2>1, <3>12, HeldRemove DEF Carries
    <3>15. Held(t.buf, t.cur, d, t.msgs, t.pubs, p)
           => Held(t.buf, t.cur, d, g, t.pubs, NoItem)
      BY <3>13, <3>7, HeldSayFail
    <3>16. Keeps(t, NoItem) => Kept(t.buf, t.cur, d, t.msgs, t.pubs, p)
      BY <1>3, <2>1, <3>12, KeptRemove DEF Keeps
    <3>17. Kept(t.buf, t.cur, d, t.msgs, t.pubs, p)
           => Kept(t.buf, t.cur, d, g, t.pubs, NoItem)
      BY <3>13, <3>7, KeptSayFail
    <3>18. Passes(t, u, NoItem, NoItem)
      BY <3>10, <3>11, <3>14, <3>15, <3>16, <3>17 DEF Passes, Carries, Keeps
    <3> QED
      BY <2>1, <3>9, <3>10, <3>18, <3>7 DEF RsmShape
  <2> QED
    BY <2>2, <2>3
<1> QED
  BY <1>5, <1>6

Fewer(r, s) == \A n \in Nat : Untold1(s, n) => Untold1(r, n)

TellShape(t, u, p) ==
    /\ u \in MqttRecord /\ SameBut(t, u, {"pubs"}) /\ Carries(u, NoItem)
    /\ Keeps(t, p) => Keeps(u, NoItem)
    /\ Fewer(t.pubs, u.pubs)

LEMMA TellIs ==
    ASSUME NEW t \in MqttRecord, NEW p \in Packets, Carries(t, p),
           NEW suc \in BOOLEAN, NEW u, u = Tell(t, p, suc)
    PROVE  TellShape(t, u, p)
<1>1. HeldTypes(t.buf, t.cur, t.tlist, t.msgs, t.pubs)
  BY RecordTypes
<1>2. CASE p.kind \notin {"PUB0", "PUB1"}
  <2>1. u = t
    BY <1>2 DEF Tell
  <2>2. \A n \in Nat : p \notin Of(n) /\ NoItem \notin Of(n)
    BY <1>2, NotOf
  <2>3. Passes(t, t, p, NoItem)
    BY <2>2, PassPlain
  <2> QED
    BY <2>1, <2>3 DEF TellShape, SameBut, Passes, Fewer
<1>3. CASE p.kind \in {"PUB0", "PUB1"}
  <2>1. p.n \in Nat /\ p \in Of(p.n)
    BY <1>3 DEF Packets, Of
  <2>2. p.n \in 1..Len(t.pubs) /\ t.pubs[p.n].told \in {"no", "lost"}
    BY <2>1 DEF Carries, Held, Untaught
  <2> PICK v : v = IF suc THEN "ok" ELSE "failed"
    OBVIOUS
  <2>3. v \in {"ok", "failed"}
    OBVIOUS
  <2> PICK s : s = [t.pubs EXCEPT ![p.n].told = v]
    OBVIOUS
  <2>4. /\ HeldTypes(t.buf, t.cur, t.tlist, t.msgs, s)
        /\ Held(t.buf, t.cur, t.tlist, t.msgs, s, NoItem)
    BY <1>1, <1>3, <2>3, HeldTell DEF Carries
  <2>5. Keeps(t, p) => Kept(t.buf, t.cur, t.tlist, t.msgs, s, NoItem)
    BY <1>1, <1>3, <2>2, <2>3, KeptTell DEF Keeps
  <2>6. u = [t EXCEPT !.pubs = s]
    <3>1. Tell(t, p, suc) = [t EXCEPT !.pubs[p.n].told = v]
      BY <1>3, <2>2 DEF Tell
    <3> QED
      BY <3>1
  <2>7. u \in MqttRecord
    <3>1. s \in Seq(Publishes)
      BY <2>4 DEF HeldTypes
    <3> QED
      BY ONLY <3>1, <2>6, t \in MqttRecord DEF MqttRecord
  <2>8. SameBut(t, u, {"pubs"}) /\ u.pubs = s
    BY ONLY <2>6, t \in MqttRecord, RecordFields DEF SameBut, Fields
  <2>9. u.buf = t.buf /\ u.cur = t.cur /\ u.msgs = t.msgs /\ u.tlist = t.tlist
    BY <2>8 DEF SameBut, Fields
  <2>10. Fewer(t.pubs, s)
    <3>1. t.pubs \in Seq(Publishes) /\ t.pubs[p.n] \in Publishes
      BY <2>2, ElementOfSeq DEF MqttRecord
    <3> PICK x : x = [t.pubs[p.n] EXCEPT !.told = v]
      OBVIOUS
    <3>2. x \in Publishes /\ x.told = v
      BY <3>1, <2>3 DEF Publishes, Results
    <3>3. s = [t.pubs EXCEPT ![p.n] = x]
      OBVIOUS
    <3>4. /\ Len(s) = Len(t.pubs)
          /\ \A n \in 1..Len(t.pubs) : s[n] = IF n = p.n THEN x ELSE t.pubs[n]
      BY <3>1, <3>2, <3>3, <2>2, ExceptSeq
    <3> QED
      BY <3>2, <3>4, <2>2, <2>3 DEF Fewer, Untold1
  <2> QED
    BY <2>4, <2>5, <2>7, <2>8, <2>9, <2>10 DEF TellShape, Carries, Keeps
<1> QED
  BY <1>2, <1>3

DownShape(t, u, i) ==
    /\ u \in MqttRecord
    /\ SameBut(t, u, {"tlist", "tping", "up", "session", "pubs"})
    /\ u.tlist = <<>> /\ u.tping = [t.tping EXCEPT ![i] = FALSE]
    /\ u.up = [t.up EXCEPT ![i] = FALSE]
    /\ u.session = [t.session EXCEPT ![i] = FALSE]
    /\ \A p : Carries(t, p) => Carries(u, p)
    /\ \A n \in Nat : Untold1(u.pubs, n) => u.pubs[n].client # i

LEMMA DownIs ==
    ASSUME NEW t \in MqttRecord, NEW i \in Clients, NEW u, u = Down(t, i)
    PROVE  DownShape(t, u, i)
<1>1. HeldTypes(t.buf, t.cur, t.tlist, t.msgs, t.pubs)
  BY RecordTypes
<1> PICK s : s = [n \in DOMAIN t.pubs |->
                    IF t.pubs[n].client = i /\ t.pubs[n].told = "no"
                    THEN [t.pubs[n] EXCEPT !.told = "lost"] ELSE t.pubs[n]]
  OBVIOUS
<1>2. ASSUME NEW p, Carries(t, p)
      PROVE  Held(t.buf, t.cur, <<>>, t.msgs, s, p)
  <2>1. /\ HeldTypes(t.buf, t.cur, <<>>, t.msgs, t.pubs)
        /\ Held(t.buf, t.cur, <<>>, t.msgs, t.pubs, p)
    BY <1>1, <1>2, HeldClear DEF Carries
  <2> QED
    BY <2>1, HeldLose
<1>3. s \in Seq(Publishes) /\ \A n \in Nat : Untold1(s, n) => s[n].client # i
  <2>1. /\ t.pubs \in Seq(Publishes) /\ Len(t.pubs) \in Nat
        /\ DOMAIN t.pubs = 1..Len(t.pubs)
    BY LenProperties DEF MqttRecord
  <2>2. ASSUME NEW n \in 1..Len(t.pubs)
        PROVE  s[n] \in Publishes /\ (s[n].told = "no" => s[n].client # i)
    <3>1. t.pubs[n] \in Publishes
      BY <2>1, ElementOfSeq
    <3>2. s[n] = IF t.pubs[n].client = i /\ t.pubs[n].told = "no"
                 THEN [t.pubs[n] EXCEPT !.told = "lost"] ELSE t.pubs[n]
      BY <2>1
    <3>3. /\ [t.pubs[n] EXCEPT !.told = "lost"] \in Publishes
          /\ [t.pubs[n] EXCEPT !.told = "lost"].told = "lost"
      BY <3>1 DEF Publishes, Results
    <3> QED
      BY ONLY <3>1, <3>2, <3>3
  <2>3. s = [n \in 1..Len(t.pubs) |-> s[n]]
    BY ONLY <2>1, s = [n \in DOMAIN t.pubs |->
                    IF t.pubs[n].client = i /\ t.pubs[n].told = "no"
                    THEN [t.pubs[n] EXCEPT !.told = "lost"] ELSE t.pubs[n]]
  <2>4. s \in Seq(Publishes) /\ Len(s) = Len(t.pubs)
    <3>1. s \in [1..Len(t.pubs) -> Publishes]
      BY ONLY <2>2, <2>3
    <3>2. s \in Seq(Publishes)
      BY ONLY <3>1, <2>1, SeqDef
    <3> QED
      BY ONLY <3>1, <3>2, <2>1, LenProperties
  <2> QED
    BY <2>2, <2>4 DEF Untold1
<1>4. u = [t EXCEPT !.tlist = <<>>, !.tping[i] = FALSE, !.up[i] = FALSE,
                    !.session[i] = FALSE, !.pubs = s]
  BY DEF Down, RmvAll, MqttRecord
<1>5. u \in MqttRecord
  <2>1. <<>> \in Seq(Entries)
    BY EmptySeq
  <2> QED
    BY ONLY <1>3, <1>4, <2>1, t \in MqttRecord, i \in Clients DEF MqttRecord, Flags
<1>6. /\ SameBut(t, u, {"tlist", "tping", "up", "session", "pubs"})
      /\ u.tlist = <<>> /\ u.tping = [t.tping EXCEPT ![i] = FALSE]
      /\ u.up = [t.up EXCEPT ![i] = FALSE]
      /\ u.session = [t.session EXCEPT ![i] = FALSE] /\ u.pubs = s
  BY ONLY <1>4, t \in MqttRecord, RecordFields DEF SameBut, Fields
<1>7. u.buf = t.buf /\ u.cur = t.cur /\ u.msgs = t.msgs
  BY <1>6 DEF SameBut, Fields
<1> QED
  BY <1>2, <1>3, <1>5, <1>6, <1>7 DEF DownShape, Carries

Shuts(s) == s \in Seq({SHUT}) /\ s # <<>>

FlushShape(t, u, i) ==
    /\ u \in MqttRecord /\ SameBut(t, u, {"cmds", "shuting", "buf"})
    /\ u.buf = [t.buf EXCEPT ![i] = <<>>]
    /\ t.buf[i] = <<>> => u = t
    /\ t.buf[i] # <<>> =>
         u.shuting = TRUE /\ \E s : Shuts(s) /\ u.cmds = t.cmds \o s
    /\ \A p : Carries(t, p) => Carries(u, p)

LEMMA FlushIs ==
    ASSUME NEW t \in MqttRecord, NEW i \in Clients, NEW u, u = Flush(t, i)
    PROVE  FlushShape(t, u, i)
<1>1. HeldTypes(t.buf, t.cur, t.tlist, t.msgs, t.pubs)
  BY RecordTypes
<1>2. t.buf \in [Clients -> Seq(Packets)] /\ t.buf[i] \in Seq(Packets)
      /\ t.cmds \in Seq(Commands)
  BY DEF MqttRecord
<1>3. CASE t.buf[i] = <<>>
  <2>1. u = t
    BY <1>3 DEF Flush
  <2>2. t.buf = [t.buf EXCEPT ![i] = <<>>]
    BY <1>2, <1>3
  <2> QED
    BY <1>3, <2>1, <2>2 DEF FlushShape, SameBut
<1>4. CASE t.buf[i] # <<>>
  <2> PICK s : s = [k \in DOMAIN t.buf[i] |-> SHUT]
    OBVIOUS
  <2>1. Shuts(s) /\ s \in Seq(Commands)
    <3>1. /\ DOMAIN t.buf[i] = 1..Len(t.buf[i]) /\ Len(t.buf[i]) \in Nat
          /\ Len(t.buf[i]) # 0
      BY <1>2, <1>4, LenProperties, EmptySeq
    <3>2. s \in [1..Len(t.buf[i]) -> {SHUT}]
      BY ONLY <3>1, s = [k \in DOMAIN t.buf[i] |-> SHUT]
    <3>3. s \in [1..Len(t.buf[i]) -> Commands]
      BY ONLY <3>2, CommandType
    <3>4. s \in Seq({SHUT}) /\ s \in Seq(Commands)
      BY ONLY <3>1, <3>2, <3>3, SeqDef
    <3>5. s # <<>>
      <4>1. Len(s) = Len(t.buf[i])
        BY ONLY <3>1, <3>2, <3>4, LenProperties
      <4> QED
        BY <4>1, <3>1
    <3> QED
      BY <3>4, <3>5 DEF Shuts
  <2> PICK q : q = t.cmds \o s
    OBVIOUS
  <2>2. q \in Seq(Commands)
    BY <1>2, <2>1, ConcatProperties
  <2>3. u = [t EXCEPT !.cmds = q, !.shuting = TRUE, !.buf[i] = <<>>]
    BY <1>4 DEF Flush
  <2>4. u \in MqttRecord
    <3>1. <<>> \in Seq(Packets)
      BY EmptySeq
    <3> QED
      BY ONLY <2>2, <2>3, <3>1, t \in MqttRecord, i \in Clients DEF MqttRecord
  <2> PICK b : b = [t.buf EXCEPT ![i] = <<>>]
    OBVIOUS
  <2>5. /\ SameBut(t, u, {"cmds", "shuting", "buf"})
        /\ u.cmds = q /\ u.shuting = TRUE /\ u.buf = b
    BY ONLY <2>3, t \in MqttRecord, RecordFields, b = [t.buf EXCEPT ![i] = <<>>]
       DEF SameBut, Fields
  <2>6. u.cur = t.cur /\ u.tlist = t.tlist /\ u.msgs = t.msgs /\ u.pubs = t.pubs
    BY <2>5 DEF SameBut, Fields
  <2>7. ASSUME NEW p, Carries(t, p) PROVE Carries(u, p)
    <3>1. Held(b, t.cur, t.tlist, t.msgs, t.pubs, p)
      BY <1>1, <2>7, HeldDropBuf DEF Carries
    <3> QED
      BY <3>1, <2>5, <2>6 DEF Carries
  <2> QED
    BY <1>4, <2>1, <2>4, <2>5, <2>7 DEF FlushShape
<1> QED
  BY <1>3, <1>4

ConnectShape(t, u, i) ==
    \E v : /\ SocketShape(t, v, i) /\ u \in MqttRecord
           /\ SameBut(v, u, {"conning", "dropped"})
           /\ u.conning = [t.conning EXCEPT ![i] = TRUE]
           /\ Carries(t, NoItem) => Carries(u, NoItem)

LEMMA ConnectIs ==
    ASSUME NEW t \in MqttRecord, NEW i \in Clients, NEW u, u = Connect(t, i)
    PROVE  ConnectShape(t, u, i)
<1> PICK v : v = SocketConnect(t, i)
  OBVIOUS
<1>1. SocketShape(t, v, i) /\ v \in MqttRecord
  <2>1. SocketShape(t, v, i)
    BY SocketConnectIs
  <2> QED
    BY <2>1 DEF SocketShape
<1>2. u = [v EXCEPT !.conning[i] = TRUE, !.dropped[i] = FALSE]
  BY DEF Connect
<1>3. u \in MqttRecord
  BY ONLY <1>1, <1>2, i \in Clients DEF MqttRecord, Flags
<1>4. SameBut(v, u, {"conning", "dropped"}) /\ u.conning = [v.conning EXCEPT ![i] = TRUE]
  BY ONLY <1>1, <1>2, RecordFields DEF SameBut, Fields
<1>5. v.conning = t.conning /\ v.tlist = t.tlist /\ v.msgs = t.msgs /\ v.pubs = t.pubs
  BY <1>1 DEF SocketShape, SameBut, Fields
<1>6. ASSUME Carries(t, NoItem) PROVE Carries(v, NoItem)
  <2>1. CASE t.link[i] \notin Closed
    BY <2>1, <1>1, <1>6 DEF SocketShape
  <2>2. CASE t.link[i] \in Closed
    <3> PICK b : b = [t.buf EXCEPT ![i] = <<>>]
      OBVIOUS
    <3> PICK c : c = [t.cur EXCEPT ![i] = NoItem]
      OBVIOUS
    <3>1. v.buf = b /\ v.cur = c
      BY <1>1, <2>2 DEF SocketShape
    <3>2. HeldTypes(t.buf, t.cur, t.tlist, t.msgs, t.pubs)
      BY RecordTypes
    <3>3. /\ HeldTypes(b, t.cur, t.tlist, t.msgs, t.pubs)
          /\ Held(b, t.cur, t.tlist, t.msgs, t.pubs, NoItem)
      BY <3>2, <1>6, HeldDropBuf DEF Carries
    <3>4. Held(b, c, t.tlist, t.msgs, t.pubs, t.cur[i])
      BY <3>3, HeldDropCur
    <3>5. Held(b, c, t.tlist, t.msgs, t.pubs, NoItem)
      BY <3>4, NotOf, HeldPlain
    <3> QED
      BY <3>1, <3>5, <1>5 DEF Carries
  <2> QED
    BY <2>1, <2>2
<1>7. Carries(v, NoItem) => Carries(u, NoItem)
  <2>1. {"conning", "dropped"} \intersect Five = {}
    BY DEF Five
  <2>2. Passes(v, u, NoItem, NoItem)
    BY <1>4, <2>1, PassSame
  <2> QED
    BY <2>2 DEF Passes
<1> QED
  BY <1>1, <1>3, <1>4, <1>5, <1>6, <1>7 DEF ConnectShape

DiscShape(t, u, i, user) ==
    \E v : /\ v \in MqttRecord /\ DisconnectShape(v, u, i)
           /\ SameBut(t, v, {"usertag", "discing"})
           /\ v.usertag = [t.usertag EXCEPT ![i] = user]
           /\ v.discing = [t.discing EXCEPT ![i] = TRUE]

LEMMA DiscCbIs ==
    ASSUME NEW t \in MqttRecord, NEW i \in Clients, NEW user \in BOOLEAN,
           NEW u, u = DiscCb(t, i, user)
    PROVE  /\ DiscShape(t, u, i, user) /\ u \in MqttRecord
           /\ \A p : Passes(t, u, p, p)
<1> PICK v : v = [t EXCEPT !.discing[i] = TRUE, !.usertag[i] = user]
  OBVIOUS
<1>1. v \in MqttRecord
  BY ONLY t \in MqttRecord, i \in Clients, user \in BOOLEAN,
     v = [t EXCEPT !.discing[i] = TRUE, !.usertag[i] = user] DEF MqttRecord, Flags
<1>2. /\ SameBut(t, v, {"usertag", "discing"})
      /\ v.usertag = [t.usertag EXCEPT ![i] = user]
      /\ v.discing = [t.discing EXCEPT ![i] = TRUE]
  BY ONLY t \in MqttRecord, RecordFields,
     v = [t EXCEPT !.discing[i] = TRUE, !.usertag[i] = user] DEF SameBut, Fields
<1>3. u = LinkDisconnect(v, i)
  <2>1. [[t EXCEPT !.discing[i] = TRUE] EXCEPT !.usertag[i] = user] = v
    OBVIOUS
  <2>2. u = LinkDisconnect([[t EXCEPT !.discing[i] = TRUE] EXCEPT !.usertag[i] = user], i)
    BY DEF DiscCb, Disconnect
  <2> QED
    BY ONLY <2>1, <2>2
<1>4. DisconnectShape(v, u, i)
  BY <1>1, <1>3, LinkDisconnectIs
<1>5. u \in MqttRecord
  BY <1>4 DEF DisconnectShape
<1>6. ASSUME NEW p PROVE Passes(t, u, p, p)
  <2>1. u.msgs = v.msgs \/ u.msgs = Append(v.msgs, <<"DISCONNECT", i, NoItem>>)
    BY <1>4 DEF DisconnectShape
  <2>2. /\ u.buf = t.buf /\ u.cur = t.cur /\ u.tlist = t.tlist /\ u.pubs = t.pubs
        /\ v.msgs = t.msgs
    <3>1. SameBut(v, u, {"link", "pending", "msgs", "cmds"})
      BY <1>4 DEF DisconnectShape
    <3> QED
      BY ONLY <3>1, <1>2 DEF SameBut, Fields
  <2>3. CASE u.msgs = v.msgs
    BY <2>2, <2>3 DEF Passes, Carries, Keeps
  <2>4. CASE u.msgs = Append(v.msgs, <<"DISCONNECT", i, NoItem>>)
    <3> PICK e : e = <<"DISCONNECT", i, NoItem>>
      OBVIOUS
    <3>1. e \in Messages /\ \A n \in Nat : e \notin FailOf(n)
      BY PacketType DEF Messages, FailOf
    <3>2. HeldTypes(t.buf, t.cur, t.tlist, t.msgs, t.pubs)
      BY RecordTypes
    <3>3. Carries(t, p) => Held(t.buf, t.cur, t.tlist, Append(t.msgs, e), t.pubs, p)
      BY <3>1, <3>2, HeldSay DEF Carries
    <3>4. Keeps(t, p) => Kept(t.buf, t.cur, t.tlist, Append(t.msgs, e), t.pubs, p)
      BY <3>1, <3>2, KeptSay DEF Keeps
    <3> QED
      BY <2>2, <2>4, <3>3, <3>4 DEF Passes, Carries, Keeps
  <2> QED
    BY <2>1, <2>3, <2>4
<1> QED
  BY <1>1, <1>2, <1>4, <1>5, <1>6 DEF DiscShape

----------------------------------------------------------------------------
(* The types of the states, for any clients and cases                      *)

(* A client that has used its cycles up has restarted the software.        *)
CycOK(t) == \A i \in Clients : t.cyc[i] < CycleMax \/ t.restart
Sound(t) == t \in MqttRecord /\ Carries(t, NoItem)
Fresh(t, i) == t.cyc[i] < CycleMax

LEMMA SoundSame ==
    ASSUME NEW t, NEW u, Sound(t), u \in MqttRecord, NEW F, SameBut(t, u, F),
           F \intersect Five = {}
    PROVE  Sound(u)
BY PassSame DEF Sound, Passes

LEMMA ShutSound ==
    ASSUME NEW t, Sound(t), NEW u, u = Shut(t)
    PROVE  Sound(u) /\ SameBut(t, u, {"cmds", "shuting"})
<1>1. u \in MqttRecord /\ SameBut(t, u, {"cmds", "shuting"})
  BY ShutIs DEF Sound
<1>2. {"cmds", "shuting"} \intersect Five = {}
  BY DEF Five
<1> QED
  BY <1>1, <1>2, SoundSame

LEMMA ConnectSound ==
    ASSUME NEW t, Sound(t), NEW i \in Clients, NEW u, u = ConnectLinked(t, i)
    PROVE  Sound(u) /\ u.cyc = t.cyc /\ u.restart = t.restart
<1>1. t \in MqttRecord
  BY DEF Sound
<1>2. CASE t.link[i] = "NIL LINK"
  BY <1>2 DEF ConnectLinked
<1>3. CASE t.link[i] # "NIL LINK"
  <2>1. ConnectShape(t, u, i)
    BY <1>1, <1>3, ConnectIs DEF ConnectLinked
  <2>2. PICK v : /\ SocketShape(t, v, i) /\ u \in MqttRecord
                 /\ SameBut(v, u, {"conning", "dropped"})
                 /\ Carries(t, NoItem) => Carries(u, NoItem)
    BY <2>1 DEF ConnectShape
  <2>3. SameBut(t, v, {"link", "pending", "cmds", "buf", "cur", "usertag"})
    BY <2>2 DEF SocketShape
  <2>4. u.cyc = t.cyc /\ u.restart = t.restart
    BY ONLY <2>2, <2>3 DEF SameBut, Fields
  <2> QED
    BY <2>2, <2>4 DEF Sound
<1> QED
  BY <1>2, <1>3

LEMMA ReconnSound ==
    ASSUME NEW t, Sound(t), NEW i \in Clients, Fresh(t, i), NEW u, u = Reconn(t, i)
    PROVE  /\ Sound(u) /\ (Fresh(u, i) \/ u.restart) /\ (t.restart => u.restart)
           /\ \A j \in Clients : j # i => u.cyc[j] = t.cyc[j]
<1>1. t \in MqttRecord
  BY DEF Sound
<1>2. /\ t.cnt \in [Clients -> 0..ReconnMax] /\ t.cyc \in [Clients -> 0..CycleMax]
      /\ t.conning[i] \in BOOLEAN /\ t.errcb[i] \in BOOLEAN
      /\ ReconnMax \in Nat \ {0} /\ CycleMax \in Nat \ {0}
  BY <1>1, MqttAssumption DEF MqttRecord, Flags
<1>3. CASE t.conning[i]
  BY <1>3 DEF Reconn
<1>4. CASE ~t.conning[i] /\ t.cnt[i] < ReconnMax
  <2> PICK a : a = [t EXCEPT !.cnt[i] = @ + 1]
    OBVIOUS
  <2>1. t.cnt[i] + 1 \in 0..ReconnMax
    BY <1>2, <1>4
  <2>2. a \in MqttRecord
    BY ONLY <2>1, <1>1, i \in Clients, a = [t EXCEPT !.cnt[i] = @ + 1] DEF MqttRecord
  <2>3. SameBut(t, a, {"cnt"})
    BY ONLY <1>1, RecordFields, a = [t EXCEPT !.cnt[i] = @ + 1] DEF SameBut, Fields
  <2>4. Sound(a)
    <3>1. {"cnt"} \intersect Five = {}
      BY DEF Five
    <3> QED
      BY <2>2, <2>3, <3>1, SoundSame
  <2> PICK b : b = Shut(a)
    OBVIOUS
  <2>5. Sound(b) /\ SameBut(a, b, {"cmds", "shuting"})
    BY <2>4, ShutSound
  <2>6. b.cyc = t.cyc /\ b.restart = t.restart
    BY ONLY <2>3, <2>5 DEF SameBut, Fields
  <2>7. u = IF 2 \in Clients THEN ConnectLinked(ConnectLinked(b, 1), 2)
            ELSE ConnectLinked(b, 1)
    BY <1>2, <1>4 DEF Reconn, InTurn
  <2> PICK c : c = ConnectLinked(b, 1)
    OBVIOUS
  <2>8. 1 \in Clients
    BY MqttAssumption
  <2>9. Sound(c) /\ c.cyc = t.cyc /\ c.restart = t.restart
    BY <2>5, <2>6, <2>8, ConnectSound
  <2>10. u = IF 2 \in Clients THEN ConnectLinked(c, 2) ELSE c
    BY <2>7
  <2>11. Sound(u) /\ u.cyc = t.cyc /\ u.restart = t.restart
    BY <2>9, <2>10, ConnectSound
  <2> QED
    BY <2>11 DEF Fresh
<1>5. CASE ~t.conning[i] /\ t.cnt[i] >= ReconnMax
  <2> PICK y : y = t.cyc[i] + 1
    OBVIOUS
  <2>1. y \in 0..CycleMax /\ 0 \in 0..ReconnMax /\ 0 \in 0..CycleMax
    BY <1>2 DEF Fresh
  <2> PICK a : a = [t EXCEPT !.cnt[i] = 0, !.cyc[i] = y]
    OBVIOUS
  <2>2. a \in MqttRecord
    BY ONLY <2>1, <1>1, i \in Clients, a = [t EXCEPT !.cnt[i] = 0, !.cyc[i] = y]
       DEF MqttRecord
  <2>3. SameBut(t, a, {"cnt", "cyc"}) /\ a.cyc = [t.cyc EXCEPT ![i] = y]
    BY ONLY <1>1, RecordFields, a = [t EXCEPT !.cnt[i] = 0, !.cyc[i] = y]
       DEF SameBut, Fields
  <2>4. a.cyc[i] = y /\ a.errcb = t.errcb /\ a.restart = t.restart
    BY <2>3, <1>2 DEF SameBut, Fields
  <2>5. \/ y < CycleMax /\ u = [a EXCEPT !.treconn[i] = TRUE]
        \/ ~(y < CycleMax) /\ u = [a EXCEPT !.cyc[i] = 0, !.wants[i] = FALSE]
        \/ ~(y < CycleMax) /\ u = [a EXCEPT !.restart = TRUE]
    <3>1. [t EXCEPT !.cnt[i] = 0, !.cyc[i] = @ + 1] = a
      OBVIOUS
    <3>2. u = Reconn(t, i)
      OBVIOUS
    <3>3. CASE y < CycleMax
      BY <3>1, <3>2, <3>3, <2>4, <1>5, <1>2 DEF Reconn
    <3>4. CASE ~(y < CycleMax)
      BY <3>1, <3>2, <3>4, <2>4, <1>5, <1>2, <2>1 DEF Reconn
    <3> QED
      BY <3>3, <3>4
  <2>6. u \in MqttRecord
    <3>1. ASSUME u = [a EXCEPT !.treconn[i] = TRUE] PROVE u \in MqttRecord
      BY ONLY <3>1, <2>2, i \in Clients DEF MqttRecord, Flags
    <3>2. ASSUME u = [a EXCEPT !.cyc[i] = 0, !.wants[i] = FALSE] PROVE u \in MqttRecord
      BY ONLY <3>2, <2>1, <2>2, i \in Clients DEF MqttRecord, Flags
    <3>3. ASSUME u = [a EXCEPT !.restart = TRUE] PROVE u \in MqttRecord
      BY ONLY <3>3, <2>2 DEF MqttRecord
    <3> QED
      BY <2>5, <3>1, <3>2, <3>3
  <2>7. /\ SameBut(a, u, {"treconn", "cyc", "wants", "restart"})
        /\ u.cyc = a.cyc \/ u.cyc = [a.cyc EXCEPT ![i] = 0]
        /\ (u.restart = a.restart /\ y < CycleMax /\ u.cyc = a.cyc)
           \/ (u.restart = a.restart /\ u.cyc = [a.cyc EXCEPT ![i] = 0])
           \/ u.restart = TRUE
    BY ONLY <2>2, <2>5, RecordFields DEF SameBut, Fields
  <2>8. SameBut(t, u, {"cnt", "cyc"} \union {"treconn", "cyc", "wants", "restart"})
    BY <2>3, <2>7, SameTrans
  <2>9. ({"cnt", "cyc"} \union {"treconn", "cyc", "wants", "restart"})
        \intersect Five = {}
    BY DEF Five
  <2>10. Sound(u)
    BY <2>6, <2>8, <2>9, SoundSame
  <2>11. \A j \in Clients : j # i => u.cyc[j] = t.cyc[j]
    BY <2>3, <2>7, <1>2
  <2>12. Fresh(u, i) \/ u.restart
    BY <2>3, <2>4, <2>7, <1>2, <2>1 DEF Fresh
  <2>13. t.restart => u.restart
    BY <2>4, <2>7
  <2> QED
    BY <2>10, <2>11, <2>12, <2>13
<1>6. t.cnt[i] < ReconnMax \/ t.cnt[i] >= ReconnMax
  BY <1>2
<1> QED
  BY <1>3, <1>4, <1>5, <1>6

Calm(t, u) == u.cyc = t.cyc /\ u.restart = t.restart

LEMMA CalmSame ==
    ASSUME NEW t, NEW u, NEW F, SameBut(t, u, F),
           F \intersect {"cyc", "restart"} = {}
    PROVE  Calm(t, u)
BY DEF SameBut, Fields, Calm

LEMMA SendSound ==
    ASSUME NEW t \in MqttRecord, NEW i \in Clients, NEW p \in Packets,
           Carries(t, p), NEW u, u = Send(t, i, p)
    PROVE  Sound(u) /\ Calm(t, u)
<1>1. SendShape(t, u, i, p) /\ Carries(u, NoItem)
  BY SendIs, SendPass
<1>2. u \in MqttRecord /\ SameBut(t, u, {"link", "pending", "cmds", "buf", "cur"})
  BY <1>1 DEF SendShape
<1>3. {"link", "pending", "cmds", "buf", "cur"} \intersect {"cyc", "restart"} = {}
  OBVIOUS
<1> QED
  BY <1>1, <1>2, <1>3, CalmSame DEF Sound

LEMMA SendPlainSound ==
    ASSUME NEW t, Sound(t), NEW i \in Clients,
           NEW p \in Packets, \A n \in Nat : p \notin Of(n), NEW u, u = Send(t, i, p)
    PROVE  Sound(u) /\ Calm(t, u)
<1>1. t \in MqttRecord /\ Carries(t, p)
  BY HeldPlain DEF Sound, Carries
<1> QED
  BY <1>1, SendSound

LEMMA SndNxtSound ==
    ASSUME NEW t, Sound(t), NEW i \in Clients, NEW u, u = SndNxt(t, i)
    PROVE  Sound(u) /\ Calm(t, u)
<1>1. t \in MqttRecord /\ Carries(t, NoItem)
  BY DEF Sound
<1>2. /\ u \in MqttRecord /\ SameBut(t, u, {"cmds", "buf", "cur"})
      /\ Passes(t, u, NoItem, NoItem)
  BY <1>1, SndNxtIs
<1>3. {"cmds", "buf", "cur"} \intersect {"cyc", "restart"} = {}
  OBVIOUS
<1> QED
  BY <1>1, <1>2, <1>3, CalmSame DEF Sound, Passes

LEMMA InsSound ==
    ASSUME NEW t \in MqttRecord, NEW i \in Clients, NEW p \in Repeated,
           Carries(t, p), NEW u, u = Ins(t, i, p)
    PROVE  Sound(u) /\ Calm(t, u)
<1>1. /\ u \in MqttRecord /\ SameBut(t, u, {"tlist"})
      /\ Passes(t, u, p, NoItem)
  BY InsIs
<1>2. {"tlist"} \intersect {"cyc", "restart"} = {}
  OBVIOUS
<1> QED
  BY <1>1, <1>2, CalmSame DEF Sound, Passes

LEMMA InsConnectSound ==
    ASSUME NEW t, Sound(t), NEW i \in Clients, NEW u, u = Ins(t, i, CONNECT)
    PROVE  Sound(u) /\ Calm(t, u)
<1>1. t \in MqttRecord /\ Carries(t, CONNECT) /\ CONNECT \in Repeated
  BY HeldPlain, NotOf DEF Sound, Carries, Repeated
<1> QED
  BY <1>1, InsSound

LEMMA RmvConnectSound ==
    ASSUME NEW t, Sound(t), NEW i, NEW u, u = Rmv(t, i, CONNECT)
    PROVE  Sound(u) /\ Calm(t, u)
<1>1. t \in MqttRecord /\ Carries(t, NoItem)
  BY DEF Sound
<1>2. RmvShape(t, u, i, CONNECT) /\ Passes(t, u, NoItem, NoItem)
  BY <1>1, RmvConnectIs
<1>3. u \in MqttRecord /\ SameBut(t, u, {"tlist"})
  BY <1>2 DEF RmvShape
<1>4. {"tlist"} \intersect {"cyc", "restart"} = {}
  OBVIOUS
<1> QED
  BY <1>1, <1>2, <1>3, <1>4, CalmSame DEF Sound, Passes

LEMMA RsmSound ==
    ASSUME NEW t, Sound(t), NEW i \in Clients, NEW p \in Packets,
           NEW u, u = Rsm(t, i, p)
    PROVE  Sound(u) /\ Calm(t, u)
<1>1. t \in MqttRecord /\ Carries(t, NoItem)
  BY DEF Sound
<1>2. RsmShape(t, u, i, p)
  BY <1>1, RsmIs
<1>3. /\ u \in MqttRecord /\ SameBut(t, u, {"tlist", "msgs"})
      /\ Passes(t, u, NoItem, NoItem)
  BY <1>2 DEF RsmShape
<1>4. {"tlist", "msgs"} \intersect {"cyc", "restart"} = {}
  OBVIOUS
<1> QED
  BY <1>1, <1>3, <1>4, CalmSame DEF Sound, Passes

LEMMA TellSound ==
    ASSUME NEW t \in MqttRecord, NEW p \in Packets, Carries(t, p),
           NEW suc \in BOOLEAN, NEW u, u = Tell(t, p, suc)
    PROVE  Sound(u) /\ Calm(t, u)
<1>1. TellShape(t, u, p)
  BY TellIs
<1>2. u \in MqttRecord /\ SameBut(t, u, {"pubs"}) /\ Carries(u, NoItem)
  BY <1>1 DEF TellShape
<1>3. {"pubs"} \intersect {"cyc", "restart"} = {}
  OBVIOUS
<1> QED
  BY <1>2, <1>3, CalmSame DEF Sound

LEMMA DownSound ==
    ASSUME NEW t, Sound(t), NEW i \in Clients, NEW u, u = Down(t, i)
    PROVE  Sound(u) /\ Calm(t, u)
<1>1. t \in MqttRecord /\ Carries(t, NoItem)
  BY DEF Sound
<1>2. DownShape(t, u, i)
  BY <1>1, DownIs
<1>3. /\ u \in MqttRecord /\ Carries(u, NoItem)
      /\ SameBut(t, u, {"tlist", "tping", "up", "session", "pubs"})
  BY <1>1, <1>2 DEF DownShape
<1>4. {"tlist", "tping", "up", "session", "pubs"} \intersect {"cyc", "restart"} = {}
  OBVIOUS
<1> QED
  BY <1>3, <1>4, CalmSame DEF Sound

LEMMA FlushSound ==
    ASSUME NEW t, Sound(t), NEW i \in Clients, NEW u, u = Flush(t, i)
    PROVE  Sound(u) /\ Calm(t, u)
<1>1. t \in MqttRecord /\ Carries(t, NoItem)
  BY DEF Sound
<1>2. FlushShape(t, u, i)
  BY <1>1, FlushIs
<1>3. /\ u \in MqttRecord /\ Carries(u, NoItem)
      /\ SameBut(t, u, {"cmds", "shuting", "buf"})
  BY <1>1, <1>2 DEF FlushShape
<1>4. {"cmds", "shuting", "buf"} \intersect {"cyc", "restart"} = {}
  OBVIOUS
<1> QED
  BY <1>3, <1>4, CalmSame DEF Sound

LEMMA DiscCbSame ==
    ASSUME NEW t \in MqttRecord, NEW i, NEW user, NEW u, DiscShape(t, u, i, user)
    PROVE  SameBut(t, u, {"usertag", "discing", "link", "pending", "msgs", "cmds"})
<1>1. PICK v : /\ v \in MqttRecord /\ DisconnectShape(v, u, i)
               /\ SameBut(t, v, {"usertag", "discing"})
  BY DEF DiscShape
<1>2. SameBut(v, u, {"link", "pending", "msgs", "cmds"})
  BY <1>1 DEF DisconnectShape
<1>3. SameBut(t, u, {"usertag", "discing"} \union {"link", "pending", "msgs", "cmds"})
  BY <1>1, <1>2, SameTrans
<1>4. {"usertag", "discing"} \union {"link", "pending", "msgs", "cmds"}
      = {"usertag", "discing", "link", "pending", "msgs", "cmds"}
  OBVIOUS
<1> QED
  BY <1>3, <1>4

LEMMA DiscCbSound ==
    ASSUME NEW t, Sound(t), NEW i \in Clients, NEW user \in BOOLEAN,
           NEW u, u = DiscCb(t, i, user)
    PROVE  Sound(u) /\ Calm(t, u)
<1>1. t \in MqttRecord /\ Carries(t, NoItem)
  BY DEF Sound
<1>2. DiscShape(t, u, i, user) /\ u \in MqttRecord /\ Passes(t, u, NoItem, NoItem)
  BY <1>1, DiscCbIs
<1>3. SameBut(t, u, {"usertag", "discing", "link", "pending", "msgs", "cmds"})
  BY <1>1, <1>2, DiscCbSame
<1>4. {"usertag", "discing", "link", "pending", "msgs", "cmds"}
      \intersect {"cyc", "restart"} = {}
  OBVIOUS
<1> QED
  BY <1>1, <1>2, <1>3, <1>4, CalmSame DEF Sound, Passes

LEMMA SndConnectSound ==
    ASSUME NEW t, Sound(t), NEW i \in Clients, NEW u, u = SndConnect(t, i)
    PROVE  Sound(u) /\ Calm(t, u)
<1> PICK v : v = Rmv(t, i, CONNECT)
  OBVIOUS
<1>1. Sound(v) /\ Calm(t, v)
  BY RmvConnectSound
<1>2. u = IF Accepts(v, i) THEN Send(v, i, CONNECT) ELSE Ins(v, i, CONNECT)
  BY DEF SndConnect
<1>3. CASE Accepts(v, i)
  <2>1. Sound(u) /\ Calm(v, u)
    BY <1>1, <1>2, <1>3, SendPlainSound, PacketType, NotOf
  <2> QED
    BY <1>1, <2>1 DEF Calm
<1>4. CASE ~Accepts(v, i)
  <2>1. Sound(u) /\ Calm(v, u)
    BY <1>1, <1>2, <1>4, InsConnectSound
  <2> QED
    BY <1>1, <2>1 DEF Calm
<1> QED
  BY <1>3, <1>4

LEMMA SndDisconnectSound ==
    ASSUME NEW t, Sound(t), NEW i \in Clients, NEW user \in BOOLEAN,
           NEW u, u = SndDisconnect(t, i, user)
    PROVE  Sound(u) /\ Calm(t, u)
<1>1. CASE Accepts(t, i)
  BY <1>1, SendPlainSound, PacketType, NotOf DEF SndDisconnect
<1>2. CASE ~Accepts(t, i)
  BY <1>2, DiscCbSound DEF SndDisconnect
<1> QED
  BY <1>1, <1>2

LEMMA SentSound ==
    ASSUME NEW t \in MqttRecord, NEW i \in Clients, NEW p \in Packets,
           Carries(t, p), NEW u, u = Sent(t, i, p)
    PROVE  Sound(u) /\ Calm(t, u)
<1>1. p.kind \notin {"PUB0", "PUB1"} => Sound(t)
  <2>1. \A n \in Nat : NoItem \notin Of(n)
    BY NotOf
  <2>2. ASSUME p.kind \notin {"PUB0", "PUB1"} PROVE Carries(t, NoItem)
    BY <2>1, HeldPlain DEF Carries
  <2> QED
    BY <2>2 DEF Sound
<1>2. CASE p.kind = "PUB0"
  BY <1>2, TellSound DEF Sent
<1>3. CASE p.kind = "PUB1"
  <2>1. p \in Repeated
    BY <1>3 DEF Packets, Repeated, Packet
  <2>2. u = Ins(t, i, p)
    BY <1>3 DEF Sent
  <2> QED
    BY <2>1, <2>2, InsSound
<1>4. CASE p.kind = "CONNECT"
  <2>1. u = Ins(t, i, CONNECT)
    BY <1>4 DEF Sent
  <2> QED
    BY <1>1, <1>4, <2>1, InsConnectSound
<1>5. CASE p.kind = "DISCONNECT"
  <2>1. u = DiscCb(t, i, FALSE)
    BY <1>5 DEF Sent
  <2> QED
    BY <1>1, <1>5, <2>1, DiscCbSound
<1>6. CASE p.kind = "DUP"
  <2> PICK o : o = IF p.n = 0 THEN CONNECT ELSE Packet("PUB1", p.n)
    OBVIOUS
  <2>1. u = Rsm(t, i, o)
    BY <1>6 DEF Sent
  <2>2. o \in Packets
    BY PacketType DEF Packets, Kinds, Packet
  <2> QED
    BY <1>1, <1>6, <2>1, <2>2, RsmSound
<1>7. CASE p.kind \notin {"PUB0", "PUB1", "CONNECT", "DISCONNECT", "DUP"}
  BY <1>1, <1>7 DEF Sent, Calm
<1> QED
  BY <1>2, <1>3, <1>4, <1>5, <1>6, <1>7

(* The state after an event of client i                                    *)
Settled(t, u, i) ==
    /\ Sound(u) /\ (Fresh(u, i) \/ u.restart) /\ (t.restart => u.restart)
    /\ \A j \in Clients : j # i => u.cyc[j] = t.cyc[j]

LEMMA ReconnSettled ==
    ASSUME NEW t, Sound(t), NEW i \in Clients, Fresh(t, i), NEW u, u = Reconn(t, i)
    PROVE  Settled(t, u, i)
BY ONLY Sound(t), Fresh(t, i), u = Reconn(t, i), i \in Clients, ReconnSound DEF Settled

LEMMA CalmSettled ==
    ASSUME NEW t, NEW u, NEW v, NEW i, Calm(t, u), Settled(u, v, i)
    PROVE  Settled(t, v, i)
BY DEF Calm, Settled

LEMMA QuietSettled ==
    ASSUME NEW t, NEW u, NEW i, Calm(t, u), Sound(u), Fresh(t, i)
    PROVE  Settled(t, u, i)
BY DEF Calm, Settled, Fresh

LEMMA ReconnDown ==
    ASSUME NEW t, Sound(t), NEW i \in Clients, Fresh(t, i),
           NEW u, u = Reconn(Down(t, i), i)
    PROVE  Settled(t, u, i)
<1> PICK v : v = Down(t, i)
  OBVIOUS
<1>1. Sound(v) /\ Calm(t, v)
  BY DownSound
<1>2. Fresh(v, i) /\ u = Reconn(v, i)
  BY <1>1 DEF Fresh, Calm
<1>3. Settled(v, u, i)
  BY <1>1, <1>2, ReconnSound DEF Settled
<1> QED
  BY <1>1, <1>3, CalmSettled

LEMMA NtfyDownSound ==
    ASSUME NEW t, Sound(t), NEW i \in Clients, Fresh(t, i), NEW u,
           \/ u = NtfyClosed(t, i) \/ u = NtfyShuted(t, i)
           \/ \E user : u = NtfyDisconnect(t, i, user)
    PROVE  Settled(t, u, i)
<1> PICK v : v = Down(t, i)
  OBVIOUS
<1>1. Sound(v) /\ Calm(t, v)
  BY DownSound
<1> PICK a : a = [v EXCEPT !.discing[i] = FALSE]
  OBVIOUS
<1> PICK b : b = [v EXCEPT !.discing[i] = FALSE, !.dropped[i] = TRUE]
  OBVIOUS
<1>2. u = a \/ u = b \/ u = Reconn(Down(t, i), i)
  BY DEF NtfyClosed, NtfyShuted, NtfyDisconnect
<1> PICK w : (w = a \/ w = b) /\ (u = w \/ u = Reconn(Down(t, i), i))
  BY <1>2
<1>3. Sound(w) /\ Calm(v, w)
  <2>1. w \in MqttRecord
    <3>1. a \in MqttRecord
      BY ONLY <1>1, i \in Clients, a = [v EXCEPT !.discing[i] = FALSE]
         DEF MqttRecord, Flags, Sound
    <3>2. b \in MqttRecord
      BY ONLY <1>1, i \in Clients,
              b = [v EXCEPT !.discing[i] = FALSE, !.dropped[i] = TRUE]
         DEF MqttRecord, Flags, Sound
    <3> QED
      BY <3>1, <3>2
  <2>2. SameBut(v, w, {"discing", "dropped"})
    BY ONLY <1>1, RecordFields, w = a \/ w = b,
            a = [v EXCEPT !.discing[i] = FALSE],
            b = [v EXCEPT !.discing[i] = FALSE, !.dropped[i] = TRUE]
       DEF SameBut, Fields, Sound
  <2>3. {"discing", "dropped"} \intersect Five = {}
    BY DEF Five
  <2>4. {"discing", "dropped"} \intersect {"cyc", "restart"} = {}
    OBVIOUS
  <2> QED
    BY <1>1, <2>1, <2>2, <2>3, <2>4, SoundSame, CalmSame
<1>4. Calm(t, w)
  BY <1>1, <1>3 DEF Calm
<1> QED
  BY <1>3, <1>4, QuietSettled, ReconnDown

LEMMA LinkSound ==
    ASSUME NEW t, Sound(t), NEW i \in Clients, NEW s \in LinkStates,
           NEW u, u = [t EXCEPT !.link[i] = s]
    PROVE  Sound(u) /\ Calm(t, u) /\ SameBut(t, u, {"link"})
           /\ u.link = [t.link EXCEPT ![i] = s]
<1>1. u \in MqttRecord
  BY ONLY Sound(t), i \in Clients, s \in LinkStates, u = [t EXCEPT !.link[i] = s]
     DEF MqttRecord, Sound
<1>2. SameBut(t, u, {"link"}) /\ u.link = [t.link EXCEPT ![i] = s]
  BY ONLY Sound(t), RecordFields, u = [t EXCEPT !.link[i] = s]
     DEF SameBut, Fields, Sound
<1>3. {"link"} \intersect Five = {}
  BY DEF Five
<1>4. {"link"} \intersect {"cyc", "restart"} = {}
  OBVIOUS
<1> QED
  BY <1>1, <1>2, <1>3, <1>4, SoundSame, CalmSame

(* A connection has been made.                                             *)
LEMMA NtfyConnectSound ==
    ASSUME NEW t, Sound(t), NEW i \in Clients, Fresh(t, i),
           NEW u, u = NtfyConnect(t, i)
    PROVE  Settled(t, u, i)
<1> PICK v : v = [t EXCEPT !.conning[i] = FALSE, !.up[i] = TRUE, !.cnt[i] = 0,
                           !.cyc[i] = 0, !.treconn[i] = FALSE]
  OBVIOUS
<1>1. 0 \in 0..ReconnMax /\ 0 \in 0..CycleMax /\ 0 < CycleMax
  BY MqttAssumption
<1>2. v \in MqttRecord
  BY ONLY <1>1, Sound(t), i \in Clients,
     v = [t EXCEPT !.conning[i] = FALSE, !.up[i] = TRUE, !.cnt[i] = 0,
                   !.cyc[i] = 0, !.treconn[i] = FALSE] DEF MqttRecord, Flags, Sound
<1>3. /\ SameBut(t, v, {"conning", "up", "cnt", "cyc", "treconn"})
      /\ v.cyc = [t.cyc EXCEPT ![i] = 0]
  BY ONLY Sound(t), RecordFields,
     v = [t EXCEPT !.conning[i] = FALSE, !.up[i] = TRUE, !.cnt[i] = 0,
                   !.cyc[i] = 0, !.treconn[i] = FALSE] DEF SameBut, Fields, Sound
<1>4. Sound(v)
  <2>1. {"conning", "up", "cnt", "cyc", "treconn"} \intersect Five = {}
    BY DEF Five
  <2> QED
    BY <1>2, <1>3, <2>1, SoundSame
<1>5. Sound(u) /\ Calm(v, u)
  BY <1>4, SndConnectSound DEF NtfyConnect
<1>6. t.cyc \in [Clients -> 0..CycleMax] /\ v.restart = t.restart
  BY <1>3 DEF Sound, MqttRecord, SameBut, Fields
<1> QED
  BY <1>1, <1>3, <1>5, <1>6 DEF Settled, Calm, Fresh

LEMMA StatusSound ==
    ASSUME NEW t, Sound(t), NEW i \in Clients, Fresh(t, i), NEW v,
           NEW u, u = StatusInd(t, i, v)
    PROVE  Settled(t, u, i)
<1> PICK c : c = [t EXCEPT !.link[i] = "CLOSED"]
  OBVIOUS
<1>1. Sound(c) /\ Calm(t, c)
  BY LinkSound DEF LinkStates
<1>2. Fresh(c, i)
  BY <1>1 DEF Fresh, Calm
<1>3. CASE t.link[i] = "NIL LINK"
  BY <1>3, QuietSettled DEF StatusInd, Calm
<1>4. CASE t.link[i] # "NIL LINK" /\ v = "CONNECT OK"
  <2> PICK o : o = [t EXCEPT !.link[i] = "CONNECTED"]
    OBVIOUS
  <2>1. Sound(o) /\ Calm(t, o)
    BY LinkSound DEF LinkStates
  <2> PICK w : w = NtfyConnect(o, i)
    OBVIOUS
  <2>2. Settled(o, w, i)
    BY <2>1, NtfyConnectSound DEF Fresh, Calm
  <2>3. u = SndNxt(w, i)
    BY <1>4 DEF StatusInd
  <2>4. Sound(u) /\ Calm(w, u)
    BY <2>2, <2>3, SndNxtSound DEF Settled
  <2> QED
    BY <2>1, <2>2, <2>4 DEF Settled, Calm, Fresh
<1>5. CASE t.link[i] = "CONNECTING" /\ v # "CONNECT OK"
  <2> PICK f : f = Flush(c, i)
    OBVIOUS
  <2>1. Sound(f) /\ Calm(c, f)
    BY <1>1, FlushSound
  <2>2. u = [f EXCEPT !.conning[i] = FALSE, !.treconn[i] = TRUE, !.cur[i] = NoItem]
    <3>1. u = [[f EXCEPT !.conning[i] = FALSE, !.treconn[i] = TRUE]
                 EXCEPT !.cur[i] = NoItem]
      BY <1>5 DEF StatusInd, NtfyConnectFail
    <3> QED
      BY ONLY <3>1
  <2>3. u \in MqttRecord
    <3>1. NoItem \in Packets
      BY PacketType
    <3> QED
      BY ONLY <2>1, <2>2, <3>1, i \in Clients DEF MqttRecord, Flags, Sound
  <2> PICK e : e = [f.cur EXCEPT ![i] = NoItem]
    OBVIOUS
  <2>4. SameBut(f, u, {"conning", "treconn", "cur"}) /\ u.cur = e
    BY ONLY <2>1, <2>2, RecordFields, e = [f.cur EXCEPT ![i] = NoItem]
       DEF SameBut, Fields, Sound
  <2>5. Calm(f, u)
    BY <2>4, CalmSame
  <2>6. /\ u.buf = f.buf /\ u.tlist = f.tlist /\ u.msgs = f.msgs /\ u.pubs = f.pubs
    BY <2>4 DEF SameBut, Fields
  <2>7. Carries(u, NoItem)
    <3>1. HeldTypes(f.buf, f.cur, f.tlist, f.msgs, f.pubs)
      BY <2>1, RecordTypes DEF Sound
    <3>2. Held(f.buf, e, f.tlist, f.msgs, f.pubs, f.cur[i])
      BY <3>1, <2>1, HeldDropCur DEF Sound, Carries
    <3>3. Held(f.buf, e, f.tlist, f.msgs, f.pubs, NoItem)
      BY <3>2, HeldPlain, NotOf
    <3> QED
      BY <3>3, <2>4, <2>6 DEF Carries
  <2> QED
    BY <1>1, <2>1, <2>3, <2>5, <2>7, QuietSettled DEF Sound, Calm
<1>6. CASE t.link[i] \notin {"NIL LINK", "CONNECTING"} /\ v = "CLOSED"
  <2> PICK f : f = Flush(c, i)
    OBVIOUS
  <2>1. Sound(f) /\ Calm(c, f)
    BY <1>1, FlushSound
  <2>2. u = NtfyClosed(f, i)
    BY <1>6 DEF StatusInd
  <2>3. Settled(f, u, i)
    BY <1>2, <2>1, <2>2, NtfyDownSound DEF Fresh, Calm
  <2> QED
    BY <1>1, <2>1, <2>3, CalmSettled
<1>7. CASE t.link[i] \notin {"NIL LINK", "CONNECTING"} /\ v = "ERROR"
  <2>1. u = Shut(c)
    BY <1>7 DEF StatusInd
  <2>2. Sound(u) /\ SameBut(c, u, {"cmds", "shuting"})
    BY <1>1, <2>1, ShutSound
  <2>3. Calm(c, u)
    BY <2>2, CalmSame
  <2> QED
    BY <1>1, <2>2, <2>3, QuietSettled DEF Calm
<1>8. CASE t.link[i] \notin {"NIL LINK", "CONNECTING"}
           /\ v \notin {"CONNECT OK", "CLOSED", "ERROR"}
  <2>1. u = c
    BY <1>8 DEF StatusInd
  <2> QED
    BY <1>1, <2>1, QuietSettled
<1> QED
  BY <1>3, <1>4, <1>5, <1>6, <1>7, <1>8

LEMMA CloseCnfSound ==
    ASSUME NEW t, Sound(t), NEW i \in Clients, Fresh(t, i),
           NEW u, u = CloseCnf(t, i)
    PROVE  Settled(t, u, i)
<1>1. CASE t.link[i] = "DISCONNECTING"
  <2> PICK c : c = [t EXCEPT !.link[i] = "CLOSED"]
    OBVIOUS
  <2>1. Sound(c) /\ Calm(t, c)
    BY LinkSound DEF LinkStates
  <2> PICK w : w = [c EXCEPT !.usertag[i] = FALSE]
    OBVIOUS
  <2>2. w \in MqttRecord
    BY ONLY <2>1, i \in Clients, w = [c EXCEPT !.usertag[i] = FALSE]
       DEF MqttRecord, Flags, Sound
  <2>3. SameBut(c, w, {"usertag"})
    BY ONLY <2>1, RecordFields, w = [c EXCEPT !.usertag[i] = FALSE]
       DEF SameBut, Fields, Sound
  <2>4. {"usertag"} \intersect Five = {}
    BY DEF Five
  <2>5. Sound(w) /\ Calm(c, w)
    BY <2>1, <2>2, <2>3, <2>4, SoundSame, CalmSame
  <2>6. u = NtfyDisconnect(w, i, t.usertag[i])
    <3>1. w = [t EXCEPT !.link[i] = "CLOSED", !.usertag[i] = FALSE]
      OBVIOUS
    <3> QED
      BY <3>1, <1>1 DEF CloseCnf
  <2>7. Settled(w, u, i)
    BY <2>1, <2>5, <2>6, NtfyDownSound DEF Fresh, Calm
  <2> QED
    BY <2>1, <2>5, <2>7, CalmSettled
<1>2. CASE t.link[i] # "DISCONNECTING"
  BY <1>2, QuietSettled DEF CloseCnf, Calm
<1> QED
  BY <1>1, <1>2

LEMMA SendCnfSound ==
    ASSUME NEW t, Sound(t), NEW i \in Clients, NEW suc \in BOOLEAN,
           NEW u, u = SendCnf(t, i, suc)
    PROVE  Sound(u) /\ Calm(t, u)
<1> PICK v : v = [t EXCEPT !.cur[i] = NoItem]
  OBVIOUS
<1> PICK p : p = t.cur[i]
  OBVIOUS
<1>1. t \in MqttRecord /\ p \in Packets
  BY DEF Sound, MqttRecord
<1>2. v \in MqttRecord
  <2>1. NoItem \in Packets
    BY PacketType
  <2> QED
    BY ONLY <1>1, <2>1, i \in Clients, v = [t EXCEPT !.cur[i] = NoItem] DEF MqttRecord
<1> PICK e : e = [t.cur EXCEPT ![i] = NoItem]
  OBVIOUS
<1>3. SameBut(t, v, {"cur"}) /\ v.cur = e
  BY ONLY <1>1, RecordFields, v = [t EXCEPT !.cur[i] = NoItem],
     e = [t.cur EXCEPT ![i] = NoItem] DEF SameBut, Fields
<1>4. Calm(t, v)
  BY <1>3, CalmSame
<1>5. Carries(v, p)
  <2>1. v.buf = t.buf /\ v.tlist = t.tlist /\ v.msgs = t.msgs /\ v.pubs = t.pubs
    BY <1>3 DEF SameBut, Fields
  <2>2. HeldTypes(t.buf, t.cur, t.tlist, t.msgs, t.pubs)
    BY <1>1, RecordTypes
  <2>3. Held(t.buf, e, t.tlist, t.msgs, t.pubs, p)
    BY <2>2, HeldDropCur DEF Sound, Carries
  <2> QED
    BY <1>3, <2>1, <2>3 DEF Carries
<1>6. CASE suc
  <2> PICK w : w = Sent(v, i, p)
    OBVIOUS
  <2>1. Sound(w) /\ Calm(v, w)
    BY <1>1, <1>2, <1>5, SentSound
  <2>2. u = SndNxt(w, i)
    BY <1>6 DEF SendCnf
  <2>3. Sound(u) /\ Calm(w, u)
    BY <2>1, <2>2, SndNxtSound
  <2> QED
    BY <1>4, <2>1, <2>3 DEF Calm
<1>7. CASE ~suc
  <2>1. Sound(v)
    BY <1>2, <1>5, HeldPlain, NotOf DEF Sound, Carries
  <2> PICK w : w = Shut(v)
    OBVIOUS
  <2>2. Sound(w) /\ SameBut(v, w, {"cmds", "shuting"})
    BY <2>1, ShutSound
  <2>3. Calm(v, w)
    BY <2>2, CalmSame
  <2>4. u = Flush(w, i)
    BY <1>7 DEF SendCnf, NotSent
  <2>5. Sound(u) /\ Calm(w, u)
    BY <2>2, <2>4, FlushSound
  <2> QED
    BY <1>4, <2>3, <2>5 DEF Calm
<1> QED
  BY <1>6, <1>7

LEMMA ShutOneSound ==
    ASSUME NEW t, Sound(t), NEW i \in Clients, Fresh(t, i),
           NEW u, u = ShutOne(t, i)
    PROVE  Settled(t, u, i)
<1> PICK c : c = [t EXCEPT !.link[i] = "CLOSED"]
  OBVIOUS
<1>1. Sound(c) /\ Calm(t, c)
  BY LinkSound DEF LinkStates
<1>2. u = t \/ u = NtfyShuted(c, i)
  BY DEF ShutOne
<1>3. CASE u = t
  BY <1>3, QuietSettled DEF Calm
<1>4. CASE u = NtfyShuted(c, i)
  <2>1. Settled(c, u, i)
    BY <1>1, <1>4, NtfyDownSound DEF Fresh, Calm
  <2> QED
    BY <1>1, <2>1, CalmSettled
<1> QED
  BY <1>2, <1>3, <1>4

LEMMA ShutCnfSound ==
    ASSUME NEW t, Sound(t), CycOK(t), ~t.restart, NEW u, u = ShutCnf(t)
    PROVE  Sound(u) /\ CycOK(u)
<1> PICK v : v = [t EXCEPT !.shuting = FALSE, !.ip = FALSE]
  OBVIOUS
<1>1. v \in MqttRecord
  BY ONLY Sound(t), v = [t EXCEPT !.shuting = FALSE, !.ip = FALSE]
     DEF MqttRecord, Sound
<1>2. SameBut(t, v, {"shuting", "ip"})
  BY ONLY Sound(t), RecordFields, v = [t EXCEPT !.shuting = FALSE, !.ip = FALSE]
     DEF SameBut, Fields, Sound
<1>3. Sound(v) /\ Calm(t, v)
  <2>1. {"shuting", "ip"} \intersect Five = {}
    BY DEF Five
  <2> QED
    BY <1>1, <1>2, <2>1, SoundSame, CalmSame
<1>4. 1 \in Clients /\ (\A j \in Clients : j = 1 \/ j = 2)
  BY MqttAssumption
<1>5. \A j \in Clients : Fresh(v, j)
  BY <1>3 DEF Calm, Fresh, CycOK
<1> PICK w : w = ShutOne(v, 1)
  OBVIOUS
<1>6. Settled(v, w, 1)
  BY <1>3, <1>4, <1>5, ShutOneSound
<1>7. u = IF 2 \in Clients THEN ShutOne(w, 2) ELSE w
  BY DEF ShutCnf, InTurn
<1>8. CASE 2 \in Clients
  <2>1. Sound(w) /\ Fresh(w, 2)
    BY <1>5, <1>6, <1>8 DEF Settled, Fresh
  <2>2. Settled(w, u, 2)
    BY <2>1, <1>7, <1>8, ShutOneSound
  <2>3. \A j \in Clients : Fresh(u, j) \/ u.restart
    <3>1. Fresh(u, 2) \/ u.restart
      BY <2>2 DEF Settled
    <3>2. Fresh(u, 1) \/ u.restart
      BY <2>2, <1>4, <1>6 DEF Settled, Fresh
    <3> QED
      BY <3>1, <3>2, <1>4
  <2> QED
    BY <2>2, <2>3 DEF CycOK, Settled, Fresh
<1>9. CASE 2 \notin Clients
  <2>1. Fresh(w, 1) \/ w.restart
    BY <1>6 DEF Settled
  <2> QED
    BY <2>1, <1>4, <1>6, <1>7, <1>9 DEF CycOK, Settled, Fresh
<1> QED
  BY <1>8, <1>9

LEMMA PendOneSound ==
    ASSUME NEW t, Sound(t), NEW i \in Clients, NEW u, u = ConnPendOne(t, i)
    PROVE  /\ Sound(u) /\ Calm(t, u)
           /\ t.pending[i] => \E v : /\ v \in MqttRecord /\ SameBut(t, v, {"pending"})
                                     /\ v.pending = [t.pending EXCEPT ![i] = FALSE]
                                     /\ SameBut(v, u, {"cmds"})
                                     /\ u.cmds = Append(v.cmds, Cmd("CIPSTART", i))
           /\ ~t.pending[i] => u = t
<1>1. CASE ~t.pending[i]
  BY <1>1 DEF ConnPendOne, Calm
<1>2. CASE t.pending[i]
  <2> PICK v : v = [t EXCEPT !.pending[i] = FALSE]
    OBVIOUS
  <2>1. v \in MqttRecord
    BY ONLY Sound(t), i \in Clients, v = [t EXCEPT !.pending[i] = FALSE]
       DEF MqttRecord, Flags, Sound
  <2>2. SameBut(t, v, {"pending"}) /\ v.pending = [t.pending EXCEPT ![i] = FALSE]
    BY ONLY Sound(t), RecordFields, v = [t EXCEPT !.pending[i] = FALSE]
       DEF SameBut, Fields, Sound
  <2>3. u = Req(v, Cmd("CIPSTART", i))
    BY <1>2 DEF ConnPendOne
  <2>4. /\ u \in MqttRecord /\ SameBut(v, u, {"cmds"})
        /\ u.cmds = Append(v.cmds, Cmd("CIPSTART", i))
    BY <2>1, <2>3, ReqIs, CommandType
  <2>5. SameBut(t, u, {"pending"} \union {"cmds"})
    BY <2>2, <2>4, SameTrans
  <2>6. ({"pending"} \union {"cmds"}) \intersect Five = {}
    BY DEF Five
  <2>7. Calm(t, u)
    BY <2>5, CalmSame
  <2> QED
    BY <1>2, <2>1, <2>2, <2>4, <2>5, <2>6, <2>7, SoundSame
<1> QED
  BY <1>1, <1>2

LEMMA ConnPendSound ==
    ASSUME NEW t, Sound(t), NEW u, u = ConnPend(t)
    PROVE  Sound(u) /\ Calm(t, u)
<1> PICK v : v = [t EXCEPT !.ip = TRUE]
  OBVIOUS
<1>1. v \in MqttRecord
  BY ONLY Sound(t), v = [t EXCEPT !.ip = TRUE] DEF MqttRecord, Sound
<1>2. SameBut(t, v, {"ip"})
  BY ONLY Sound(t), RecordFields, v = [t EXCEPT !.ip = TRUE] DEF SameBut, Fields, Sound
<1>3. Sound(v) /\ Calm(t, v)
  <2>1. {"ip"} \intersect Five = {}
    BY DEF Five
  <2> QED
    BY <1>1, <1>2, <2>1, SoundSame, CalmSame
<1> PICK w : w = ConnPendOne(v, 1)
  OBVIOUS
<1>4. Sound(w) /\ Calm(v, w)
  <2>1. 1 \in Clients
    BY MqttAssumption
  <2> QED
    BY <1>3, <2>1, PendOneSound
<1>5. u = IF 2 \in Clients THEN ConnPendOne(w, 2) ELSE w
  BY DEF ConnPend, InTurn
<1>6. CASE 2 \in Clients
  <2>1. Sound(u) /\ Calm(w, u)
    BY <1>4, <1>5, <1>6, PendOneSound
  <2> QED
    BY <1>3, <1>4, <2>1 DEF Calm
<1> QED
  BY <1>3, <1>4, <1>5, <1>6 DEF Calm

(* To tell the result and to drop the packet are independent.              *)
LEMMA PubAckIs ==
    ASSUME NEW t \in MqttRecord, NEW i \in Clients, NEW p \in Packets,
           Carries(t, NoItem), NEW u, u = PubAck(t, i, p)
    PROVE  \/ u = t
           \/ \E w : /\ RmvShape(t, w, i, p) /\ Matches(t.tlist, i, p) # {}
                     /\ TellShape(w, u, p)
<1>1. CASE Matches(t.tlist, i, p) = {}
  <2>1. t.tlist \in Seq(Entries)
    BY DEF MqttRecord
  <2>2. DOMAIN t.tlist = 1..Len(t.tlist)
    BY <2>1, LenProperties
  <2> QED
    BY <1>1, <2>2 DEF PubAck, Matches
<1>2. CASE Matches(t.tlist, i, p) # {}
  <2>1. DOMAIN t.tlist = 1..Len(t.tlist)
    BY LenProperties DEF MqttRecord
  <2>2. u = Rmv(Tell(t, p, TRUE), i, p)
    BY <1>2, <2>1 DEF PubAck, Matches
  <2> PICK w : w = Rmv(t, i, p)
    OBVIOUS
  <2>3. RmvShape(t, w, i, p)
    BY RmvPass
  <2>4. w \in MqttRecord /\ Passes(t, w, NoItem, p)
    BY <2>3, <1>2 DEF RmvShape
  <2>5. Carries(w, p)
    BY <2>4 DEF Passes
  <2>6. u = Tell(w, p, TRUE)
    <3> PICK d : d = RemoveFirstMatch(t.tlist, LAMBDA e : IsFor(e, i, p))
      OBVIOUS
    <3>1. w = [t EXCEPT !.tlist = d]
      BY DEF Rmv
    <3>2. CASE p.kind \notin {"PUB0", "PUB1"}
      BY <3>2, <2>2 DEF Tell
    <3>3. CASE p.kind \in {"PUB0", "PUB1"}
      <4> PICK s : s = [t.pubs EXCEPT ![p.n].told =
                          IF @ \in {"ok", "failed"} THEN "again" ELSE "ok"]
        OBVIOUS
      <4> PICK v : v = [t EXCEPT !.pubs = s]
        OBVIOUS
      <4>1. Tell(t, p, TRUE) = v
        BY <3>3 DEF Tell
      <4>2. v.tlist = t.tlist
        OBVIOUS
      <4>3. u = [v EXCEPT !.tlist = d]
        BY <2>2, <4>1, <4>2 DEF Rmv
      <4>4. w.pubs = t.pubs
        BY ONLY <3>1
      <4>5. Tell(w, p, TRUE) = [w EXCEPT !.pubs = s]
        BY <3>3, <4>4 DEF Tell
      <4>6. [v EXCEPT !.tlist = d] = [w EXCEPT !.pubs = s]
        BY ONLY <3>1, t \in MqttRecord, v = [t EXCEPT !.pubs = s] DEF MqttRecord
      <4> QED
        BY <4>3, <4>5, <4>6
    <3> QED
      BY <3>2, <3>3
  <2>7. TellShape(w, u, p)
    BY <2>4, <2>5, <2>6, TellIs
  <2> QED
    BY <1>2, <2>3, <2>7
<1> QED
  BY <1>1, <1>2

LEMMA PubAckSound ==
    ASSUME NEW t, Sound(t), NEW i \in Clients, NEW p \in Packets,
           NEW u, u = PubAck(t, i, p)
    PROVE  Sound(u) /\ Calm(t, u)
<1>1. \/ u = t
      \/ \E w : /\ RmvShape(t, w, i, p) /\ Matches(t.tlist, i, p) # {}
                /\ TellShape(w, u, p)
  BY PubAckIs DEF Sound
<1>2. CASE u = t
  BY <1>2 DEF Calm
<1>3. CASE \E w : /\ RmvShape(t, w, i, p) /\ Matches(t.tlist, i, p) # {}
                  /\ TellShape(w, u, p)
  <2> PICK w : RmvShape(t, w, i, p) /\ TellShape(w, u, p)
    BY <1>3
  <2>1. SameBut(t, w, {"tlist"})
    BY DEF RmvShape
  <2>2. u \in MqttRecord /\ SameBut(w, u, {"pubs"}) /\ Carries(u, NoItem)
    BY DEF TellShape
  <2>3. Calm(t, w) /\ Calm(w, u)
    BY <2>1, <2>2, CalmSame
  <2> QED
    BY <2>2, <2>3 DEF Sound, Calm
<1> QED
  BY <1>1, <1>2, <1>3

LEMMA ConnAckSound ==
    ASSUME NEW t, Sound(t), NEW i \in Clients, NEW suc \in BOOLEAN,
           NEW u, u = ConnAck(t, i, suc)
    PROVE  Sound(u) /\ Calm(t, u)
<1>1. CASE ~suc
  BY <1>1 DEF ConnAck, Calm
<1>2. CASE suc
  <2> PICK v : v = [t EXCEPT !.session[i] = TRUE]
    OBVIOUS
  <2>1. v \in MqttRecord
    BY ONLY Sound(t), i \in Clients, v = [t EXCEPT !.session[i] = TRUE]
       DEF MqttRecord, Flags, Sound
  <2>2. SameBut(t, v, {"session"})
    BY ONLY Sound(t), RecordFields, v = [t EXCEPT !.session[i] = TRUE]
       DEF SameBut, Fields, Sound
  <2>3. {"session"} \intersect Five = {}
    BY DEF Five
  <2>4. Sound(v) /\ Calm(t, v)
    BY <2>1, <2>2, <2>3, SoundSame, CalmSame
  <2>5. u = Rmv(v, i, CONNECT)
    BY <1>2 DEF ConnAck
  <2>6. Sound(u) /\ Calm(v, u)
    BY <2>4, <2>5, RmvConnectSound
  <2> QED
    BY <2>4, <2>6 DEF Calm
<1> QED
  BY <1>1, <1>2

----------------------------------------------------------------------------
(* The inductive invariant of any clients and cases, action by action      *)

Connections == [Clients -> {"free", "opening", "open"}]
Servers == [Clients -> SUBSET Packets]

TInv == Sound(m) /\ CycOK(m) /\ conn \in Connections /\ srv \in Servers

LEMMA CalmCyc ==
    ASSUME NEW t, NEW u, CycOK(t), Calm(t, u)
    PROVE  CycOK(u)
BY DEF CycOK, Calm

LEMMA SettledCyc ==
    ASSUME NEW t, NEW u, NEW i, CycOK(t), ~t.restart, Settled(t, u, i)
    PROVE  CycOK(u)
BY DEF CycOK, Settled, Fresh

LEMMA StartSound ==
    Sound(Start) /\ CycOK(Start) /\ Each("free") \in Connections /\ Each({}) \in Servers
<1>1. Each(FALSE) \in Flags /\ Each("NIL LINK") \in [Clients -> LinkStates]
  BY DEF Each, Flags, LinkStates
<1>2. Each(<<>>) \in [Clients -> Seq(Packets)] /\ Each(NoItem) \in [Clients -> Packets]
  BY EmptySeq, PacketType DEF Each
<1>3. Each(0) \in [Clients -> 0..ReconnMax] /\ Each(0) \in [Clients -> 0..CycleMax]
  BY MqttAssumption DEF Each
<1>4. <<>> \in Seq(Entries) /\ <<>> \in Seq(Messages) /\ <<>> \in Seq(Commands)
      /\ <<>> \in Seq(Publishes)
  BY EmptySeq
<1>5. Start \in MqttRecord
  BY ONLY <1>1, <1>2, <1>3, <1>4 DEF Start, MqttRecord
<1>6. /\ Start.buf = Each(<<>>) /\ Start.cur = Each(NoItem) /\ Start.tlist = <<>>
      /\ Start.msgs = <<>> /\ Start.pubs = <<>> /\ Start.cyc = Each(0)
  BY DEF Start
<1>7. \A n \in Nat : One(Each(<<>>), Each(NoItem), <<>>, <<>>, n)
                     /\ None(Each(<<>>), Each(NoItem), <<>>, <<>>, n)
  BY EmptyHas, NotOf DEF One, None, Here, Each
<1>8. Carries(Start, NoItem)
  BY <1>6, <1>7, NotOf DEF Carries, Held
<1>9. CycOK(Start)
  BY <1>6, MqttAssumption DEF CycOK, Each
<1>10. Each("free") \in Connections /\ Each({}) \in Servers
  BY DEF Each, Connections, Servers
<1> QED
  BY <1>5, <1>8, <1>9, <1>10 DEF Sound

LEMMA ProgramConnectsSound ==
    ASSUME TInv, ProgramConnects PROVE Sound(m') /\ CycOK(m')
<1>1. Sound(m) /\ CycOK(m)
  BY DEF TInv
<1>2. PICK i \in Clients, e \in BOOLEAN :
        LET t == [m EXCEPT !.errcb[i] = e, !.wants[i] = TRUE]
        IN  m' = CASE m.session[i] -> t
                   [] ~m.session[i] /\ ~m.up[i] -> Connect(t, i)
                   [] ~m.session[i] /\ m.up[i] -> SndConnect(t, i)
  BY DEF ProgramConnects
<1> PICK t : t = [m EXCEPT !.errcb[i] = e, !.wants[i] = TRUE]
  OBVIOUS
<1>3. t \in MqttRecord
  BY ONLY <1>1, i \in Clients, e \in BOOLEAN,
     t = [m EXCEPT !.errcb[i] = e, !.wants[i] = TRUE] DEF MqttRecord, Flags, Sound
<1>4. SameBut(m, t, {"errcb", "wants"})
  BY ONLY <1>1, RecordFields, t = [m EXCEPT !.errcb[i] = e, !.wants[i] = TRUE]
     DEF SameBut, Fields, Sound
<1>5. Sound(t) /\ Calm(m, t)
  <2>1. {"errcb", "wants"} \intersect Five = {}
    BY DEF Five
  <2> QED
    BY <1>1, <1>3, <1>4, <2>1, SoundSame, CalmSame
<1>6. m' = t \/ m' = Connect(t, i) \/ m' = SndConnect(t, i)
  BY <1>1, <1>2 DEF Sound, MqttRecord, Flags
<1>7. CASE m' = t
  BY <1>1, <1>5, <1>7, CalmCyc
<1>8. CASE m' = SndConnect(t, i)
  <2>1. Sound(m') /\ Calm(t, m')
    BY <1>5, <1>8, SndConnectSound
  <2> QED
    BY <1>1, <1>5, <2>1, CalmCyc
<1>9. CASE m' = Connect(t, i)
  <2>1. ConnectShape(t, m', i)
    BY <1>3, <1>9, ConnectIs
  <2>2. PICK v : /\ SocketShape(t, v, i) /\ m' \in MqttRecord
                 /\ SameBut(v, m', {"conning", "dropped"})
                 /\ Carries(t, NoItem) => Carries(m', NoItem)
    BY <2>1 DEF ConnectShape
  <2>3. SameBut(t, v, {"link", "pending", "cmds", "buf", "cur", "usertag"})
    BY <2>2 DEF SocketShape
  <2>4. Calm(t, m')
    BY ONLY <2>2, <2>3 DEF SameBut, Fields, Calm
  <2> QED
    BY <1>1, <1>5, <2>2, <2>4, CalmCyc DEF Sound
<1> QED
  BY <1>6, <1>7, <1>8, <1>9

LEMMA ProgramDisconnectsSound ==
    ASSUME TInv, ProgramDisconnects PROVE Sound(m') /\ CycOK(m')
<1>1. Sound(m) /\ CycOK(m)
  BY DEF TInv
<1>2. PICK i \in Clients : m' = SndDisconnect([m EXCEPT !.wants[i] = FALSE], i, TRUE)
  BY DEF ProgramDisconnects
<1> PICK t : t = [m EXCEPT !.wants[i] = FALSE]
  OBVIOUS
<1>3. t \in MqttRecord
  BY ONLY <1>1, i \in Clients, t = [m EXCEPT !.wants[i] = FALSE]
     DEF MqttRecord, Flags, Sound
<1>4. SameBut(m, t, {"wants"})
  BY ONLY <1>1, RecordFields, t = [m EXCEPT !.wants[i] = FALSE]
     DEF SameBut, Fields, Sound
<1>5. Sound(t) /\ Calm(m, t)
  <2>1. {"wants"} \intersect Five = {}
    BY DEF Five
  <2> QED
    BY <1>1, <1>3, <1>4, <2>1, SoundSame, CalmSame
<1>6. Sound(m') /\ Calm(t, m')
  BY <1>2, <1>5, SndDisconnectSound
<1> QED
  BY <1>1, <1>5, <1>6, CalmCyc

LEMMA PublishSound ==
    ASSUME TInv, Publish PROVE Sound(m') /\ CycOK(m')
<1>1. Sound(m) /\ CycOK(m)
  BY DEF TInv
<1>2. PICK i \in Clients, k \in {"PUB0", "PUB1"} :
         LET p == Packet(k, Len(m.pubs) + 1)
             t == [m EXCEPT !.pubs = Append(@, [client |-> i, told |-> "no"])]
         IN  m' = CASE ~m.session[i] \/ (~Accepts(t, i) /\ k = "PUB0") ->
                          Tell(t, p, FALSE)
                    [] m.session[i] /\ Accepts(t, i) -> Send(t, i, p)
                    [] OTHER -> Ins(t, i, p)
  BY DEF Publish
<1> PICK p : p = Packet(k, Len(m.pubs) + 1)
  OBVIOUS
<1> PICK s : s = Append(m.pubs, [client |-> i, told |-> "no"])
  OBVIOUS
<1> PICK t : t = [m EXCEPT !.pubs = s]
  OBVIOUS
<1>3. /\ HeldTypes(m.buf, m.cur, m.tlist, m.msgs, s) /\ p \in Packets
      /\ Held(m.buf, m.cur, m.tlist, m.msgs, s, p)
  <2>1. HeldTypes(m.buf, m.cur, m.tlist, m.msgs, m.pubs)
    BY <1>1, RecordTypes DEF Sound
  <2> QED
    BY <2>1, <1>1, HeldPublish DEF Sound, Carries
<1>4. t \in MqttRecord
  <2>1. s \in Seq(Publishes)
    BY <1>3 DEF HeldTypes
  <2> QED
    BY ONLY <1>1, <2>1, t = [m EXCEPT !.pubs = s] DEF MqttRecord, Sound
<1>5. SameBut(m, t, {"pubs"}) /\ t.pubs = s
  BY ONLY <1>1, RecordFields, t = [m EXCEPT !.pubs = s] DEF SameBut, Fields, Sound
<1>6. Calm(m, t) /\ Carries(t, p)
  <2>1. t.buf = m.buf /\ t.cur = m.cur /\ t.tlist = m.tlist /\ t.msgs = m.msgs
    BY <1>5 DEF SameBut, Fields
  <2> QED
    BY <1>3, <1>5, <2>1, CalmSame DEF Carries
<1>7. \/ m' = Tell(t, p, FALSE) \/ m' = Send(t, i, p)
      \/ k = "PUB1" /\ m' = Ins(t, i, p)
  BY <1>1, <1>2 DEF Sound, MqttRecord, Flags
<1>8. k = "PUB1" => p \in Repeated
  <2>1. Len(m.pubs) + 1 \in Nat
    BY <1>1, LenProperties DEF Sound, MqttRecord
  <2> QED
    BY <2>1 DEF Repeated
<1>9. Sound(m') /\ Calm(t, m')
  BY <1>3, <1>4, <1>6, <1>7, <1>8, TellSound, SendSound, InsSound
<1> QED
  BY <1>1, <1>6, <1>9, CalmCyc

LEMMA HearIs ==
    ASSUME NEW t, Sound(t), t.msgs # <<>>, NEW u, u = [t EXCEPT !.msgs = Tail(@)]
    PROVE  /\ u \in MqttRecord /\ SameBut(t, u, {"msgs"}) /\ u.msgs = Tail(t.msgs)
           /\ Sound(u) /\ Calm(t, u) /\ Head(t.msgs) \in Messages
           /\ Head(t.msgs)[1] = "MQTT_DUP_FAIL" => Carries(u, Head(t.msgs)[3])
<1> PICK g : g = Tail(t.msgs)
  OBVIOUS
<1>1. HeldTypes(t.buf, t.cur, t.tlist, t.msgs, t.pubs)
  BY RecordTypes DEF Sound
<1>2. /\ HeldTypes(t.buf, t.cur, t.tlist, g, t.pubs) /\ Head(t.msgs) \in Messages
      /\ Held(t.buf, t.cur, t.tlist, g, t.pubs, NoItem)
      /\ Head(t.msgs)[1] = "MQTT_DUP_FAIL" =>
           Held(t.buf, t.cur, t.tlist, g, t.pubs, Head(t.msgs)[3])
  BY <1>1, HeldHear DEF Sound, Carries
<1>3. u = [t EXCEPT !.msgs = g] /\ g \in Seq(Messages)
  BY <1>2 DEF HeldTypes
<1>4. u \in MqttRecord
  BY ONLY <1>3, Sound(t) DEF MqttRecord, Sound
<1>5. SameBut(t, u, {"msgs"}) /\ u.msgs = g
  BY ONLY <1>3, Sound(t), RecordFields DEF SameBut, Fields, Sound
<1>6. u.buf = t.buf /\ u.cur = t.cur /\ u.tlist = t.tlist /\ u.pubs = t.pubs
  BY <1>5 DEF SameBut, Fields
<1>7. Calm(t, u)
  BY <1>5, CalmSame
<1> QED
  BY <1>2, <1>4, <1>5, <1>6, <1>7 DEF Sound, Carries

LEMMA MessageSound ==
    ASSUME TInv, Message PROVE Sound(m') /\ CycOK(m')
<1>1. Sound(m) /\ CycOK(m) /\ m.msgs # <<>> /\ ~m.restart
  BY DEF TInv, Message
<1> PICK e : e = Head(m.msgs)
  OBVIOUS
<1> PICK t : t = [m EXCEPT !.msgs = Tail(@)]
  OBVIOUS
<1> PICK n : n = IF e[3] = CONNECT THEN 0 ELSE e[3].n
  OBVIOUS
<1>2. /\ Sound(t) /\ Calm(m, t) /\ e \in Messages
      /\ e[1] = "MQTT_DUP_FAIL" => Carries(t, e[3])
  BY <1>1, HearIs
<1>3. /\ e[1] \in {"DISCONNECT", "MQTT_DUP_IND", "MQTT_DUP_FAIL"}
      /\ e[2] \in Clients /\ e[3] \in Packets
  BY <1>2 DEF Messages
<1>4. m' = CASE e[1] = "DISCONNECT" -> CloseCnf(t, e[2])
             [] e[1] = "MQTT_DUP_IND" ->
                   IF Accepts(t, e[2]) THEN Send(t, e[2], Packet("DUP", n))
                   ELSE Rsm(t, e[2], e[3])
             [] e[1] = "MQTT_DUP_FAIL" -> Tell(t, e[3], FALSE)
  BY DEF Message
<1>5. CASE e[1] = "DISCONNECT"
  <2>1. Fresh(t, e[2])
    BY <1>1, <1>2, <1>3 DEF CycOK, Calm, Fresh
  <2>2. m' = CloseCnf(t, e[2])
    BY <1>4, <1>5
  <2>3. Settled(t, m', e[2])
    BY <1>2, <1>3, <2>1, <2>2, CloseCnfSound
  <2>4. CycOK(t) /\ ~t.restart
    BY <1>1, <1>2, CalmCyc DEF Calm
  <2> QED
    BY <2>3, <2>4, SettledCyc DEF Settled
<1>6. CASE e[1] = "MQTT_DUP_IND"
  <2>1. m' = IF Accepts(t, e[2]) THEN Send(t, e[2], Packet("DUP", n))
             ELSE Rsm(t, e[2], e[3])
    BY <1>4, <1>6
  <2>2. n \in Nat
    BY <1>3 DEF Packets
  <2>3. Packet("DUP", n) \in Packets /\ \A o \in Nat : Packet("DUP", n) \notin Of(o)
    BY <2>2, NotOf, PacketType DEF Kinds
  <2>4. Sound(m') /\ Calm(t, m')
    BY <2>1, <2>3, <1>2, <1>3, SendPlainSound, RsmSound
  <2> QED
    BY <1>1, <1>2, <2>4, CalmCyc
<1>7. CASE e[1] = "MQTT_DUP_FAIL"
  <2>1. m' = Tell(t, e[3], FALSE)
    BY <1>4, <1>7
  <2>2. t \in MqttRecord /\ Carries(t, e[3])
    BY <1>2, <1>7 DEF Sound
  <2>3. Sound(m') /\ Calm(t, m')
    BY <2>1, <2>2, <1>3, TellSound
  <2> QED
    BY <1>1, <1>2, <2>3, CalmCyc
<1> QED
  BY <1>3, <1>5, <1>6, <1>7

LEMMA DupTimerIs ==
    ASSUME NEW t, Sound(t), NEW k \in DOMAIN t.tlist, NEW u,
           u = [t EXCEPT !.tlist[k].due = TRUE,
                         !.msgs = Append(@, <<"MQTT_DUP_IND",
                              t.tlist[k].client, t.tlist[k].packet>>)]
    PROVE  /\ Sound(u) /\ SameBut(t, u, {"tlist", "msgs"})
           /\ Passes(t, u, NoItem, NoItem) /\ t.tlist[k] \in Entries
<1>1. t.tlist \in Seq(Entries) /\ k \in 1..Len(t.tlist) /\ t.tlist[k] \in Entries
  BY ElementOfSeq, LenProperties DEF Sound, MqttRecord
<1> PICK x : x = [t.tlist[k] EXCEPT !.due = TRUE]
  OBVIOUS
<1> PICK e : e = <<"MQTT_DUP_IND", t.tlist[k].client, t.tlist[k].packet>>
  OBVIOUS
<1>2. x \in Entries /\ x.packet = t.tlist[k].packet
  BY ONLY <1>1, x = [t.tlist[k] EXCEPT !.due = TRUE] DEF Entries
<1>3. e \in Messages /\ \A n \in Nat : e \notin FailOf(n)
  <2>1. t.tlist[k].client \in Clients /\ t.tlist[k].packet \in Packets
    BY <1>1, PacketType DEF Entries, Repeated, Kinds
  <2> QED
    BY <2>1 DEF Messages, FailOf
<1> PICK d : d = [t.tlist EXCEPT ![k] = x]
  OBVIOUS
<1> PICK g : g = Append(t.msgs, e)
  OBVIOUS
<1>4. d \in Seq(Entries)
  BY <1>1, <1>2, ExceptSeq
<1>5. g \in Seq(Messages)
  BY <1>3, AppendProperties DEF Sound, MqttRecord
<1>6. u = [t EXCEPT !.tlist = d, !.msgs = g]
  OBVIOUS
<1>7. u \in MqttRecord
  BY ONLY <1>4, <1>5, <1>6, Sound(t) DEF MqttRecord, Sound
<1>8. SameBut(t, u, {"tlist", "msgs"}) /\ u.tlist = d /\ u.msgs = g
  BY ONLY <1>6, Sound(t), RecordFields DEF SameBut, Fields, Sound
<1>9. u.buf = t.buf /\ u.cur = t.cur /\ u.pubs = t.pubs
  BY <1>8 DEF SameBut, Fields
<1>10. HeldTypes(t.buf, t.cur, t.tlist, t.msgs, t.pubs)
  BY RecordTypes DEF Sound
<1>11. HeldTypes(t.buf, t.cur, d, t.msgs, t.pubs)
  BY <1>4, <1>10 DEF HeldTypes
<1>12. Held(t.buf, t.cur, d, t.msgs, t.pubs, NoItem)
  BY <1>1, <1>2, <1>10, HeldUpdate DEF Sound, Carries
<1>13. Held(t.buf, t.cur, d, g, t.pubs, NoItem)
  BY <1>3, <1>11, <1>12, HeldSay
<1>14. Keeps(t, NoItem) => Kept(t.buf, t.cur, d, t.msgs, t.pubs, NoItem)
  BY <1>1, <1>2, <1>10, KeptUpdate DEF Keeps
<1>15. Kept(t.buf, t.cur, d, t.msgs, t.pubs, NoItem)
       => Kept(t.buf, t.cur, d, g, t.pubs, NoItem)
  BY <1>3, <1>11, KeptSay
<1> QED
  BY <1>1, <1>7, <1>8, <1>9, <1>13, <1>14, <1>15 DEF Sound, Passes, Carries, Keeps

LEMMA DupTimerSound ==
    ASSUME TInv, DupTimer PROVE Sound(m') /\ CycOK(m')
<1>1. Sound(m) /\ CycOK(m)
  BY DEF TInv
<1>2. PICK k \in DOMAIN m.tlist :
        m' = [m EXCEPT !.tlist[k].due = TRUE,
                       !.msgs = Append(@, <<"MQTT_DUP_IND",
                            m.tlist[k].client, m.tlist[k].packet>>)]
  BY DEF DupTimer
<1>3. Sound(m') /\ SameBut(m, m', {"tlist", "msgs"})
  BY <1>1, <1>2, DupTimerIs
<1> QED
  BY <1>1, <1>3, CalmSame, CalmCyc

LEMMA ReconnTimerSound ==
    ASSUME TInv, ReconnTimer PROVE Sound(m') /\ CycOK(m')
<1>1. Sound(m) /\ CycOK(m) /\ ~m.restart
  BY DEF TInv, ReconnTimer, Idle
<1>2. PICK i \in Clients : m' = Reconn([m EXCEPT !.treconn[i] = FALSE], i)
  BY DEF ReconnTimer
<1> PICK t : t = [m EXCEPT !.treconn[i] = FALSE]
  OBVIOUS
<1>3. t \in MqttRecord
  BY ONLY <1>1, i \in Clients, t = [m EXCEPT !.treconn[i] = FALSE]
     DEF MqttRecord, Flags, Sound
<1>4. SameBut(m, t, {"treconn"})
  BY ONLY <1>1, RecordFields, t = [m EXCEPT !.treconn[i] = FALSE]
     DEF SameBut, Fields, Sound
<1>5. Sound(t) /\ Calm(m, t)
  <2>1. {"treconn"} \intersect Five = {}
    BY DEF Five
  <2> QED
    BY <1>1, <1>3, <1>4, <2>1, SoundSame, CalmSame
<1>6. Fresh(t, i)
  BY <1>1, <1>5 DEF Fresh, Calm, CycOK
<1>7. Settled(t, m', i)
  <2>1. m' = Reconn(t, i)
    BY <1>2
  <2> QED
    BY <2>1, <1>5, <1>6, ReconnSettled
<1>8. CycOK(t) /\ ~t.restart
  BY <1>1, <1>5, CalmCyc DEF Calm
<1> QED
  BY <1>7, <1>8, SettledCyc DEF Settled

LEMMA PingTimerIs ==
    ASSUME NEW t, Sound(t), NEW i \in Clients, NEW u,
           u = [SndPingReq([t EXCEPT !.tping[i] = FALSE], i) EXCEPT !.tdisc[i] = TRUE]
    PROVE  /\ Sound(u) /\ Calm(t, u)
           /\ \E v, w : /\ v \in MqttRecord /\ SameBut(t, v, {"tping"})
                        /\ v.tping = [t.tping EXCEPT ![i] = FALSE]
                        /\ w = Send(v, i, PINGREQ)
                        /\ u \in MqttRecord /\ SameBut(w, u, {"tdisc"})
                        /\ u.tdisc = [w.tdisc EXCEPT ![i] = TRUE]
<1> PICK v : v = [t EXCEPT !.tping[i] = FALSE]
  OBVIOUS
<1>1. v \in MqttRecord
  BY ONLY Sound(t), i \in Clients, v = [t EXCEPT !.tping[i] = FALSE]
     DEF MqttRecord, Flags, Sound
<1>2. SameBut(t, v, {"tping"}) /\ v.tping = [t.tping EXCEPT ![i] = FALSE]
  BY ONLY Sound(t), RecordFields, v = [t EXCEPT !.tping[i] = FALSE]
     DEF SameBut, Fields, Sound
<1>3. Sound(v) /\ Calm(t, v)
  <2>1. /\ {"tping"} \intersect Five = {}
        /\ {"tping"} \intersect {"cyc", "restart"} = {}
    BY DEF Five
  <2>2. Sound(v)
    BY ONLY Sound(t), <1>1, <1>2, <2>1, SoundSame
  <2>3. Calm(t, v)
    BY ONLY <1>2, <2>1, CalmSame
  <2> QED
    BY <2>2, <2>3
<1> PICK w : w = Send(v, i, PINGREQ)
  OBVIOUS
<1>4. Sound(w) /\ Calm(v, w)
  BY <1>3, PacketType, NotOf, SendPlainSound
<1>5. u = [w EXCEPT !.tdisc[i] = TRUE]
  BY DEF SndPingReq
<1>6. u \in MqttRecord
  BY ONLY <1>4, <1>5, i \in Clients DEF MqttRecord, Flags, Sound
<1>7. SameBut(w, u, {"tdisc"}) /\ u.tdisc = [w.tdisc EXCEPT ![i] = TRUE]
  BY ONLY <1>4, <1>5, RecordFields DEF SameBut, Fields, Sound
<1>8. Sound(u) /\ Calm(w, u)
  <2>1. /\ {"tdisc"} \intersect Five = {}
        /\ {"tdisc"} \intersect {"cyc", "restart"} = {}
    BY DEF Five
  <2>2. Sound(u)
    BY ONLY <1>4, <1>6, <1>7, <2>1, SoundSame
  <2>3. Calm(w, u)
    BY ONLY <1>7, <2>1, CalmSame
  <2> QED
    BY <2>2, <2>3
<1>9. Calm(t, u)
  BY <1>3, <1>4, <1>8 DEF Calm
<1> QED
  BY <1>1, <1>2, <1>6, <1>7, <1>8, <1>9

LEMMA DiscTimerSound ==
    ASSUME TInv, DiscTimer PROVE Sound(m') /\ CycOK(m')
<1>1. Sound(m) /\ CycOK(m)
  BY DEF TInv
<1>2. PICK i \in Clients : m' = SndDisconnect([m EXCEPT !.tdisc[i] = FALSE], i, FALSE)
  BY DEF DiscTimer
<1> PICK t : t = [m EXCEPT !.tdisc[i] = FALSE]
  OBVIOUS
<1>3. t \in MqttRecord
  BY ONLY <1>1, i \in Clients, t = [m EXCEPT !.tdisc[i] = FALSE]
     DEF MqttRecord, Flags, Sound
<1>4. SameBut(m, t, {"tdisc"})
  BY ONLY <1>1, RecordFields, t = [m EXCEPT !.tdisc[i] = FALSE]
     DEF SameBut, Fields, Sound
<1>5. Sound(t) /\ Calm(m, t)
  <2>1. {"tdisc"} \intersect Five = {}
    BY DEF Five
  <2> QED
    BY <1>1, <1>3, <1>4, <2>1, SoundSame, CalmSame
<1>6. Sound(m') /\ Calm(t, m')
  BY <1>2, <1>5, SndDisconnectSound
<1> QED
  BY <1>1, <1>5, <1>6, CalmCyc

LEMMA RestartSet ==
    ASSUME NEW t, Sound(t), NEW u, u = [t EXCEPT !.restart = TRUE]
    PROVE  Sound(u) /\ CycOK(u) /\ SameBut(t, u, {"restart"}) /\ u.restart = TRUE
<1>1. u \in MqttRecord
  BY ONLY Sound(t), u = [t EXCEPT !.restart = TRUE] DEF MqttRecord, Sound
<1>2. SameBut(t, u, {"restart"}) /\ u.restart = TRUE
  BY ONLY Sound(t), RecordFields, u = [t EXCEPT !.restart = TRUE]
     DEF SameBut, Fields, Sound
<1>3. {"restart"} \intersect Five = {}
  BY DEF Five
<1> QED
  BY <1>1, <1>2, <1>3, SoundSame DEF CycOK

(* The oldest command has been answered.                                   *)
LEMMA DoneIs ==
    ASSUME Sound(m), m.cmds # <<>>, NEW t, t = Done
    PROVE  /\ Sound(t) /\ Calm(m, t) /\ SameBut(m, t, {"cmds"})
           /\ t.cmds = Tail(m.cmds) /\ Head(m.cmds) \in Commands
<1> PICK q : q = Tail(m.cmds)
  OBVIOUS
<1>1. q \in Seq(Commands) /\ Head(m.cmds) \in Commands
  <2>1. m.cmds \in Seq(Commands)
    BY DEF Sound, MqttRecord
  <2> QED
    BY <2>1, TailFacts
<1>2. t = [m EXCEPT !.cmds = q]
  BY DEF Done
<1>3. t \in MqttRecord
  BY ONLY <1>1, <1>2, Sound(m) DEF MqttRecord, Sound
<1>4. SameBut(m, t, {"cmds"}) /\ t.cmds = q
  BY ONLY <1>2, Sound(m), RecordFields DEF SameBut, Fields, Sound
<1>5. {"cmds"} \intersect Five = {}
  BY DEF Five
<1> QED
  BY <1>1, <1>3, <1>4, <1>5, SoundSame, CalmSame

LEMMA CommandIs ==
    ASSUME NEW c \in Commands
    PROVE  /\ c.verb \in {"CIPSTART", "CIPCLOSE", "CIPSEND", "CIPSHUT"}
           /\ c.verb # "CIPSHUT" => c.id \in Clients /\ c.item \in Packets
           /\ c.verb = "CIPSHUT" => c = SHUT
           /\ c.verb \in {"CIPSTART", "CIPCLOSE"} => c = Cmd(c.verb, c.id)
           /\ c.verb = "CIPSEND" => c = SendCmd(c.id, c.item)
<1>1. CASE c = SHUT
  BY <1>1 DEF SHUT, Cmd
<1>2. CASE \E v \in {"CIPSTART", "CIPCLOSE"}, i \in Clients : c = Cmd(v, i)
  BY <1>2, PacketType DEF Cmd
<1>3. CASE \E i \in Clients, p \in Packets : c = SendCmd(i, p)
  BY <1>3 DEF SendCmd
<1> QED
  BY <1>1, <1>2, <1>3 DEF Commands

LEMMA SeenType ==
    ASSUME NEW p \in Packets
    PROVE  Seen(p) \in Packets
<1>1. CASE p.kind # "DUP"
  <2>1. p # Packet("DUP", 0)
    BY <1>1 DEF Packet
  <2> QED
    BY <1>1, <2>1 DEF Seen
<1>2. CASE p = Packet("DUP", 0)
  <2>1. p.kind = "DUP"
    BY <1>2 DEF Packet
  <2>2. Seen(p) = CONNECT
    BY <1>2, <2>1 DEF Seen, Packet
  <2> QED
    BY <2>2, PacketType
<1>3. CASE p.kind = "DUP" /\ p # Packet("DUP", 0)
  <2>1. p.n \in Nat /\ p.n # 0
    BY <1>3 DEF Packets, Packet
  <2>2. Seen(p) = Packet("PUB1", p.n)
    BY <1>3, <2>1 DEF Seen
  <2> QED
    BY <2>1, <2>2, PacketType DEF Kinds
<1> QED
  BY <1>1, <1>2, <1>3

LEMMA ReceivesType ==
    ASSUME srv \in Servers, NEW c \in Commands, c.verb = "CIPSEND", Receives(c)
    PROVE  srv' \in Servers
<1>1. c.id \in Clients /\ Seen(c.item) \in Packets
  BY CommandIs, SeenType
<1> QED
  BY <1>1 DEF Receives, Servers

LEMMA AnswerSound ==
    ASSUME TInv, AnswerStart \/ AnswerSend \/ AnswerClose \/ AnswerShut
    PROVE  Sound(m') /\ CycOK(m') /\ conn' \in Connections /\ srv' \in Servers
<1>1. /\ Sound(m) /\ CycOK(m) /\ ~m.restart /\ m.cmds # <<>>
      /\ conn \in Connections /\ srv \in Servers
  BY DEF TInv, AnswerStart, AnswerSend, AnswerClose, AnswerShut, Executing, Idle
<1> PICK t : t = Done
  OBVIOUS
<1> PICK c : c = Head(m.cmds)
  OBVIOUS
<1>2. /\ Sound(t) /\ Calm(m, t) /\ c \in Commands
  BY <1>1, DoneIs
<1>3. CycOK(t) /\ ~t.restart
  BY <1>1, <1>2, CalmCyc DEF Calm
<1>4. c.verb # "CIPSHUT" => c.id \in Clients /\ Fresh(t, c.id)
  BY <1>2, <1>3, CommandIs DEF CycOK, Fresh
<1>5. CASE AnswerStart
  <2>1. /\ c.verb = "CIPSTART" /\ srv' = srv
        /\ \/ conn' = [conn EXCEPT ![c.id] = "opening"] /\ m' = t
           \/ m' = StatusInd(t, c.id, "ERROR") /\ conn' = conn
    BY <1>5 DEF AnswerStart, Executing
  <2>2. conn' \in Connections
    BY <2>1, <1>1 DEF Connections
  <2>3. CASE m' = t
    BY <2>1, <2>2, <2>3, <1>1, <1>2, <1>3
  <2>4. CASE m' = StatusInd(t, c.id, "ERROR")
    <3>1. Settled(t, m', c.id)
      BY <2>1, <2>4, <1>2, <1>4, StatusSound
    <3> QED
      BY <3>1, <2>1, <2>2, <1>1, <1>3, SettledCyc DEF Settled
  <2> QED
    BY <2>1, <2>3, <2>4
<1>6. CASE AnswerSend
  <2>1. /\ c.verb = "CIPSEND" /\ conn' = conn
        /\ srv' = srv \/ Receives(c)
        /\ \E suc \in BOOLEAN : m' = SendCnf(t, c.id, suc)
    BY <1>6 DEF AnswerSend, Executing
  <2>2. Sound(m') /\ Calm(t, m')
    BY <2>1, <1>2, <1>4, SendCnfSound
  <2>3. srv' \in Servers
    BY <2>1, <1>1, <1>2, ReceivesType
  <2> QED
    BY <2>1, <2>2, <2>3, <1>1, <1>3, CalmCyc
<1>7. CASE AnswerClose
  <2>1. /\ c.verb = "CIPCLOSE" /\ m' = CloseCnf(t, c.id)
        /\ conn' = [conn EXCEPT ![c.id] = "free"]
        /\ srv' = [srv EXCEPT ![c.id] = {}]
    BY <1>7 DEF AnswerClose, Executing
  <2>2. conn' \in Connections /\ srv' \in Servers
    BY <2>1, <1>1 DEF Connections, Servers
  <2>3. Settled(t, m', c.id)
    BY <2>1, <1>2, <1>4, CloseCnfSound
  <2> QED
    BY <2>2, <2>3, <1>3, SettledCyc DEF Settled
<1>8. CASE AnswerShut
  <2>1. m' = ShutCnf(t) /\ conn' = Each("free") /\ srv' = Each({})
    BY <1>8 DEF AnswerShut
  <2> QED
    BY <2>1, <1>2, <1>3, ShutCnfSound, StartSound
<1> QED
  BY <1>5, <1>6, <1>7, <1>8

LEMMA EventSound ==
    ASSUME TInv, Connects \/ PeerCloses
    PROVE  Sound(m') /\ CycOK(m') /\ conn' \in Connections /\ srv' \in Servers
<1>1. /\ Sound(m) /\ CycOK(m) /\ ~m.restart
      /\ conn \in Connections /\ srv \in Servers
  BY DEF TInv, Connects, PeerCloses, Idle
<1>2. PICK i \in Clients, v \in {"CONNECT OK", "CONNECT FAIL", "CLOSED"} :
        /\ m' = StatusInd(m, i, v)
        /\ \E s \in {"open", "free"} : conn' = [conn EXCEPT ![i] = s]
        /\ srv' = srv \/ srv' = [srv EXCEPT ![i] = {}]
  <2>1. CASE Connects
    BY <2>1 DEF Connects
  <2>2. CASE PeerCloses
    BY <2>2 DEF PeerCloses
  <2> QED
    BY <2>1, <2>2
<1>3. conn' \in Connections /\ srv' \in Servers
  BY <1>1, <1>2 DEF Connections, Servers
<1>4. Settled(m, m', i)
  BY <1>1, <1>2, StatusSound DEF CycOK, Fresh
<1> QED
  BY <1>1, <1>3, <1>4, SettledCyc DEF Settled

LEMMA RcvIs ==
    ASSUME NEW t, Sound(t), NEW i \in Clients, NEW u, u = Rcv(t, i)
    PROVE  /\ Sound(u) /\ Calm(t, u) /\ SameBut(t, u, {"tping"})
           /\ u.tping = [t.tping EXCEPT ![i] = TRUE]
<1>1. u = [t EXCEPT !.tping[i] = TRUE]
  BY DEF Rcv
<1>2. u \in MqttRecord
  BY ONLY <1>1, Sound(t), i \in Clients DEF MqttRecord, Flags, Sound
<1>3. SameBut(t, u, {"tping"}) /\ u.tping = [t.tping EXCEPT ![i] = TRUE]
  BY ONLY <1>1, Sound(t), RecordFields DEF SameBut, Fields, Sound
<1>4. {"tping"} \intersect Five = {}
  BY DEF Five
<1> QED
  BY <1>2, <1>3, <1>4, SoundSame, CalmSame

LEMMA PingRspIs ==
    ASSUME NEW t, Sound(t), NEW i \in Clients, NEW u, u = PingRsp(t, i)
    PROVE  /\ Sound(u) /\ Calm(t, u) /\ SameBut(t, u, {"tdisc"})
           /\ u.tdisc = [t.tdisc EXCEPT ![i] = FALSE]
<1>1. u = [t EXCEPT !.tdisc[i] = FALSE]
  BY DEF PingRsp
<1>2. u \in MqttRecord
  BY ONLY <1>1, Sound(t), i \in Clients DEF MqttRecord, Flags, Sound
<1>3. SameBut(t, u, {"tdisc"}) /\ u.tdisc = [t.tdisc EXCEPT ![i] = FALSE]
  BY ONLY <1>1, Sound(t), RecordFields DEF SameBut, Fields, Sound
<1>4. {"tdisc"} \intersect Five = {}
  BY DEF Five
<1> QED
  BY <1>2, <1>3, <1>4, SoundSame, CalmSame

LEMMA ServerSound ==
    ASSUME TInv, ServerAnswers \/ ServerPublishes
    PROVE  Sound(m') /\ CycOK(m') /\ conn' \in Connections /\ srv' \in Servers
<1>1. /\ Sound(m) /\ CycOK(m) /\ conn \in Connections /\ srv \in Servers
  BY DEF TInv
<1>2. CASE ServerAnswers
  <2>0. PICK i \in Clients : \E p \in srv[i], suc \in BOOLEAN :
          /\ srv' = [srv EXCEPT ![i] = @ \ {p}]
          /\ \/ p = CONNECT /\ m' = ConnAck(Rcv(m, i), i, suc)
             \/ p = PINGREQ /\ suc /\ m' = PingRsp(Rcv(m, i), i)
             \/ p.kind = "PUB1" /\ suc /\ m' = PubAck(Rcv(m, i), i, p)
    BY <1>2 DEF ServerAnswers
  <2>1. PICK p \in srv[i], suc \in BOOLEAN :
          /\ srv' = [srv EXCEPT ![i] = @ \ {p}]
          /\ \/ p = CONNECT /\ m' = ConnAck(Rcv(m, i), i, suc)
             \/ p = PINGREQ /\ suc /\ m' = PingRsp(Rcv(m, i), i)
             \/ p.kind = "PUB1" /\ suc /\ m' = PubAck(Rcv(m, i), i, p)
    BY <2>0
  <2>2. conn' = conn /\ srv' \in Servers /\ p \in Packets
    BY <1>1, <1>2, <2>1 DEF ServerAnswers, Servers
  <2> PICK t : t = Rcv(m, i)
    OBVIOUS
  <2>3. Sound(t) /\ Calm(m, t)
    BY <1>1, RcvIs
  <2>4. \/ m' = ConnAck(t, i, suc) \/ m' = PingRsp(t, i) \/ m' = PubAck(t, i, p)
    BY <2>1
  <2>5. Sound(m') /\ Calm(t, m')
    BY <2>2, <2>3, <2>4, ConnAckSound, PingRspIs, PubAckSound
  <2> QED
    BY <1>1, <2>2, <2>3, <2>5, CalmCyc
<1>3. CASE ServerPublishes
  <2>1. PICK i \in Clients : m' = SvrPublish(Rcv(m, i), i)
    BY <1>3 DEF ServerPublishes
  <2>2. conn' = conn /\ srv' = srv
    BY <1>3 DEF ServerPublishes
  <2> PICK t : t = Rcv(m, i)
    OBVIOUS
  <2>3. Sound(t) /\ Calm(m, t)
    BY <1>1, RcvIs
  <2>4. Sound(m') /\ Calm(t, m')
    BY <2>1, <2>3, PacketType, NotOf, SendPlainSound DEF SvrPublish
  <2> QED
    BY <1>1, <2>2, <2>3, <2>4, CalmCyc
<1> QED
  BY <1>2, <1>3

LEMMA TInvInit ==
    ASSUME Init PROVE TInv
BY StartSound DEF Init, TInv

LEMMA TInvStep ==
    ASSUME TInv, [Next]_vars PROVE TInv'
<1>1. /\ Sound(m) /\ CycOK(m) /\ conn \in Connections /\ srv \in Servers
  BY DEF TInv
<1>2. CASE UNCHANGED vars
  BY <1>1, <1>2 DEF TInv, vars
<1>3. CASE ProgramConnects \/ ProgramDisconnects \/ Publish \/ Message \/ DupTimer
           \/ ReconnTimer \/ PingTimer \/ DiscTimer
  <2>1. conn' = conn /\ srv' = srv
    BY <1>3 DEF ProgramConnects, ProgramDisconnects, Publish, Message, DupTimer,
                ReconnTimer, PingTimer, DiscTimer
  <2>2. ASSUME PingTimer PROVE Sound(m') /\ CycOK(m')
    <3>1. PICK i \in Clients :
             m' = [SndPingReq([m EXCEPT !.tping[i] = FALSE], i) EXCEPT !.tdisc[i] = TRUE]
      BY <2>2 DEF PingTimer
    <3>2. Sound(m') /\ Calm(m, m')
      BY <1>1, <3>1, PingTimerIs
    <3> QED
      BY <1>1, <3>2, CalmCyc
  <2>3. Sound(m') /\ CycOK(m')
    BY <1>3, <2>2, ProgramConnectsSound, ProgramDisconnectsSound, PublishSound,
       MessageSound, DupTimerSound, ReconnTimerSound, DiscTimerSound
  <2> QED
    BY <1>1, <2>1, <2>3 DEF TInv
<1>4. CASE DatInactive
  BY <1>1, <1>4, RestartSet DEF DatInactive, TInv
<1>5. CASE Restart
  BY <1>5, StartSound DEF Restart, TInv
<1>6. CASE NetworkReady
  <2>1. m' = ConnPend(m) /\ conn' = conn /\ srv' = srv
    BY <1>6 DEF NetworkReady
  <2>2. Sound(m') /\ Calm(m, m')
    BY <1>1, <2>1, ConnPendSound
  <2> QED
    BY <1>1, <2>1, <2>2, CalmCyc DEF TInv
<1>7. CASE Transmit
  <2>1. m' = m /\ conn' = conn
    BY <1>7 DEF Transmit
  <2>2. /\ Head(m.cmds).verb = "CIPSEND" /\ Receives(Head(m.cmds)) /\ m.cmds # <<>>
    BY <1>7 DEF Transmit, Executing
  <2>3. Head(m.cmds) \in Commands
    BY <1>1, <2>2, DoneIs
  <2>4. srv' \in Servers
    BY <1>1, <2>2, <2>3, ReceivesType
  <2> QED
    BY <1>1, <2>1, <2>4 DEF TInv
<1>8. CASE AnswerStart \/ AnswerSend \/ AnswerClose \/ AnswerShut
  BY <1>8, AnswerSound DEF TInv
<1>9. CASE Connects \/ PeerCloses
  BY <1>9, EventSound DEF TInv
<1>10. CASE NetworkLost
  <2>1. m' = Shut(m) /\ conn' = Each("free") /\ srv' = Each({})
    BY <1>10 DEF NetworkLost
  <2>2. Sound(m') /\ SameBut(m, m', {"cmds", "shuting"})
    BY <1>1, <2>1, ShutSound
  <2>3. Calm(m, m')
    BY <2>2, CalmSame
  <2> QED
    BY <1>1, <2>1, <2>2, <2>3, CalmCyc, StartSound DEF TInv
<1>11. CASE ServerAnswers \/ ServerPublishes
  BY <1>11, ServerSound DEF TInv
<1> QED
  BY <1>2, <1>3, <1>4, <1>5, <1>6, <1>7, <1>8, <1>9, <1>10, <1>11 DEF Next

LEMMA TInvTold ==
    ASSUME TInv PROVE TypeOK /\ ToldOnce
<1>1. m \in MqttRecord /\ conn \in Connections
  BY DEF TInv, Sound
<1>2. /\ m.link \in [Clients -> LinkStates]
      /\ m.cnt \in [Clients -> 0..ReconnMax] /\ m.cyc \in [Clients -> 0..CycleMax]
      /\ m.tlist \in Seq(Entries) /\ m.pubs \in Seq(Publishes)
  BY <1>1 DEF MqttRecord
<1>3. ASSUME NEW e \in ToSet(m.tlist) PROVE e \in Entries
  <2>1. PICK k \in 1..Len(m.tlist) : e = m.tlist[k]
    BY <1>2, LenProperties DEF ToSet
  <2> QED
    BY <2>1, <1>2, ElementOfSeq
<1>4. ASSUME NEW n \in DOMAIN m.pubs PROVE m.pubs[n].told # "again"
  <2>1. n \in 1..Len(m.pubs)
    BY <1>2, LenProperties
  <2>2. m.pubs[n] \in Publishes
    BY <2>1, <1>2, ElementOfSeq
  <2> QED
    BY <2>2 DEF Publishes, Results
<1> QED
  BY <1>1, <1>2, <1>3, <1>4 DEF TypeOK, ToldOnce, Entries, Connections

(* Whatever the clients and whatever goes wrong, the types are kept and no *)
(* result of a publish is told a second time: publish, rsm and ntfy of     *)
(* mqtt.lua each give the packet on or tell its result, and never both.    *)
THEOREM ResultToldOnce == Spec => [](TypeOK /\ ToldOnce)
<1>1. Init => TInv
  BY TInvInit
<1>2. TInv /\ [Next]_vars => TInv'
  BY TInvStep
<1>3. TInv => TypeOK /\ ToldOnce
  BY TInvTold
<1> QED
  BY <1>1, <1>2, <1>3, PTL DEF Spec

----------------------------------------------------------------------------
(* The queue of the AT commands                                            *)

Verb(v) == {c \in Commands : c.verb = v}

(* Every element of the set S is the last of q; it is followed by an       *)
(* element of T.                                                           *)
Ends(q, S) == \A k \in 1..Len(q) : q[k] \in S => k = Len(q)
CutOff(q, S, T) ==
    \A j \in 1..Len(q) : q[j] \in S => \E k \in 1..Len(q) : j < k /\ q[k] \in T

(* One element of q is in S, and all behind it are in T. *)
Closing(q, S, T) ==
    \E k \in 1..Len(q) :
        /\ q[k] \in S
        /\ \A j \in 1..Len(q) : (j < k => q[j] \notin S) /\ (k < j => q[j] \in T)

LEMMA VerbIs ==
    /\ \A v : SHUT \in Verb(v) <=> v = "CIPSHUT"
    /\ \A v : Cmd("CIPSTART", 1) \in Verb(v) <=> v = "CIPSTART"
    /\ \A v : Cmd("CIPCLOSE", 1) \in Verb(v) <=> v = "CIPCLOSE"
    /\ \A p \in Packets : \A v : SendCmd(1, p) \in Verb(v) <=> v = "CIPSEND"
    /\ \A c \in Commands : \A v : c.verb = v <=> c \in Verb(v)
<1>1. 1 \in Clients
  BY MqttAssumption
<1>2. /\ SHUT \in Commands /\ Cmd("CIPSTART", 1) \in Commands
      /\ Cmd("CIPCLOSE", 1) \in Commands
      /\ \A p \in Packets : SendCmd(1, p) \in Commands
  BY <1>1, CommandType
<1>3. /\ SHUT.verb = "CIPSHUT" /\ Cmd("CIPSTART", 1).verb = "CIPSTART"
      /\ Cmd("CIPCLOSE", 1).verb = "CIPCLOSE"
      /\ \A p \in Packets : SendCmd(1, p).verb = "CIPSEND"
  BY DEF SHUT, Cmd, SendCmd
<1> QED
  BY <1>2, <1>3 DEF Verb

LEMMA AppendEnds ==
    ASSUME NEW T, NEW q \in Seq(T), NEW x \in T, NEW S, ~Some(q, S)
    PROVE  Ends(Append(q, x), S)
<1> DEFINE r == Append(q, x)
           n == Len(q)
<1>1. /\ n \in Nat /\ Len(r) = n + 1 /\ \A k \in 1..n : r[k] = q[k]
  BY AppendProperties, LenProperties
<1>2. \A k \in 1..n : q[k] \notin S
  BY DEF Some
<1> HIDE DEF r, n
<1>3. Ends(r, S)
  BY <1>1, <1>2 DEF Ends
<1> QED
  BY <1>3 DEF r

LEMMA AppendCut ==
    ASSUME NEW T, NEW q \in Seq(T), NEW x \in T, NEW S, NEW R, x \notin S,
           x \in R \/ CutOff(q, S, R)
    PROVE  CutOff(Append(q, x), S, R)
<1> DEFINE r == Append(q, x)
           n == Len(q)
<1>1. /\ n \in Nat /\ Len(r) = n + 1 /\ r[n + 1] = x
      /\ \A k \in 1..n : r[k] = q[k]
  BY AppendProperties, LenProperties
<1>2. CutOff(q, S, R) =>
        \A j \in 1..n : q[j] \in S => \E k \in 1..n : j < k /\ q[k] \in R
  BY DEF CutOff
<1> HIDE DEF r, n
<1>3. CutOff(r, S, R)
  BY <1>1, <1>2 DEF CutOff
<1> QED
  BY <1>3 DEF r

LEMMA AppendClosing ==
    ASSUME NEW T, NEW q \in Seq(T), NEW x \in T, NEW S, NEW R
    PROVE  /\ ~Some(q, S) /\ x \in S => Closing(Append(q, x), S, R)
           /\ Closing(q, S, R) /\ x \in R => Closing(Append(q, x), S, R)
<1> DEFINE r == Append(q, x)
           n == Len(q)
<1>1. /\ n \in Nat /\ Len(r) = n + 1 /\ r[n + 1] = x
      /\ \A k \in 1..n : r[k] = q[k]
  BY AppendProperties, LenProperties
<1>2. ~Some(q, S) => \A k \in 1..n : q[k] \notin S
  BY DEF Some
<1>3. Closing(q, S, R) => \E k \in 1..n : q[k] \in S /\ \A j \in 1..n :
            (j < k => q[j] \notin S) /\ (k < j => q[j] \in R)
  BY DEF Closing
<1> HIDE DEF r, n
<1>4. ~Some(q, S) /\ x \in S => Closing(r, S, R)
  <2> SUFFICES ASSUME ~Some(q, S), x \in S PROVE Closing(r, S, R)
    OBVIOUS
  <2>1. n + 1 \in 1..Len(r) /\ r[n + 1] \in S
    BY <1>1
  <2>2. \A j \in 1..Len(r) : (j < n + 1 => r[j] \notin S) /\ ~(n + 1 < j)
    BY <1>1, <1>2
  <2> QED
    BY <2>1, <2>2 DEF Closing
<1>5. Closing(q, S, R) /\ x \in R => Closing(r, S, R)
  <2> SUFFICES ASSUME Closing(q, S, R), x \in R PROVE Closing(r, S, R)
    OBVIOUS
  <2>1. PICK k \in 1..n : q[k] \in S /\ \A j \in 1..n :
            (j < k => q[j] \notin S) /\ (k < j => q[j] \in R)
    BY <1>3
  <2>2. k \in 1..Len(r) /\ r[k] \in S
    BY <1>1, <2>1
  <2>3. \A j \in 1..Len(r) : (j < k => r[j] \notin S) /\ (k < j => r[j] \in R)
    BY <1>1, <2>1
  <2> QED
    BY <2>2, <2>3 DEF Closing
<1> QED
  BY <1>4, <1>5 DEF r

LEMMA TailQueue ==
    ASSUME NEW T, NEW q \in Seq(T), q # <<>>, NEW S, NEW R
    PROVE  /\ Ends(q, S) => Ends(Tail(q), S)
           /\ Ends(q, S) /\ Head(q) \in S => Tail(q) = <<>>
           /\ CutOff(q, S, R) => CutOff(Tail(q), S, R)
           /\ Closing(q, S, R) /\ Head(q) \notin S => Closing(Tail(q), S, R)
           /\ Closing(q, S, R) /\ Head(q) \in S =>
                \A U : U \intersect R = {} => ~Some(Tail(q), U)
<1> DEFINE r == Tail(q)
           n == Len(q)
<1>1. /\ n \in Nat \ {0} /\ Len(r) = n - 1 /\ Head(q) = q[1] /\ r \in Seq(T)
      /\ \A i \in 1..(n - 1) : r[i] = q[i + 1]
  BY TailFacts
<1>2. Ends(q, S) => \A k \in 1..n : q[k] \in S => k = n
  BY DEF Ends
<1>3. CutOff(q, S, R) =>
        \A j \in 1..n : q[j] \in S => \E k \in 1..n : j < k /\ q[k] \in R
  BY DEF CutOff
<1>4. Closing(q, S, R) => \E k \in 1..n : q[k] \in S /\ \A j \in 1..n :
            (j < k => q[j] \notin S) /\ (k < j => q[j] \in R)
  BY DEF Closing
<1> HIDE DEF r, n
<1>5. Ends(q, S) => Ends(r, S)
  BY <1>1, <1>2 DEF Ends
<1>6. Ends(q, S) /\ Head(q) \in S => r = <<>>
  <2> SUFFICES ASSUME Ends(q, S), Head(q) \in S PROVE r = <<>>
    OBVIOUS
  <2>1. n = 1
    BY <1>1, <1>2
  <2> QED
    BY <1>1, <2>1, EmptySeq
<1>7. CutOff(q, S, R) => CutOff(r, S, R)
  <2> SUFFICES ASSUME CutOff(q, S, R), NEW j \in 1..Len(r), r[j] \in S
               PROVE  \E k \in 1..Len(r) : j < k /\ r[k] \in R
    BY DEF CutOff
  <2>1. j + 1 \in 1..n /\ q[j + 1] \in S
    BY <1>1
  <2>2. PICK k \in 1..n : j + 1 < k /\ q[k] \in R
    BY <2>1, <1>3
  <2>3. k - 1 \in 1..Len(r) /\ j < k - 1 /\ r[k - 1] = q[k]
    BY <1>1, <2>1, <2>2
  <2> QED
    BY <2>2, <2>3
<1>8. ASSUME Closing(q, S, R)
      PROVE  /\ Head(q) \notin S => Closing(r, S, R)
             /\ Head(q) \in S => \A U : U \intersect R = {} => ~Some(r, U)
  <2>1. PICK k \in 1..n : q[k] \in S /\ \A j \in 1..n :
            (j < k => q[j] \notin S) /\ (k < j => q[j] \in R)
    BY <1>4, <1>8
  <2>2. CASE Head(q) \notin S
    <3>1. k - 1 \in 1..Len(r) /\ r[k - 1] \in S
      BY <1>1, <2>1, <2>2
    <3>2. ASSUME NEW j \in 1..Len(r)
          PROVE  (j < k - 1 => r[j] \notin S) /\ (k - 1 < j => r[j] \in R)
      <4>1. j + 1 \in 1..n /\ r[j] = q[j + 1] /\ j \in Nat /\ k \in Nat
        BY <1>1
      <4>2. (j < k - 1 => j + 1 < k) /\ (k - 1 < j => k < j + 1)
        BY <4>1
      <4> QED
        BY <2>1, <4>1, <4>2
    <3> QED
      BY <2>2, <3>1, <3>2 DEF Closing
  <2>3. CASE Head(q) \in S
    <3>1. k = 1
      BY <1>1, <2>1, <2>3
    <3>2. \A j \in 1..Len(r) : r[j] \in R
      BY <1>1, <2>1, <3>1
    <3> QED
      BY <2>3, <3>2 DEF Some
  <2> QED
    BY <2>2, <2>3
<1> QED
  BY <1>5, <1>6, <1>7, <1>8 DEF r

LEMMA ConcatQueue ==
    ASSUME NEW T, NEW q \in Seq(T), NEW x \in T, NEW s \in Seq({x}), s # <<>>,
           NEW S, NEW R
    PROVE  /\ Some(q \o s, S) <=> Some(q, S) \/ x \in S
           /\ x \notin S /\ x \in R => CutOff(q \o s, S, R)
           /\ Closing(q, S, R) /\ x \in R => Closing(q \o s, S, R)
<1> DEFINE r == q \o s
           n == Len(q)
           l == Len(s)
<1>1. /\ n \in Nat /\ l \in Nat /\ l # 0
      /\ \A k \in 1..l : s[k] = x
  <2>1. \A k \in 1..l : s[k] \in {x}
    BY LenProperties, ElementOfSeq
  <2> QED
    BY <2>1, LenProperties, EmptySeq
<1>2. s \in Seq(T)
  BY <1>1, SeqDef, LenProperties
<1>3. Len(r) = n + l /\ \A k \in 1..(n + l) : r[k] = IF k <= n THEN q[k] ELSE s[k - n]
  BY <1>2, ConcatProperties
<1>4. Some(q, S) <=> \E k \in 1..n : q[k] \in S
  BY DEF Some
<1>5. Closing(q, S, R) => \E k \in 1..n : q[k] \in S /\ \A j \in 1..n :
            (j < k => q[j] \notin S) /\ (k < j => q[j] \in R)
  BY DEF Closing
<1> HIDE DEF r, n, l
<1>6. /\ \A k \in 1..n : k \in 1..Len(r) /\ r[k] = q[k]
      /\ \A k \in 1..Len(r) : k \in 1..n \/ (n < k /\ r[k] = x)
      /\ Len(r) \in 1..Len(r) /\ n < Len(r) /\ r[Len(r)] = x
  BY <1>1, <1>3
<1>7. Some(r, S) <=> Some(q, S) \/ x \in S
  BY <1>4, <1>6 DEF Some
<1>8. x \notin S /\ x \in R => CutOff(r, S, R)
  BY <1>1, <1>6 DEF CutOff
<1>9. ASSUME Closing(q, S, R), x \in R PROVE Closing(r, S, R)
  <2>1. PICK k \in 1..n : q[k] \in S /\ \A j \in 1..n :
            (j < k => q[j] \notin S) /\ (k < j => q[j] \in R)
    BY <1>5, <1>9
  <2>2. \A j \in 1..Len(r) : (j < k => r[j] \notin S) /\ (k < j => r[j] \in R)
    BY <1>1, <1>6, <1>9, <2>1
  <2> QED
    BY <1>6, <2>1, <2>2 DEF Closing
<1> QED
  BY <1>7, <1>8, <1>9 DEF r

----------------------------------------------------------------------------
(* A client that is connected, or is disconnecting, and one that is not    *)

Starts == Verb("CIPSTART")
Sends == Verb("CIPSEND")
Closes == Verb("CIPCLOSE")
Cuts == Verb("CIPSHUT")
Asks == {e \in Messages : e[1] = "DISCONNECT"}
Repeats == {e \in Messages : e[1] = "MQTT_DUP_IND"}

Cut(t) == Some(t.cmds, Cuts)

(* A client with a connection: no attempt waits, whatever ends the         *)
(* connection ends it once (a close that is followed only by shuts), and a *)
(* shut that waits has not been overtaken by a new set-up of the network.  *)
LinkedCore(t, c) ==
    /\ t.link[1] \in {"CONNECTED", "DISCONNECTING"} /\ t.up[1]
    /\ ~t.conning[1] /\ ~t.pending[1] /\ ~t.treconn[1] /\ t.cnt[1] = 0
    /\ t.usertag[1] => ~t.wants[1] /\ t.link[1] = "DISCONNECTING"
    /\ ~Some(t.msgs, Asks)
    /\ c \in {"free", "open"}
    /\ ~Some(t.cmds, Starts)
    /\ t.link[1] = "CONNECTED" => ~Some(t.cmds, Closes)
    /\ t.link[1] = "DISCONNECTING" => Closing(t.cmds, Closes, Cuts)
    /\ Cut(t) => ~t.ip \/ t.shuting

(* The packet under way has its command. *)
Sending(t) == t.cur[1] # NoItem => Some(t.cmds, Sends)

(* What will notice that the server is dead *)
Noticed(t) ==
    t.session[1] =>
        \/ t.tping[1] \/ t.tdisc[1] \/ t.link[1] = "DISCONNECTING" \/ Cut(t)
        \/ t.cur[1] = DISCONNECT \/ Some(t.buf[1], {DISCONNECT})

Linked(t, c) ==
    /\ LinkedCore(t, c) /\ Sending(t)
    /\ Cut(t) \/ Keeps(t, NoItem)
    /\ Noticed(t)

(* A client without a connection: it has no session, timer of a ping or    *)
(* publish left from the last one; it is trying to connect, with the request *)
(* in one of the places where it may wait, or will try, or is not to.      *)
Unlinked(t, c) ==
    /\ t.link[1] \in {"NIL LINK", "CONNECTING", "CLOSED"}
    /\ ~t.up[1] /\ ~t.session[1] /\ ~t.tping[1]
    /\ t.usertag[1] => t.link[1] = "CLOSED"
    /\ t.conning[1] <=> t.link[1] = "CONNECTING"
    /\ t.cur[1] = NoItem /\ t.tlist = <<>>
    /\ \A n \in Nat : ~Untold1(t.pubs, n)
    /\ ~Some(t.msgs, Asks) /\ ~Some(t.msgs, Repeats)
    /\ t.pending[1] => t.link[1] = "CONNECTING"
    /\ t.link[1] = "CONNECTING" => t.buf[1] = <<>>
    /\ t.link[1] = "CLOSED" /\ t.wants[1] => t.treconn[1] \/ t.restart \/ t.dropped[1]
    /\ t.link[1] = "NIL LINK" => ~t.treconn[1] /\ ~t.wants[1]
    /\ c \in {"free", "opening"}
    /\ c = "opening" =>
         t.link[1] = "CONNECTING" /\ ~t.pending[1] /\ t.cmds = <<>>
    /\ Some(t.cmds, Starts) => t.link[1] = "CONNECTING" /\ ~t.pending[1]
    /\ t.link[1] = "CONNECTING" /\ ~t.pending[1] =>
         ~Cut(t) /\ ~Some(t.cmds, Sends) /\ (c = "opening" \/ Some(t.cmds, Starts))
    /\ Ends(t.cmds, Starts) /\ CutOff(t.cmds, Sends, Cuts)
    /\ Cut(t) => ~t.ip \/ t.shuting

LEMMA At ==
    ASSUME NEW t \in MqttRecord
    PROVE  /\ 1 \in Clients
           /\ DOMAIN t.link = Clients /\ DOMAIN t.pending = Clients
           /\ DOMAIN t.buf = Clients /\ DOMAIN t.cur = Clients
           /\ DOMAIN t.conning = Clients /\ DOMAIN t.up = Clients
           /\ DOMAIN t.session = Clients /\ DOMAIN t.discing = Clients
           /\ DOMAIN t.usertag = Clients /\ DOMAIN t.errcb = Clients
           /\ DOMAIN t.cnt = Clients /\ DOMAIN t.cyc = Clients
           /\ DOMAIN t.treconn = Clients /\ DOMAIN t.tping = Clients
           /\ DOMAIN t.tdisc = Clients /\ DOMAIN t.wants = Clients
<1>1. 1 \in Clients
  BY MqttAssumption
<1> QED
  BY <1>1 DEF MqttRecord, Flags

LEMMA CmdsType ==
    ASSUME NEW t \in MqttRecord
    PROVE  /\ t.cmds \in Seq(Commands) /\ t.msgs \in Seq(Messages)
           /\ t.buf[1] \in Seq(Packets) /\ t.cur[1] \in Packets
           /\ t.link[1] \in LinkStates /\ t.cnt[1] \in 0..ReconnMax /\ 1 \in Clients
           /\ t.tlist \in Seq(Entries) /\ t.pubs \in Seq(Publishes)
<1>1. 1 \in Clients
  BY MqttAssumption
<1> QED
  BY <1>1 DEF MqttRecord

LEMMA AppendQueue ==
    ASSUME NEW t \in MqttRecord, NEW x \in Commands, NEW u,
           u.cmds = Append(t.cmds, x)
    PROVE  /\ \A S : Some(u.cmds, S) <=> Some(t.cmds, S) \/ x \in S
           /\ ~Some(t.cmds, Starts) => Ends(u.cmds, Starts)
           /\ x \in Cuts => CutOff(u.cmds, Sends, Cuts)
           /\ x \notin Sends /\ CutOff(t.cmds, Sends, Cuts) =>
                CutOff(u.cmds, Sends, Cuts)
           /\ x \in Cuts /\ Closing(t.cmds, Closes, Cuts) =>
                Closing(u.cmds, Closes, Cuts)
           /\ x \in Closes /\ ~Some(t.cmds, Closes) => Closing(u.cmds, Closes, Cuts)
<1>1. t.cmds \in Seq(Commands)
  BY CmdsType
<1>2. x \in Cuts => x \notin Sends
  BY DEF Cuts, Sends, Verb
<1> QED
  BY <1>1, <1>2, AppendHas, AppendEnds, AppendCut, AppendClosing

CoreFields == {"link", "up", "conning", "pending", "treconn", "cnt", "usertag",
               "wants", "msgs", "cmds", "ip", "shuting"}

LEMMA CoreSame ==
    ASSUME NEW t, NEW u, NEW F, SameBut(t, u, F), F \intersect CoreFields = {},
           NEW c, LinkedCore(t, c)
    PROVE  LinkedCore(u, c)
<1>1. /\ u.link = t.link /\ u.up = t.up /\ u.conning = t.conning
      /\ u.pending = t.pending /\ u.treconn = t.treconn /\ u.cnt = t.cnt
      /\ u.usertag = t.usertag /\ u.wants = t.wants /\ u.msgs = t.msgs
      /\ u.cmds = t.cmds /\ u.ip = t.ip /\ u.shuting = t.shuting
  BY DEF SameBut, Fields, CoreFields
<1> QED
  BY <1>1 DEF LinkedCore, Cut

(* The connection of the client is gone, and it is not connected yet. *)
Gone(t) ==
    /\ t.link[1] = "CLOSED"
    /\ ~t.up[1] /\ ~t.session[1] /\ ~t.tping[1] /\ ~t.conning[1] /\ ~t.pending[1]
    /\ t.tlist = <<>> /\ \A n \in Nat : ~Untold1(t.pubs, n)
    /\ ~Some(t.msgs, Asks) /\ ~Some(t.msgs, Repeats)
    /\ ~Some(t.cmds, Starts)

Idles(t) ==
    /\ t.cur[1] = NoItem
    /\ CutOff(t.cmds, Sends, Cuts) /\ (Cut(t) => ~t.ip \/ t.shuting)

LEMMA NoEnds ==
    ASSUME NEW q, NEW S, ~Some(q, S)
    PROVE  Ends(q, S) /\ \A R : CutOff(q, S, R)
BY DEF Ends, CutOff, Some

LEMMA ReconnShuts ==
    ASSUME Clients = {1}, NEW t \in MqttRecord, ~t.conning[1],
           t.cnt[1] < ReconnMax, t.link[1] = "CLOSED", NEW u, u = Reconn(t, 1)
    PROVE  /\ SameBut(t, u, {"cnt", "cmds", "shuting", "link", "pending", "buf",
                             "cur", "usertag", "conning", "dropped"})
           /\ u.cmds = Append(t.cmds, SHUT) /\ u.shuting = TRUE
           /\ u.link[1] = "CONNECTING" /\ u.pending[1] = TRUE
           /\ u.buf[1] = <<>> /\ u.cur[1] = NoItem /\ u.usertag[1] = FALSE
           /\ u.conning[1] = TRUE
<1>1. 1 \in Clients /\ 2 \notin Clients /\ t.cnt[1] + 1 \in 0..ReconnMax
  BY CmdsType, MqttAssumption
<1> PICK v : v = [t EXCEPT !.cnt[1] = @ + 1]
  OBVIOUS
<1>2. v \in MqttRecord
  BY ONLY t \in MqttRecord, <1>1, v = [t EXCEPT !.cnt[1] = @ + 1]
     DEF MqttRecord, Flags
<1>3. SameBut(t, v, {"cnt"})
  BY ONLY t \in MqttRecord, v = [t EXCEPT !.cnt[1] = @ + 1], RecordFields
     DEF SameBut, Fields
<1> PICK w : w = Shut(v)
  OBVIOUS
<1>4. /\ w \in MqttRecord /\ SameBut(v, w, {"cmds", "shuting"})
      /\ w.cmds = Append(v.cmds, SHUT) /\ w.shuting = TRUE
  BY <1>2, ShutIs
<1>5. /\ w.link = t.link /\ v.cmds = t.cmds /\ v.link = t.link
      /\ w.cmds = Append(t.cmds, SHUT)
  BY <1>3, <1>4 DEF SameBut, Fields
<1>6. u = Connect(w, 1)
  <2>1. u = ConnectLinked(w, 1)
    <3>1. u = Reconn(t, 1) /\ ~t.conning[1] /\ t.cnt[1] < ReconnMax
      OBVIOUS
    <3>2. /\ t.cnt[1] \in 0..ReconnMax /\ ReconnMax \in Nat \ {0}
          /\ t.conning[1] \in BOOLEAN
      BY <1>1, MqttAssumption DEF MqttRecord, Flags
    <3>3. u = IF 2 \in Clients THEN ConnectLinked(ConnectLinked(w, 1), 2)
              ELSE ConnectLinked(w, 1)
      BY <3>1, <3>2 DEF Reconn, InTurn
    <3> QED
      BY <1>1, <3>3
  <2>2. w.link[1] = "CLOSED"
    BY <1>5
  <2> QED
    BY <2>1, <2>2 DEF ConnectLinked
<1>7. ConnectShape(w, u, 1)
  BY <1>1, <1>4, <1>6, ConnectIs
<1>8. PICK z : /\ SocketShape(w, z, 1) /\ u \in MqttRecord
               /\ SameBut(z, u, {"conning", "dropped"})
               /\ u.conning = [w.conning EXCEPT ![1] = TRUE]
  BY <1>7 DEF ConnectShape
<1>9. w.link[1] \in Closed
  BY <1>5 DEF Closed
<1>10. /\ z \in MqttRecord
       /\ SameBut(w, z, {"link", "pending", "cmds", "buf", "cur", "usertag"})
       /\ z.link = [w.link EXCEPT ![1] = "CONNECTING"]
       /\ z.buf = [w.buf EXCEPT ![1] = <<>>]
       /\ z.cur = [w.cur EXCEPT ![1] = NoItem]
       /\ z.usertag = [w.usertag EXCEPT ![1] = FALSE]
       /\ z.pending = [w.pending EXCEPT ![1] = TRUE] /\ z.cmds = w.cmds
  BY <1>4, <1>8, <1>9 DEF SocketShape
<1>11. /\ z.link[1] = "CONNECTING" /\ z.buf[1] = <<>> /\ z.cur[1] = NoItem
       /\ z.usertag[1] = FALSE /\ z.pending[1] = TRUE /\ u.conning[1] = TRUE
  BY <1>4, <1>8, <1>10, At
<1>12. /\ u.link = z.link /\ u.buf = z.buf /\ u.cur = z.cur
       /\ u.usertag = z.usertag /\ u.pending = z.pending /\ u.cmds = z.cmds
       /\ u.shuting = w.shuting
  BY ONLY <1>8, <1>10 DEF SameBut, Fields
<1>13. SameBut(t, u, {"cnt", "cmds", "shuting", "link", "pending", "buf",
                      "cur", "usertag", "conning", "dropped"})
  BY ONLY <1>3, <1>4, <1>8, <1>10 DEF SameBut, Fields
<1> QED
  BY <1>4, <1>5, <1>10, <1>11, <1>12, <1>13

LEMMA ReconnCuts ==
    ASSUME Clients = {1}, NEW t \in MqttRecord, Gone(t), t.cnt[1] < ReconnMax,
           NEW u, u = Reconn(t, 1)
    PROVE  Unlinked(u, "free")
<1>1. t.link[1] = "CLOSED" /\ ~t.conning[1]
  BY DEF Gone
<1>2. /\ SameBut(t, u, {"cnt", "cmds", "shuting", "link", "pending", "buf",
                        "cur", "usertag", "conning", "dropped"})
      /\ u.cmds = Append(t.cmds, SHUT) /\ u.shuting = TRUE
      /\ u.link[1] = "CONNECTING" /\ u.pending[1] = TRUE
      /\ u.buf[1] = <<>> /\ u.cur[1] = NoItem /\ u.usertag[1] = FALSE
      /\ u.conning[1] = TRUE
  BY <1>1, ReconnShuts
<1>3. /\ u.up = t.up /\ u.session = t.session /\ u.tping = t.tping
      /\ u.tlist = t.tlist /\ u.pubs = t.pubs /\ u.msgs = t.msgs
  BY <1>2 DEF SameBut, Fields
<1>4. SHUT \in Commands /\ SHUT \in Cuts /\ SHUT \notin Starts
  BY VerbIs, CommandType DEF Cuts, Starts
<1>5. /\ ~Some(u.cmds, Starts) /\ Ends(u.cmds, Starts)
      /\ CutOff(u.cmds, Sends, Cuts)
  BY <1>2, <1>4, AppendQueue DEF Gone
<1> QED
  BY <1>2, <1>3, <1>5 DEF Gone, Unlinked

LEMMA ReconnEnds ==
    ASSUME NEW t \in MqttRecord, Fresh(t, 1), ~t.conning[1], t.cnt[1] >= ReconnMax,
           NEW u, u = Reconn(t, 1)
    PROVE  /\ SameBut(t, u, {"cnt", "cyc", "treconn", "wants", "restart"})
           /\ u.treconn[1] = TRUE \/ u.wants[1] = FALSE \/ u.restart = TRUE
<1>1. 1 \in Clients
  BY MqttAssumption
<1>2. /\ t.cnt[1] \in 0..ReconnMax /\ t.cyc[1] \in 0..CycleMax
      /\ t.errcb[1] \in BOOLEAN
      /\ ReconnMax \in Nat \ {0} /\ CycleMax \in Nat \ {0}
  BY <1>1, MqttAssumption DEF MqttRecord, Flags
<1> PICK y : y = t.cyc[1] + 1
  OBVIOUS
<1>3. y \in 0..CycleMax /\ 0 \in 0..ReconnMax /\ 0 \in 0..CycleMax
  BY <1>2 DEF Fresh
<1> PICK a : a = [t EXCEPT !.cnt[1] = 0, !.cyc[1] = y]
  OBVIOUS
<1>4. a \in MqttRecord
  BY ONLY <1>1, <1>3, t \in MqttRecord, a = [t EXCEPT !.cnt[1] = 0, !.cyc[1] = y]
     DEF MqttRecord
<1>5. SameBut(t, a, {"cnt", "cyc"}) /\ a.cyc = [t.cyc EXCEPT ![1] = y]
  BY ONLY t \in MqttRecord, RecordFields, a = [t EXCEPT !.cnt[1] = 0, !.cyc[1] = y]
     DEF SameBut, Fields
<1>6. a.cyc[1] = y /\ a.errcb = t.errcb
  BY <1>5, At DEF SameBut, Fields
<1>7. \/ u = [a EXCEPT !.treconn[1] = TRUE]
      \/ u = [a EXCEPT !.cyc[1] = 0, !.wants[1] = FALSE]
      \/ u = [a EXCEPT !.restart = TRUE]
  <2>1. [t EXCEPT !.cnt[1] = 0, !.cyc[1] = @ + 1] = a
    OBVIOUS
  <2>2. u = Reconn(t, 1)
    OBVIOUS
  <2>3. ~t.conning[1] /\ t.cnt[1] >= ReconnMax
    OBVIOUS
  <2>4. CASE y < CycleMax
    BY <2>1, <2>2, <2>3, <2>4, <1>6, <1>2 DEF Reconn
  <2>5. CASE ~(y < CycleMax)
    BY <2>1, <2>2, <2>3, <2>5, <1>6, <1>2, <1>3 DEF Reconn
  <2> QED
    BY <2>4, <2>5
<1>8. \/ u.treconn = [a.treconn EXCEPT ![1] = TRUE]
      \/ u.wants = [a.wants EXCEPT ![1] = FALSE]
      \/ u.restart = TRUE
  BY ONLY <1>4, <1>7, RecordFields DEF Fields
<1>9. SameBut(a, u, {"cyc", "treconn", "wants", "restart"})
  BY ONLY <1>4, <1>7, RecordFields DEF SameBut, Fields
<1>10. SameBut(t, u, {"cnt", "cyc", "treconn", "wants", "restart"})
  BY ONLY <1>5, <1>9 DEF SameBut, Fields
<1>11. u.treconn[1] = TRUE \/ u.wants[1] = FALSE \/ u.restart = TRUE
  BY ONLY <1>4, <1>8, At
<1> QED
  BY <1>10, <1>11

LEMMA ReconnGone ==
    ASSUME Clients = {1}, NEW t \in MqttRecord, Gone(t), t.cnt[1] = 0 \/ Idles(t),
           Fresh(t, 1), NEW u, u = Reconn(t, 1)
    PROVE  Unlinked(u, "free")
<1>1. t.link[1] = "CLOSED" /\ ~t.conning[1]
  BY DEF Gone
<1>2. 1 \in Clients /\ t.cnt[1] \in 0..ReconnMax /\ ReconnMax \in Nat \ {0}
  BY CmdsType, MqttAssumption
<1>3. CASE t.cnt[1] < ReconnMax
  BY <1>3, ReconnCuts
<1>4. CASE t.cnt[1] >= ReconnMax
  <2>1. Idles(t)
    BY <1>2, <1>4
  <2>2. /\ SameBut(t, u, {"cnt", "cyc", "treconn", "wants", "restart"})
        /\ u.treconn[1] = TRUE \/ u.wants[1] = FALSE \/ u.restart = TRUE
    BY <1>1, <1>4, ReconnEnds
  <2>3. /\ u.up = t.up /\ u.session = t.session /\ u.tping = t.tping
        /\ u.tlist = t.tlist /\ u.pubs = t.pubs /\ u.msgs = t.msgs
        /\ u.link = t.link /\ u.conning = t.conning /\ u.pending = t.pending
        /\ u.cur = t.cur /\ u.usertag = t.usertag /\ u.cmds = t.cmds
        /\ u.ip = t.ip /\ u.shuting = t.shuting
    BY <2>2 DEF SameBut, Fields
  <2>4. Ends(u.cmds, Starts)
    BY <2>3, NoEnds DEF Gone
  <2> QED
    BY <2>1, <2>2, <2>3, <2>4 DEF Gone, Idles, Unlinked, Cut
<1> QED
  BY <1>2, <1>3, <1>4

LEMMA PubClient ==
    ASSUME Clients = {1}, NEW r \in Seq(Publishes), NEW n \in Nat, Untold1(r, n)
    PROVE  r[n].client = 1
<1>1. n \in 1..Len(r)
  BY DEF Untold1
<1>2. r[n] \in Publishes
  BY <1>1, ElementOfSeq
<1> QED
  BY <1>2 DEF Publishes

LEMMA DownQuiet ==
    ASSUME Clients = {1}, NEW t \in MqttRecord, NEW u, u = Down(t, 1)
    PROVE  /\ u \in MqttRecord
           /\ SameBut(t, u, {"tlist", "tping", "up", "session", "pubs"})
           /\ u.tlist = <<>> /\ u.tping[1] = FALSE /\ u.up[1] = FALSE
           /\ u.session[1] = FALSE /\ \A n \in Nat : ~Untold1(u.pubs, n)
<1>1. 1 \in Clients
  OBVIOUS
<1>2. DownShape(t, u, 1)
  BY <1>1, DownIs
<1>3. /\ u \in MqttRecord
      /\ SameBut(t, u, {"tlist", "tping", "up", "session", "pubs"})
      /\ u.tlist = <<>> /\ u.tping = [t.tping EXCEPT ![1] = FALSE]
      /\ u.up = [t.up EXCEPT ![1] = FALSE]
      /\ u.session = [t.session EXCEPT ![1] = FALSE]
      /\ \A n \in Nat : Untold1(u.pubs, n) => u.pubs[n].client # 1
  BY <1>2 DEF DownShape
<1>4. u.tping[1] = FALSE /\ u.up[1] = FALSE /\ u.session[1] = FALSE
  BY <1>3, At
<1>5. u.pubs \in Seq(Publishes)
  BY <1>3, CmdsType
<1>6. \A n \in Nat : ~Untold1(u.pubs, n)
  BY <1>3, <1>5, PubClient
<1> QED
  BY <1>3, <1>4, <1>6

LEMMA NoMessages ==
    ASSUME NEW t, t.msgs = <<>> PROVE \A S : ~Some(t.msgs, S)
BY EmptyHas

LEMMA DropAway ==
    ASSUME Clients = {1}, NEW t \in MqttRecord, t.link[1] = "CLOSED",
           ~t.conning[1], ~t.pending[1], t.msgs = <<>>, ~Some(t.cmds, Starts),
           Fresh(t, 1), t.cnt[1] = 0 \/ Idles(t), NEW u, u = Reconn(Down(t, 1), 1)
    PROVE  Unlinked(u, "free")
<1> PICK v : v = Down(t, 1)
  OBVIOUS
<1>1. /\ v \in MqttRecord
      /\ SameBut(t, v, {"tlist", "tping", "up", "session", "pubs"})
      /\ v.tlist = <<>> /\ v.tping[1] = FALSE /\ v.up[1] = FALSE
      /\ v.session[1] = FALSE /\ \A n \in Nat : ~Untold1(v.pubs, n)
  BY DownQuiet
<1>2. /\ v.link = t.link /\ v.conning = t.conning /\ v.pending = t.pending
      /\ v.msgs = t.msgs /\ v.cmds = t.cmds /\ v.cyc = t.cyc /\ v.cnt = t.cnt
      /\ v.cur = t.cur /\ v.usertag = t.usertag /\ v.ip = t.ip
      /\ v.shuting = t.shuting
  BY <1>1 DEF SameBut, Fields
<1>3. Gone(v)
  BY <1>1, <1>2, NoMessages DEF Gone
<1>4. v.cnt[1] = 0 \/ Idles(v)
  BY <1>2 DEF Idles, Cut
<1>5. Fresh(v, 1)
  BY <1>2 DEF Fresh
<1> QED
  BY <1>1, <1>3, <1>4, <1>5, ReconnGone

----------------------------------------------------------------------------
(* The answers and the events that cut the connection                      *)

(* With two clients, or in the special cases, Inv does not hold.           *)
Lone == Clients = {1} /\ Cases = {}

(* The invariant of the client, between two handlers *)
Client == Linked(m, conn[1]) \/ Unlinked(m, conn[1])

LEMMA IdleFacts ==
    ASSUME TInv, Idle
    PROVE  /\ Sound(m) /\ m \in MqttRecord /\ Carries(m, NoItem) /\ m.msgs = <<>>
           /\ Fresh(m, 1) /\ 1 \in Clients /\ m.restart = FALSE
           /\ DOMAIN conn = Clients /\ DOMAIN srv = Clients
<1>1. 1 \in Clients /\ Sound(m) /\ m \in MqttRecord
  BY MqttAssumption DEF TInv, Sound
<1>2. m.restart \in BOOLEAN
  BY <1>1 DEF MqttRecord
<1> QED
  BY <1>1, <1>2 DEF TInv, Idle, CycOK, Fresh, Sound, Connections, Servers

LEMMA ShutDrops ==
    ASSUME Clients = {1}, NEW t \in MqttRecord, t.link[1] = "CLOSED" \/ t.up[1],
           t.up[1] => t.link[1] \in {"CONNECTED", "DISCONNECTING"},
           ~t.conning[1], ~t.pending[1], t.msgs = <<>>, ~Some(t.cmds, Starts),
           Fresh(t, 1), t.cnt[1] = 0 \/ Idles(t), NEW u, u = ShutOne(t, 1)
    PROVE  Unlinked(u, "free")
<1>1. 1 \in Clients
  OBVIOUS
<1>2. t.link[1] \in {"CONNECTED", "DISCONNECTING", "CLOSED"}
  OBVIOUS
<1> PICK v : v = [t EXCEPT !.link[1] = "CLOSED"]
  OBVIOUS
<1>3. v \in MqttRecord
  BY ONLY <1>1, t \in MqttRecord, v = [t EXCEPT !.link[1] = "CLOSED"]
     DEF MqttRecord, LinkStates
<1>4. SameBut(t, v, {"link"}) /\ v.link = [t.link EXCEPT ![1] = "CLOSED"]
  BY ONLY t \in MqttRecord, v = [t EXCEPT !.link[1] = "CLOSED"], RecordFields
     DEF SameBut, Fields
<1>5. v.link[1] = "CLOSED"
  BY <1>4, At
<1>6. /\ v.conning = t.conning /\ v.pending = t.pending
      /\ v.msgs = t.msgs /\ v.cmds = t.cmds /\ v.cyc = t.cyc /\ v.cnt = t.cnt
      /\ v.cur = t.cur /\ v.usertag = t.usertag /\ v.ip = t.ip
      /\ v.shuting = t.shuting
  BY <1>4 DEF SameBut, Fields
<1>7. u = Reconn(Down(v, 1), 1)
  BY <1>2 DEF ShutOne, NtfyShuted
<1>8. v.cnt[1] = 0 \/ Idles(v)
  BY <1>6 DEF Idles, Cut
<1>9. Fresh(v, 1)
  BY <1>6 DEF Fresh
<1> QED
  BY <1>3, <1>5, <1>6, <1>7, <1>8, <1>9, DropAway

LEMMA DoneFacts ==
    ASSUME TInv, NEW v, Executing(v), NEW t, t = Done
    PROVE  /\ Sound(t) /\ t \in MqttRecord /\ SameBut(m, t, {"cmds"}) /\ Fresh(t, 1)
           /\ Head(m.cmds) \in Verb(v) /\ m.cmds # <<>>
           /\ \A S : Some(m.cmds, S) <=> Some(t.cmds, S) \/ Head(m.cmds) \in S
           /\ Ends(m.cmds, Starts) => Ends(t.cmds, Starts)
           /\ Ends(m.cmds, Starts) /\ v = "CIPSTART" => t.cmds = <<>>
           /\ CutOff(m.cmds, Sends, Cuts) => CutOff(t.cmds, Sends, Cuts)
           /\ Closing(m.cmds, Closes, Cuts) /\ v # "CIPCLOSE" =>
                Closing(t.cmds, Closes, Cuts)
           /\ Closing(m.cmds, Closes, Cuts) /\ v = "CIPCLOSE" =>
                \A U : U \intersect Cuts = {} => ~Some(t.cmds, U)
<1>1. Idle /\ m.cmds # <<>> /\ Head(m.cmds).verb = v
  BY DEF Executing
<1>2. Sound(m) /\ m \in MqttRecord /\ Fresh(m, 1)
  BY <1>1, IdleFacts
<1>3. /\ Sound(t) /\ SameBut(m, t, {"cmds"})
      /\ t.cmds = Tail(m.cmds) /\ Head(m.cmds) \in Commands
  BY <1>1, <1>2, DoneIs
<1>4. t \in MqttRecord /\ t.cyc = m.cyc
  BY <1>3 DEF Sound, SameBut, Fields
<1>5. Head(m.cmds) \in Verb(v) /\ (v # "CIPCLOSE" => Head(m.cmds) \notin Closes)
  BY <1>1, <1>3 DEF Verb, Closes
<1>6. m.cmds \in Seq(Commands)
  BY <1>2, CmdsType
<1>7. \A S : Some(m.cmds, S) <=> Some(t.cmds, S) \/ Head(m.cmds) \in S
  BY <1>1, <1>3, <1>6, TailHas
<1>8. /\ Ends(m.cmds, Starts) => Ends(t.cmds, Starts)
      /\ Ends(m.cmds, Starts) /\ v = "CIPSTART" => t.cmds = <<>>
  BY <1>1, <1>3, <1>5, <1>6, TailQueue DEF Starts
<1>9. CutOff(m.cmds, Sends, Cuts) => CutOff(t.cmds, Sends, Cuts)
  BY <1>1, <1>3, <1>6, TailQueue
<1>10. Closing(m.cmds, Closes, Cuts) /\ v # "CIPCLOSE" =>
                Closing(t.cmds, Closes, Cuts)
  BY <1>1, <1>3, <1>5, <1>6, TailQueue
<1>11. Closing(m.cmds, Closes, Cuts) /\ v = "CIPCLOSE" =>
                \A U : U \intersect Cuts = {} => ~Some(t.cmds, U)
  BY <1>1, <1>3, <1>5, <1>6, TailQueue DEF Closes
<1>12. Fresh(t, 1)
  BY <1>2, <1>4 DEF Fresh
<1> QED
  BY <1>1, <1>3, <1>4, <1>5, <1>7, <1>8, <1>9, <1>10, <1>11, <1>12

LEMMA VerbsDiffer ==
    ASSUME NEW v, NEW w, v # w
    PROVE  Verb(v) \intersect Verb(w) = {}
BY DEF Verb

LEMMA AnswerShutClient ==
    ASSUME Clients = {1}, TInv, Client, AnswerShut
    PROVE  Unlinked(m', conn'[1])
<1> PICK t : t = Done
  OBVIOUS
<1>1. Executing("CIPSHUT") /\ m' = ShutCnf(t) /\ conn'[1] = "free" /\ Idle
  BY DEF AnswerShut, Executing, Each
<1>2. /\ Sound(m) /\ m \in MqttRecord /\ m.msgs = <<>> /\ 1 \in Clients
  BY <1>1, IdleFacts
<1>3. /\ t \in MqttRecord /\ SameBut(m, t, {"cmds"}) /\ Fresh(t, 1)
      /\ Head(m.cmds) \in Cuts
      /\ \A S : Some(m.cmds, S) <=> Some(t.cmds, S) \/ Head(m.cmds) \in S
      /\ Ends(m.cmds, Starts) => Ends(t.cmds, Starts)
      /\ CutOff(m.cmds, Sends, Cuts) => CutOff(t.cmds, Sends, Cuts)
  BY <1>1, DoneFacts DEF Cuts
<1> PICK v : v = [t EXCEPT !.shuting = FALSE, !.ip = FALSE]
  OBVIOUS
<1>4. v \in MqttRecord
  BY ONLY <1>3, v = [t EXCEPT !.shuting = FALSE, !.ip = FALSE] DEF MqttRecord
<1>5. SameBut(t, v, {"shuting", "ip"}) /\ v.ip = FALSE
  BY ONLY <1>3, v = [t EXCEPT !.shuting = FALSE, !.ip = FALSE], RecordFields
     DEF SameBut, Fields
<1>6. m' = ShutOne(v, 1)
  BY <1>1 DEF ShutCnf, InTurn
<1>7. SameBut(m, v, {"cmds", "shuting", "ip"}) /\ v.cmds = t.cmds
  BY ONLY <1>3, <1>5 DEF SameBut, Fields
<1>8. /\ v.link = m.link /\ v.up = m.up /\ v.conning = m.conning
      /\ v.pending = m.pending /\ v.msgs = <<>> /\ v.cyc = t.cyc
      /\ v.cnt = m.cnt /\ v.cur = m.cur /\ v.usertag = m.usertag
  BY <1>2, <1>3, <1>7 DEF SameBut, Fields
<1>9. Fresh(v, 1)
  BY <1>3, <1>8 DEF Fresh
<1>10. ~Some(m.cmds, Starts) => ~Some(v.cmds, Starts)
  BY <1>3, <1>7
<1>11. CASE Linked(m, conn[1])
  BY <1>1, <1>4, <1>6, <1>8, <1>9, <1>10, <1>11, ShutDrops DEF Linked, LinkedCore
<1>12. CASE Unlinked(m, conn[1])
  <2>1. Cut(m) /\ CutOff(v.cmds, Sends, Cuts)
    BY <1>3, <1>7, <1>12 DEF Cut, Unlinked
  <2>2. CASE m.link[1] = "CLOSED"
    <3>1. Idles(v)
      BY <1>5, <1>8, <1>12, <2>1 DEF Idles, Unlinked
    <3>2. ~m.conning[1] /\ ~m.pending[1] /\ ~Some(m.cmds, Starts)
      BY <1>12, <2>2 DEF Unlinked
    <3> QED
      BY <1>1, <1>4, <1>6, <1>8, <1>9, <1>10, <2>2, <3>1, <3>2, <1>12, ShutDrops
         DEF Unlinked
  <2>3. CASE m.link[1] # "CLOSED"
    <3>1. \/ m.link[1] = "NIL LINK"
          \/ m.link[1] = "CONNECTING" /\ m.pending[1]
      BY <1>12, <2>1, <2>3 DEF Unlinked
    <3>2. m' = v
      BY <1>6, <1>8, <3>1 DEF ShutOne
    <3>3. ~Some(v.cmds, Starts)
      BY <1>10, <1>12, <3>1 DEF Unlinked
    <3>4. /\ v.session = m.session /\ v.tping = m.tping /\ v.tlist = m.tlist
          /\ v.pubs = m.pubs /\ v.msgs = m.msgs /\ v.treconn = m.treconn
          /\ v.dropped = m.dropped
          /\ v.wants = m.wants /\ v.restart = m.restart /\ v.buf = m.buf
      BY <1>7 DEF SameBut, Fields
    <3>5. Unlinked(v, "free")
      BY <1>5, <1>8, <1>12, <2>1, <3>1, <3>3, <3>4, NoEnds DEF Unlinked, Cut
    <3> QED
      BY <1>1, <3>2, <3>5
  <2> QED
    BY <2>2, <2>3
<1> QED
  BY <1>11, <1>12 DEF Client

LEMMA FlushQueue ==
    ASSUME NEW t \in MqttRecord, NEW w, FlushShape(t, w, 1)
    PROVE  /\ \A S : Some(t.cmds, S) => Some(w.cmds, S)
           /\ \A S : Some(w.cmds, S) /\ SHUT \notin S => Some(t.cmds, S)
           /\ Closing(t.cmds, Closes, Cuts) => Closing(w.cmds, Closes, Cuts)
           /\ CutOff(t.cmds, Sends, Cuts) => CutOff(w.cmds, Sends, Cuts)
           /\ w.shuting = t.shuting \/ w.shuting = TRUE
<1>1. CASE t.buf[1] = <<>>
  BY <1>1 DEF FlushShape
<1>2. CASE t.buf[1] # <<>>
  <2>1. PICK s : Shuts(s) /\ w.cmds = t.cmds \o s
    BY <1>2 DEF FlushShape
  <2>2. SHUT \in Commands /\ SHUT \notin Sends /\ SHUT \in Cuts
    BY CommandType, VerbIs DEF Sends, Cuts
  <2>3. t.cmds \in Seq(Commands) /\ s \in Seq({SHUT}) /\ s # <<>>
    BY <2>1, CmdsType DEF Shuts
  <2>4. \A S : Some(t.cmds \o s, S) <=> Some(t.cmds, S) \/ SHUT \in S
    BY ONLY <2>2, <2>3, ConcatQueue
  <2>5. Closing(t.cmds, Closes, Cuts) => Closing(t.cmds \o s, Closes, Cuts)
    BY ONLY <2>2, <2>3, ConcatQueue
  <2>6. CutOff(t.cmds \o s, Sends, Cuts)
    BY ONLY <2>2, <2>3, ConcatQueue
  <2>7. w.shuting = TRUE
    BY <1>2 DEF FlushShape
  <2> QED
    BY <2>1, <2>4, <2>5, <2>6, <2>7
<1> QED
  BY <1>1, <1>2

LEMMA SendIsUnderWay ==
    ASSUME Clients = {1}, NEW t \in MqttRecord, ~SendUnderWay(t, 1)
    PROVE  ~Some(t.cmds, Sends)
<1> SUFFICES ASSUME NEW k \in 1..Len(t.cmds), t.cmds[k] \in Sends PROVE FALSE
  BY DEF Some
<1>1. t.cmds \in Seq(Commands) /\ DOMAIN t.cmds = 1..Len(t.cmds)
  BY CmdsType, LenProperties
<1>2. t.cmds[k] \in Commands /\ t.cmds[k].verb = "CIPSEND"
  BY <1>1, ElementOfSeq DEF Sends, Verb
<1>3. t.cmds[k].id = 1
  BY <1>2, CommandIs
<1>4. t.cmds[k] \in ToSet(t.cmds)
  BY <1>1 DEF ToSet
<1> QED
  BY <1>2, <1>3, <1>4 DEF SendUnderWay

LEMMA PeerClosesClient ==
    ASSUME Lone, TInv, Client, PeerCloses
    PROVE  Unlinked(m', conn'[1])
<1>1. Idle /\ Clients = {1} /\ Cases = {}
  BY DEF PeerCloses, Lone
<1>2. /\ Sound(m) /\ m \in MqttRecord /\ m.msgs = <<>> /\ 1 \in Clients
      /\ Fresh(m, 1) /\ DOMAIN conn = Clients
  BY <1>1, IdleFacts
<1>3. /\ conn[1] = "open" /\ (m.discing[1] => ~SendUnderWay(m, 1))
      /\ conn' = [conn EXCEPT ![1] = "free"] /\ m' = StatusInd(m, 1, "CLOSED")
  BY <1>1 DEF PeerCloses
<1>4. conn'[1] = "free" /\ LinkedCore(m, conn[1]) /\ Sending(m)
  BY <1>2, <1>3 DEF Client, Unlinked, Linked
<1>5. m.link[1] \in {"CONNECTED", "DISCONNECTING"}
  BY <1>4 DEF LinkedCore
<1> PICK v : v = [m EXCEPT !.link[1] = "CLOSED"]
  OBVIOUS
<1>6. v \in MqttRecord
  BY ONLY <1>2, v = [m EXCEPT !.link[1] = "CLOSED"]
     DEF MqttRecord, LinkStates
<1>7. SameBut(m, v, {"link"}) /\ v.link = [m.link EXCEPT ![1] = "CLOSED"]
  BY ONLY <1>2, v = [m EXCEPT !.link[1] = "CLOSED"], RecordFields
     DEF SameBut, Fields
<1> PICK w : w = Flush(v, 1)
  OBVIOUS
<1>8. FlushShape(v, w, 1) /\ w \in MqttRecord
  <2>1. FlushShape(v, w, 1)
    BY <1>2, <1>6, FlushIs
  <2> QED
    BY <2>1 DEF FlushShape
<1>9. m' = NtfyClosed(w, 1)
  BY <1>3, <1>5 DEF StatusInd
<1>10. SameBut(v, w, {"cmds", "shuting", "buf"})
  BY <1>8 DEF FlushShape
<1>11. /\ w.discing = m.discing /\ w.conning = m.conning /\ w.pending = m.pending
       /\ w.msgs = m.msgs /\ w.cyc = m.cyc /\ w.cnt = m.cnt
       /\ w.link = v.link /\ v.cmds = m.cmds /\ w.cur = m.cur /\ w.ip = m.ip
       /\ v.shuting = m.shuting
  BY ONLY <1>7, <1>10 DEF SameBut, Fields
<1>12. w.link[1] = "CLOSED"
  BY <1>2, <1>7, <1>11, At
<1>13. ~Some(w.cmds, Starts)
  <2>1. ~Some(v.cmds, Starts) /\ v.cmds \in Seq(Commands)
    BY <1>4, <1>6, <1>11, CmdsType DEF LinkedCore
  <2>2. SHUT \notin Starts
    BY VerbIs DEF Starts
  <2> QED
    BY <1>6, <1>8, <2>1, <2>2, FlushQueue
<1>14. Fresh(w, 1)
  BY <1>2, <1>11 DEF Fresh
<1>15. CASE ~m.discing[1]
  <2>1. m' = Reconn(Down(w, 1), 1)
    BY <1>9, <1>11, <1>15 DEF NtfyClosed
  <2> QED
    BY <1>1, <1>2, <1>4, <1>8, <1>11, <1>12, <1>13, <1>14, <2>1, DropAway
       DEF LinkedCore
<1>16. CASE m.discing[1]
  <2> PICK d : d = Down(w, 1)
    OBVIOUS
  <2>1. /\ d \in MqttRecord
        /\ SameBut(w, d, {"tlist", "tping", "up", "session", "pubs"})
        /\ d.tlist = <<>> /\ d.tping[1] = FALSE /\ d.up[1] = FALSE
        /\ d.session[1] = FALSE /\ \A n \in Nat : ~Untold1(d.pubs, n)
    BY <1>1, <1>8, DownQuiet
  <2> PICK u : u = m'
    OBVIOUS
  <2>2. u = [d EXCEPT !.discing[1] = FALSE, !.dropped[1] = TRUE]
    BY <1>9, <1>11, <1>16 DEF NtfyClosed
  <2>3. SameBut(d, u, {"discing", "dropped"}) /\ u.dropped[1] = TRUE
    <3>1. 1 \in DOMAIN d.dropped /\ 1 \in DOMAIN d.discing
      BY <1>2, <2>1 DEF MqttRecord, Flags
    <3> QED
      BY ONLY <2>1, <2>2, <3>1, RecordFields DEF SameBut, Fields
  <2>4. SameBut(w, u, {"tlist", "tping", "up", "session", "pubs", "discing", "dropped"})
        /\ u.tlist = d.tlist /\ u.tping = d.tping /\ u.up = d.up
        /\ u.session = d.session /\ u.pubs = d.pubs
    BY ONLY <2>1, <2>3 DEF SameBut, Fields
  <2>5. /\ u.link = w.link /\ u.conning = w.conning /\ u.pending = w.pending
        /\ u.msgs = m.msgs /\ u.cmds = w.cmds /\ u.cur = m.cur
        /\ u.ip = m.ip /\ u.shuting = w.shuting
    BY ONLY <1>11, <2>4 DEF SameBut, Fields
  <2>6. ~Some(m.cmds, Sends) /\ m.cur[1] = NoItem
    <3>1. ~Some(m.cmds, Sends)
      BY <1>2, <1>3, <1>16, <1>1, SendIsUnderWay
    <3> QED
      BY <1>4, <3>1 DEF Sending
  <2>7. ~Some(w.cmds, Sends) /\ (Cut(w) => ~w.ip \/ w.shuting)
    <3>1. FlushShape(v, w, 1) /\ v \in MqttRecord
      BY <1>6, <1>8
    <3>2. SHUT \notin Sends
      BY VerbIs DEF Sends
    <3>3. ~Some(w.cmds, Sends)
      BY <1>11, <2>6, <3>1, <3>2, FlushQueue
    <3>4. Some(m.cmds, Cuts) => ~m.ip \/ m.shuting
      BY <1>4 DEF LinkedCore, Cut
    <3>5. v.buf[1] = <<>> => w.cmds = v.cmds
      BY <3>1 DEF FlushShape
    <3>6. v.buf[1] # <<>> => w.shuting = TRUE
      BY <3>1 DEF FlushShape
    <3>7. w.shuting = v.shuting \/ w.shuting = TRUE
      BY <3>1, FlushQueue
    <3> QED
      BY ONLY <1>11, <3>3, <3>4, <3>5, <3>6, <3>7 DEF Cut
  <2>8. /\ Ends(u.cmds, Starts) /\ CutOff(u.cmds, Sends, Cuts)
        /\ ~Some(u.cmds, Starts) /\ (Cut(u) => ~u.ip \/ u.shuting)
    <3>1. Ends(w.cmds, Starts) /\ CutOff(w.cmds, Sends, Cuts)
      BY <1>13, <2>7, NoEnds
    <3> QED
      BY <1>11, <1>13, <2>5, <2>7, <3>1 DEF Cut
  <2>9. ~Some(u.msgs, Asks) /\ ~Some(u.msgs, Repeats)
    BY <1>2, <2>5, EmptyHas
  <2>10. /\ u.link[1] = "CLOSED" /\ ~u.up[1] /\ ~u.session[1] /\ ~u.tping[1]
         /\ ~u.conning[1] /\ ~u.pending[1] /\ u.cur[1] = NoItem
         /\ u.tlist = <<>> /\ \A n \in Nat : ~Untold1(u.pubs, n)
    BY <1>4, <1>11, <1>12, <2>1, <2>4, <2>5, <2>6 DEF LinkedCore
  <2>11. Unlinked(u, "free")
    BY ONLY <2>3, <2>8, <2>9, <2>10 DEF Unlinked
  <2> QED
    BY <1>4, <2>11
<1> QED
  BY <1>15, <1>16

LEMMA UnlinkedPops ==
    ASSUME TInv, NEW c, Unlinked(m, c), NEW v, v \in {"CIPCLOSE", "CIPSEND"},
           Executing(v), NEW t, t = Done
    PROVE  Unlinked(t, c) /\ c = "free"
<1>1. /\ SameBut(m, t, {"cmds"}) /\ Head(m.cmds) \in Verb(v) /\ m.cmds # <<>>
      /\ \A S : Some(m.cmds, S) <=> Some(t.cmds, S) \/ Head(m.cmds) \in S
      /\ Ends(m.cmds, Starts) => Ends(t.cmds, Starts)
      /\ CutOff(m.cmds, Sends, Cuts) => CutOff(t.cmds, Sends, Cuts)
  BY DoneFacts
<1>2. Head(m.cmds) \notin Starts /\ Head(m.cmds) \notin Cuts
  BY <1>1, VerbsDiffer DEF Starts, Cuts
<1>3. /\ Some(m.cmds, Starts) <=> Some(t.cmds, Starts)
      /\ Some(m.cmds, Cuts) <=> Some(t.cmds, Cuts)
      /\ Some(t.cmds, Sends) => Some(m.cmds, Sends)
  BY <1>1, <1>2
<1>4. c = "free"
  BY <1>1 DEF Unlinked
<1>5. /\ t.link = m.link /\ t.up = m.up /\ t.session = m.session
      /\ t.tping = m.tping /\ t.usertag = m.usertag /\ t.conning = m.conning
      /\ t.cur = m.cur /\ t.tlist = m.tlist /\ t.pubs = m.pubs /\ t.msgs = m.msgs
      /\ t.pending = m.pending /\ t.buf = m.buf /\ t.wants = m.wants
      /\ t.treconn = m.treconn /\ t.dropped = m.dropped /\ t.restart = m.restart
      /\ t.ip = m.ip
      /\ t.shuting = m.shuting
  BY <1>1 DEF SameBut, Fields
<1> QED
  BY <1>1, <1>3, <1>4, <1>5 DEF Unlinked, Cut

LEMMA LinkedVerbs ==
    ASSUME TInv, NEW c, LinkedCore(m, c), NEW v, Executing(v)
    PROVE  v # "CIPSTART" /\ (v = "CIPCLOSE" => m.link[1] = "DISCONNECTING")
<1>1. /\ Head(m.cmds) \in Verb(v)
      /\ \A S : Head(m.cmds) \in S => Some(m.cmds, S)
  BY DoneFacts
<1> QED
  BY <1>1 DEF LinkedCore, Starts, Closes

LEMMA AnswerCloseClient ==
    ASSUME Clients = {1}, TInv, Client, AnswerClose
    PROVE  Unlinked(m', conn'[1])
<1> PICK t : t = Done
  OBVIOUS
<1>1. Executing("CIPCLOSE") /\ Idle
  BY DEF AnswerClose, Executing
<1>2. /\ m \in MqttRecord /\ m.msgs = <<>> /\ 1 \in Clients /\ DOMAIN conn = Clients
  BY <1>1, IdleFacts
<1>3. /\ t \in MqttRecord /\ SameBut(m, t, {"cmds"}) /\ Fresh(t, 1)
      /\ Head(m.cmds) \in Closes
      /\ \A S : Some(m.cmds, S) <=> Some(t.cmds, S) \/ Head(m.cmds) \in S
      /\ Closing(m.cmds, Closes, Cuts) =>
                \A U : U \intersect Cuts = {} => ~Some(t.cmds, U)
      /\ Head(m.cmds) \in Commands
  BY <1>1, DoneFacts DEF Closes, Verb
<1>4. Head(m.cmds).id = 1
  <2>1. Head(m.cmds).verb = "CIPCLOSE"
    BY <1>1 DEF Executing
  <2> QED
    BY <1>3, <2>1, CommandIs
<1>5. /\ m' = CloseCnf(t, 1) /\ conn'[1] = "free"
  BY <1>2, <1>4 DEF AnswerClose
<1>6. /\ t.link = m.link /\ t.up = m.up /\ t.session = m.session
      /\ t.tping = m.tping /\ t.usertag = m.usertag /\ t.conning = m.conning
      /\ t.cur = m.cur /\ t.tlist = m.tlist /\ t.pubs = m.pubs /\ t.msgs = m.msgs
      /\ t.pending = m.pending /\ t.buf = m.buf /\ t.wants = m.wants
      /\ t.treconn = m.treconn /\ t.dropped = m.dropped /\ t.restart = m.restart
      /\ t.ip = m.ip
      /\ t.shuting = m.shuting /\ t.cnt = m.cnt
  BY <1>3 DEF SameBut, Fields
<1>7. CASE Unlinked(m, conn[1])
  <2>1. Unlinked(t, "free")
    BY <1>1, <1>7, UnlinkedPops
  <2>2. m' = t
    BY <1>5, <1>6, <1>7 DEF CloseCnf, Unlinked
  <2> QED
    BY <1>5, <2>1, <2>2
<1>8. CASE Linked(m, conn[1])
  <2>1. LinkedCore(m, conn[1]) /\ Sending(m)
    BY <1>8 DEF Linked
  <2>2. m.link[1] = "DISCONNECTING"
    BY <1>1, <2>1, LinkedVerbs
  <2>3. \A U : U \intersect Cuts = {} => ~Some(t.cmds, U)
    BY <1>3, <2>1, <2>2 DEF LinkedCore
  <2>4. Starts \intersect Cuts = {} /\ Sends \intersect Cuts = {}
        /\ Closes \intersect Sends = {} /\ Closes \intersect Cuts = {}
    BY VerbsDiffer DEF Starts, Sends, Cuts, Closes
  <2>5. ~Some(t.cmds, Starts) /\ ~Some(t.cmds, Sends)
    BY <2>3, <2>4
  <2>6. m.cur[1] = NoItem
    BY <1>3, <2>1, <2>4, <2>5 DEF Sending
  <2> PICK v : v = [t EXCEPT !.link[1] = "CLOSED", !.usertag[1] = FALSE]
    OBVIOUS
  <2>7. v \in MqttRecord
    <3>1. t \in MqttRecord /\ 1 \in Clients /\ "CLOSED" \in LinkStates
      BY <1>2, <1>3 DEF LinkStates
    <3> QED
      BY ONLY <3>1, v = [t EXCEPT !.link[1] = "CLOSED", !.usertag[1] = FALSE]
         DEF MqttRecord, Flags
  <2>8. /\ SameBut(t, v, {"link", "usertag"})
        /\ v.link = [t.link EXCEPT ![1] = "CLOSED"]
        /\ v.usertag = [t.usertag EXCEPT ![1] = FALSE]
    BY ONLY <1>3, v = [t EXCEPT !.link[1] = "CLOSED", !.usertag[1] = FALSE],
            RecordFields DEF SameBut, Fields
  <2>9. v.link[1] = "CLOSED" /\ v.usertag[1] = FALSE
    BY <1>3, <2>8, At
  <2>10. /\ v.conning = m.conning /\ v.pending = m.pending /\ v.msgs = <<>>
         /\ v.cyc = t.cyc /\ v.cnt = m.cnt /\ v.cmds = t.cmds /\ v.cur = m.cur
         /\ v.wants = m.wants /\ v.treconn = m.treconn /\ v.dropped = m.dropped
         /\ v.buf = m.buf
         /\ v.ip = m.ip /\ v.shuting = m.shuting
    BY <1>2, <1>6, <2>8 DEF SameBut, Fields
  <2>11. m' = NtfyDisconnect(v, 1, m.usertag[1])
    BY <1>5, <1>6, <2>2 DEF CloseCnf
  <2>12. CASE ~m.usertag[1]
    <3>1. m' = Reconn(Down(v, 1), 1)
      BY <2>11, <2>12 DEF NtfyDisconnect
    <3>2. Fresh(v, 1)
      BY <1>3, <2>10 DEF Fresh
    <3> QED
      BY <1>5, <2>1, <2>5, <2>7, <2>9, <2>10, <3>1, <3>2, DropAway DEF LinkedCore
  <2>13. CASE m.usertag[1]
    <3> PICK w : w = Down(v, 1)
      OBVIOUS
    <3>1. /\ w \in MqttRecord
          /\ SameBut(v, w, {"tlist", "tping", "up", "session", "pubs"})
          /\ w.tlist = <<>> /\ w.tping[1] = FALSE /\ w.up[1] = FALSE
          /\ w.session[1] = FALSE /\ \A n \in Nat : ~Untold1(w.pubs, n)
      BY <2>7, DownQuiet
    <3>2. m' = [w EXCEPT !.discing[1] = FALSE]
      BY <2>11, <2>13 DEF NtfyDisconnect
    <3>3. SameBut(w, m', {"discing"})
      BY ONLY <3>1, <3>2, RecordFields DEF SameBut, Fields
    <3>4. /\ m'.link = v.link /\ m'.usertag = v.usertag /\ m'.conning = v.conning
          /\ m'.pending = v.pending /\ m'.msgs = v.msgs /\ m'.cmds = v.cmds
          /\ m'.cur = v.cur /\ m'.wants = v.wants /\ m'.treconn = v.treconn
          /\ m'.dropped = v.dropped
          /\ m'.buf = v.buf /\ m'.ip = v.ip /\ m'.shuting = v.shuting
          /\ m'.tlist = w.tlist /\ m'.tping = w.tping /\ m'.up = w.up
          /\ m'.session = w.session /\ m'.pubs = w.pubs
      BY ONLY <3>1, <3>3 DEF SameBut, Fields
    <3>5. Ends(t.cmds, Starts) /\ CutOff(t.cmds, Sends, Cuts)
      BY <2>5, NoEnds DEF CutOff, Some
    <3>6. Cut(m') => ~m'.ip \/ m'.shuting
      BY <1>3, <2>1, <2>10, <3>4 DEF LinkedCore, Cut
    <3>7. ~Some(m'.msgs, Asks) /\ ~Some(m'.msgs, Repeats)
      BY <2>10, <3>4, EmptyHas
    <3>8. ~m.wants[1] /\ ~m.conning[1] /\ ~m.pending[1]
      BY <2>1, <2>13 DEF LinkedCore
    <3> PICK x : x = m'
      OBVIOUS
    <3>9. /\ x.link[1] = "CLOSED" /\ ~x.up[1] /\ ~x.session[1] /\ ~x.tping[1]
          /\ ~x.usertag[1] /\ ~x.conning[1] /\ x.cur[1] = NoItem /\ x.tlist = <<>>
          /\ ~x.pending[1] /\ ~x.wants[1] /\ x.cmds = t.cmds /\ x.pubs = w.pubs
      BY <2>6, <2>9, <2>10, <3>1, <3>4, <3>8
    <3>10. /\ ~Some(x.msgs, Asks) /\ ~Some(x.msgs, Repeats)
           /\ Cut(x) => ~x.ip \/ x.shuting
      BY <3>6, <3>7
    <3>11. Unlinked(x, "free")
      BY ONLY <2>5, <3>1, <3>5, <3>9, <3>10 DEF Unlinked
    <3> QED
      BY <1>5, <3>11
  <2> QED
    BY <2>12, <2>13
<1> QED
  BY <1>7, <1>8 DEF Client

LEMMA ConnectFails ==
    ASSUME NEW t \in MqttRecord, Unlinked(t, "opening"), NEW v, v # "CONNECT OK",
           NEW u, u = StatusInd(t, 1, v)
    PROVE  Unlinked(u, "free")
<1>1. /\ t.link[1] = "CONNECTING" /\ t.buf[1] = <<>> /\ t.cmds = <<>>
      /\ ~t.pending[1]
  BY DEF Unlinked
<1> PICK a : a = [t EXCEPT !.link[1] = "CLOSED"]
  OBVIOUS
<1>2. 1 \in Clients
  BY CmdsType
<1>3. a \in MqttRecord
  BY ONLY <1>2, t \in MqttRecord, a = [t EXCEPT !.link[1] = "CLOSED"]
     DEF MqttRecord, LinkStates
<1>4. SameBut(t, a, {"link"}) /\ a.link = [t.link EXCEPT ![1] = "CLOSED"]
  BY ONLY t \in MqttRecord, a = [t EXCEPT !.link[1] = "CLOSED"], RecordFields
     DEF SameBut, Fields
<1>5. Flush(a, 1) = a
  BY <1>1, <1>4 DEF Flush, SameBut, Fields
<1>6. u = [NtfyConnectFail(a, 1) EXCEPT !.cur[1] = NoItem]
  BY <1>1, <1>5 DEF StatusInd
<1> PICK b : b = [a EXCEPT !.conning[1] = FALSE, !.treconn[1] = TRUE]
  OBVIOUS
<1>7. b \in MqttRecord
  BY ONLY <1>2, <1>3, b = [a EXCEPT !.conning[1] = FALSE, !.treconn[1] = TRUE]
     DEF MqttRecord, Flags
<1>8. /\ SameBut(a, b, {"conning", "treconn"})
      /\ b.conning = [a.conning EXCEPT ![1] = FALSE]
      /\ b.treconn = [a.treconn EXCEPT ![1] = TRUE]
  BY ONLY <1>3, b = [a EXCEPT !.conning[1] = FALSE, !.treconn[1] = TRUE],
          RecordFields DEF SameBut, Fields
<1>9. u = [b EXCEPT !.cur[1] = NoItem]
  BY <1>6 DEF NtfyConnectFail
<1>10. SameBut(b, u, {"cur"}) /\ u.cur = [b.cur EXCEPT ![1] = NoItem]
  BY ONLY <1>7, <1>9, RecordFields DEF SameBut, Fields
<1>11. /\ u.conning = b.conning /\ u.treconn = b.treconn
       /\ u.dropped = b.dropped /\ u.link = a.link
       /\ u.up = t.up /\ u.session = t.session /\ u.tping = t.tping
       /\ u.usertag = t.usertag /\ u.tlist = t.tlist /\ u.pubs = t.pubs
       /\ u.msgs = t.msgs /\ u.pending = t.pending /\ u.cmds = t.cmds
  BY ONLY <1>4, <1>8, <1>10 DEF SameBut, Fields
<1>12. /\ a.link[1] = "CLOSED" /\ b.conning[1] = FALSE /\ b.treconn[1] = TRUE
       /\ u.cur[1] = NoItem
  <2>1. a.link[1] = "CLOSED"
    BY <1>4, At
  <2>2. b.conning[1] = FALSE /\ b.treconn[1] = TRUE
    <3>1. DOMAIN a.conning = Clients /\ DOMAIN a.treconn = Clients
      BY <1>3, At
    <3> QED
      BY ONLY <1>2, <1>8, <3>1
  <2>3. u.cur[1] = NoItem
    BY <1>7, <1>10, At
  <2> QED
    BY <2>1, <2>2, <2>3
<1>13. /\ \A S : ~Some(u.cmds, S)
       /\ Ends(u.cmds, Starts) /\ CutOff(u.cmds, Sends, Cuts)
  BY <1>1, <1>11, EmptyHas, NoEnds
<1> QED
  BY <1>1, <1>11, <1>12, <1>13 DEF Unlinked, Cut

LEMMA ConnectsOk ==
    ASSUME NEW t \in MqttRecord, Unlinked(t, "opening"),
           NEW u, u = StatusInd(t, 1, "CONNECT OK")
    PROVE  Linked(u, "open")
<1>1. /\ t.link[1] = "CONNECTING" /\ t.buf[1] = <<>> /\ t.cmds = <<>>
      /\ ~t.pending[1] /\ t.tlist = <<>> /\ t.cur[1] = NoItem
      /\ \A n \in Nat : ~Untold1(t.pubs, n)
      /\ ~t.session[1] /\ ~t.usertag[1] /\ ~Some(t.msgs, Asks)
  BY DEF Unlinked
<1>2. 1 \in Clients
  BY CmdsType
<1> PICK a : a = [t EXCEPT !.link[1] = "CONNECTED"]
  OBVIOUS
<1>3. a \in MqttRecord
  BY ONLY <1>2, t \in MqttRecord, a = [t EXCEPT !.link[1] = "CONNECTED"]
     DEF MqttRecord, LinkStates
<1>4. SameBut(t, a, {"link"}) /\ a.link = [t.link EXCEPT ![1] = "CONNECTED"]
  BY ONLY t \in MqttRecord, a = [t EXCEPT !.link[1] = "CONNECTED"], RecordFields
     DEF SameBut, Fields
<1> PICK b : b = [a EXCEPT !.conning[1] = FALSE, !.up[1] = TRUE, !.cnt[1] = 0,
                           !.cyc[1] = 0, !.treconn[1] = FALSE]
  OBVIOUS
<1>5. u = SndNxt(SndConnect(b, 1), 1)
  BY <1>1 DEF StatusInd, NtfyConnect
<1>6. b \in MqttRecord
  <2>1. 0 \in 0..ReconnMax /\ 0 \in 0..CycleMax
    BY ONLY MqttAssumption
  <2> QED
    BY ONLY <2>1, <1>2, <1>3, b = [a EXCEPT !.conning[1] = FALSE, !.up[1] = TRUE,
            !.cnt[1] = 0, !.cyc[1] = 0, !.treconn[1] = FALSE]
       DEF MqttRecord, Flags
<1>7. /\ SameBut(a, b, {"conning", "up", "cnt", "cyc", "treconn"})
      /\ b.conning = [a.conning EXCEPT ![1] = FALSE]
      /\ b.up = [a.up EXCEPT ![1] = TRUE] /\ b.cnt = [a.cnt EXCEPT ![1] = 0]
      /\ b.treconn = [a.treconn EXCEPT ![1] = FALSE]
  BY ONLY <1>3, b = [a EXCEPT !.conning[1] = FALSE, !.up[1] = TRUE,
            !.cnt[1] = 0, !.cyc[1] = 0, !.treconn[1] = FALSE], RecordFields
     DEF SameBut, Fields
<1>8. SameBut(t, b, {"link", "conning", "up", "cnt", "cyc", "treconn"})
      /\ b.link = a.link
  BY ONLY <1>4, <1>7 DEF SameBut, Fields
<1>9. /\ b.buf = t.buf /\ b.cmds = t.cmds /\ b.tlist = t.tlist /\ b.cur = t.cur
  BY ONLY <1>8 DEF SameBut, Fields
<1>10. b.link[1] = "CONNECTED"
  <2>1. DOMAIN t.link = Clients
    BY At
  <2> QED
    BY ONLY <1>2, <1>4, <1>8, <2>1
<1>11. b.conning[1] = FALSE /\ b.up[1] = TRUE /\ b.cnt[1] = 0 /\ b.treconn[1] = FALSE
  <2>1. /\ DOMAIN a.conning = Clients /\ DOMAIN a.up = Clients
        /\ DOMAIN a.cnt = Clients /\ DOMAIN a.treconn = Clients
    BY <1>3, At
  <2> QED
    BY ONLY <1>2, <1>7, <2>1
<1>12. Rmv(b, 1, CONNECT) = b
  <2> PICK r : r = Rmv(b, 1, CONNECT)
    OBVIOUS
  <2>1. RmvShape(b, r, 1, CONNECT)
    BY <1>6, RmvPass
  <2> QED
    BY <1>1, <1>9, <2>1 DEF RmvShape
<1> PICK d : d = Send(b, 1, CONNECT)
  OBVIOUS
<1>13. SndConnect(b, 1) = d
  BY <1>10, <1>12 DEF SndConnect, Accepts
<1>14. SendShape(b, d, 1, CONNECT)
  <2>1. CONNECT \in Packets
    BY PacketType
  <2> QED
    BY ONLY <1>2, <1>6, <2>1, d = Send(b, 1, CONNECT), SendIs
<1>15. /\ d \in MqttRecord
       /\ SameBut(b, d, {"link", "pending", "cmds", "buf", "cur"})
       /\ d.cur = [b.cur EXCEPT ![1] = CONNECT] /\ d.buf = b.buf
       /\ d.cmds = Append(b.cmds, SendCmd(1, CONNECT))
       /\ d.link = b.link /\ d.pending = b.pending
  BY <1>1, <1>9, <1>10, <1>14 DEF SendShape
<1>16. d.cur[1] = CONNECT
  <2>1. DOMAIN b.cur = Clients
    BY ONLY <1>6, At
  <2> QED
    BY ONLY <1>2, <1>15, <2>1
<1>17. CONNECT # NoItem
  BY DEF CONNECT, NoItem, Packet
<1>18. u = d
  BY <1>5, <1>13, <1>16, <1>17 DEF SndNxt
<1>19. /\ d.conning = b.conning /\ d.up = b.up /\ d.cnt = b.cnt
       /\ d.treconn = b.treconn /\ d.dropped = b.dropped /\ d.pending = t.pending
       /\ d.session = t.session /\ d.usertag = t.usertag /\ d.msgs = t.msgs
       /\ d.pubs = t.pubs
  BY ONLY <1>8, <1>15 DEF SameBut, Fields
<1>20. /\ \A S : Some(d.cmds, S) <=> SendCmd(1, CONNECT) \in S
  <2>1. SendCmd(1, CONNECT) \in Commands
    BY <1>2, CommandType, PacketType
  <2>2. \A S : Some(d.cmds, S) <=> Some(b.cmds, S) \/ SendCmd(1, CONNECT) \in S
    BY <1>6, <1>15, <2>1, AppendQueue
  <2> QED
    BY <1>1, <1>9, <2>2, EmptyHas
<1>21. /\ Some(d.cmds, Sends) /\ ~Some(d.cmds, Starts) /\ ~Some(d.cmds, Closes)
       /\ ~Some(d.cmds, Cuts)
  BY <1>20, VerbIs, PacketType DEF Starts, Sends, Closes, Cuts
<1>22. LinkedCore(d, "open")
  BY <1>1, <1>10, <1>11, <1>15, <1>19, <1>21 DEF LinkedCore, Cut
<1>23. Keeps(d, NoItem)
  <2>1. \A n \in Nat : ~Untold1(d.pubs, n)
    BY ONLY <1>1, <1>19
  <2> QED
    BY ONLY <2>1, KeptNone DEF Keeps
<1>24. Sending(d) /\ Noticed(d)
  BY <1>1, <1>19, <1>21 DEF Sending, Noticed
<1> QED
  BY <1>18, <1>22, <1>23, <1>24 DEF Linked

LEMMA ConnectsClient ==
    ASSUME Clients = {1}, TInv, Client, Connects
    PROVE  Linked(m', conn'[1]) \/ Unlinked(m', conn'[1])
<1>1. Idle
  BY DEF Connects
<1>2. m \in MqttRecord /\ 1 \in Clients /\ DOMAIN conn = Clients
  BY <1>1, IdleFacts
<1>3. PICK ok \in BOOLEAN :
        /\ conn[1] = "opening"
        /\ conn' = [conn EXCEPT ![1] = IF ok THEN "open" ELSE "free"]
        /\ m' = StatusInd(m, 1, IF ok THEN "CONNECT OK" ELSE "CONNECT FAIL")
  BY DEF Connects
<1>4. Unlinked(m, "opening")
  BY <1>3 DEF Client, Linked, LinkedCore
<1>5. CASE ok
  BY <1>2, <1>3, <1>4, <1>5, ConnectsOk
<1>6. CASE ~ok
  <2>1. m' = StatusInd(m, 1, "CONNECT FAIL") /\ conn'[1] = "free"
    BY <1>2, <1>3, <1>6
  <2> QED
    BY <1>2, <1>4, <2>1, ConnectFails
<1> QED
  BY <1>5, <1>6

LEMMA AnswerStartClient ==
    ASSUME Clients = {1}, TInv, Client, AnswerStart
    PROVE  Unlinked(m', conn'[1])
<1> PICK t : t = Done
  OBVIOUS
<1>1. Executing("CIPSTART") /\ Idle
  BY DEF AnswerStart, Executing
<1>2. /\ m \in MqttRecord /\ 1 \in Clients /\ DOMAIN conn = Clients
  BY <1>1, IdleFacts
<1>3. /\ t \in MqttRecord /\ SameBut(m, t, {"cmds"})
      /\ Head(m.cmds) \in Starts /\ Head(m.cmds) \in Commands
      /\ Some(m.cmds, Starts)
      /\ Ends(m.cmds, Starts) => t.cmds = <<>>
  BY <1>1, DoneFacts DEF Starts, Verb
<1>4. Head(m.cmds).id = 1
  <2>1. Head(m.cmds).verb = "CIPSTART"
    BY <1>1 DEF Executing
  <2> QED
    BY <1>3, <2>1, CommandIs
<1>5. \/ conn'[1] = "opening" /\ m' = t
      \/ conn' = conn /\ m' = StatusInd(t, 1, "ERROR")
  BY <1>2, <1>4 DEF AnswerStart
<1>6. Unlinked(m, conn[1])
  BY <1>3 DEF Client, Linked, LinkedCore
<1>7. /\ m.link[1] = "CONNECTING" /\ ~m.pending[1] /\ conn[1] = "free"
      /\ t.cmds = <<>>
  <2>1. m.cmds # <<>>
    BY <1>3, EmptyHas
  <2> QED
    BY <1>3, <1>6, <2>1 DEF Unlinked
<1>8. /\ t.link = m.link /\ t.up = m.up /\ t.session = m.session
      /\ t.tping = m.tping /\ t.usertag = m.usertag /\ t.conning = m.conning
      /\ t.cur = m.cur /\ t.tlist = m.tlist /\ t.pubs = m.pubs /\ t.msgs = m.msgs
      /\ t.pending = m.pending /\ t.buf = m.buf
  BY <1>3 DEF SameBut, Fields
<1>9. /\ \A S : ~Some(t.cmds, S)
      /\ Ends(t.cmds, Starts) /\ CutOff(t.cmds, Sends, Cuts)
  BY <1>7, EmptyHas, NoEnds
<1>10. Unlinked(t, "opening")
  BY <1>6, <1>7, <1>8, <1>9 DEF Unlinked, Cut
<1>11. CASE m' = StatusInd(t, 1, "ERROR") /\ conn' = conn
  BY <1>3, <1>7, <1>10, <1>11, ConnectFails
<1> QED
  BY <1>5, <1>10, <1>11

LEMMA NoSends ==
    ASSUME NEW q, NEW S, NEW R, CutOff(q, S, R), ~Some(q, R)
    PROVE  ~Some(q, S)
BY DEF CutOff, Some

LEMMA CutIsPending ==
    ASSUME NEW t \in MqttRecord
    PROVE  Cut(t) <=> Pending(t, SHUT)
<1>1. t.cmds \in Seq(Commands)
  BY CmdsType
<1>2. SHUT \in Cuts
  BY VerbIs DEF Cuts
<1>3. ASSUME NEW k \in 1..Len(t.cmds), t.cmds[k] \in Cuts PROVE t.cmds[k] = SHUT
  <2>1. t.cmds[k] \in Commands /\ t.cmds[k].verb = "CIPSHUT"
    BY <1>3 DEF Cuts, Verb
  <2> QED
    BY <2>1, CommandIs
<1>4. DOMAIN t.cmds = 1..Len(t.cmds)
  BY <1>1, LenProperties
<1> QED
  BY <1>2, <1>3, <1>4 DEF Cut, Some, Pending, ToSet

LEMMA NetworkLostClient ==
    ASSUME Lone, TInv, Client, NetworkLost
    PROVE  Linked(m', conn'[1]) \/ Unlinked(m', conn'[1])
<1>1. /\ Idle /\ m' = Shut(m) /\ conn'[1] = "free"
      /\ m.link[1] = "CONNECTING" => m.pending[1]
  BY DEF NetworkLost, Each, Lone
<1>2. m \in MqttRecord
  BY <1>1, IdleFacts
<1>3. /\ SameBut(m, m', {"cmds", "shuting"})
      /\ m'.cmds = Append(m.cmds, SHUT) /\ m'.shuting = TRUE
  BY <1>1, <1>2, ShutIs
<1>4. SHUT \in Commands /\ SHUT \in Cuts /\ SHUT \notin Starts
      /\ SHUT \notin Closes /\ SHUT \notin Sends
  BY VerbIs, CommandType DEF Cuts, Starts, Closes, Sends
<1>5. /\ \A S : Some(m'.cmds, S) <=> Some(m.cmds, S) \/ SHUT \in S
      /\ ~Some(m.cmds, Starts) => Ends(m'.cmds, Starts)
      /\ CutOff(m'.cmds, Sends, Cuts)
      /\ Closing(m.cmds, Closes, Cuts) => Closing(m'.cmds, Closes, Cuts)
  BY <1>2, <1>3, <1>4, AppendQueue
<1>6. /\ m'.link = m.link /\ m'.up = m.up /\ m'.session = m.session
      /\ m'.tping = m.tping /\ m'.usertag = m.usertag /\ m'.conning = m.conning
      /\ m'.cur = m.cur /\ m'.tlist = m.tlist /\ m'.pubs = m.pubs
      /\ m'.msgs = m.msgs /\ m'.pending = m.pending /\ m'.buf = m.buf
      /\ m'.wants = m.wants /\ m'.treconn = m.treconn /\ m'.dropped = m.dropped
      /\ m'.restart = m.restart
      /\ m'.ip = m.ip /\ m'.cnt = m.cnt /\ m'.tdisc = m.tdisc
  BY <1>3 DEF SameBut, Fields
<1>7. CASE Linked(m, conn[1])
  <2>1. LinkedCore(m', "free")
    BY <1>3, <1>4, <1>5, <1>6, <1>7 DEF Linked, LinkedCore, Cut
  <2>2. Cut(m') /\ Sending(m')
    BY <1>4, <1>5, <1>6, <1>7 DEF Cut, Sending, Linked
  <2> QED
    BY <1>1, <2>1, <2>2 DEF Linked, Noticed
<1>8. CASE Unlinked(m, conn[1])
  <2>1. ~Some(m.cmds, Starts)
    BY <1>1, <1>8 DEF Unlinked
  <2>2. Unlinked(m', "free")
    BY <1>1, <1>3, <1>4, <1>5, <1>6, <1>8, <2>1 DEF Unlinked
  <2> QED
    BY <1>1, <2>2
<1> QED
  BY <1>7, <1>8 DEF Client

LEMMA NetworkReadyClient ==
    ASSUME Lone, TInv, Client, NetworkReady
    PROVE  Linked(m', conn'[1]) \/ Unlinked(m', conn'[1])
<1>1. /\ Idle /\ ~Pending(m, SHUT) /\ m' = ConnPend(m) /\ conn' = conn
      /\ Clients = {1}
  BY DEF NetworkReady, Lone
<1>2. m \in MqttRecord /\ Sound(m) /\ 1 \in Clients
  BY <1>1, IdleFacts
<1>3. ~Cut(m)
  BY <1>1, <1>2, CutIsPending
<1> PICK v : v = [m EXCEPT !.ip = TRUE]
  OBVIOUS
<1>4. v \in MqttRecord
  BY ONLY <1>2, v = [m EXCEPT !.ip = TRUE] DEF MqttRecord
<1>5. SameBut(m, v, {"ip"})
  BY ONLY <1>2, v = [m EXCEPT !.ip = TRUE], RecordFields DEF SameBut, Fields
<1>6. Sound(v)
  <2>1. {"ip"} \intersect Five = {}
    BY DEF Five
  <2> QED
    BY ONLY <1>2, <1>4, <1>5, <2>1, SoundSame
<1>7. m' = ConnPendOne(v, 1)
  BY <1>1 DEF ConnPend, InTurn
<1>8. /\ v.link = m.link /\ v.up = m.up /\ v.session = m.session
      /\ v.tping = m.tping /\ v.usertag = m.usertag /\ v.conning = m.conning
      /\ v.cur = m.cur /\ v.tlist = m.tlist /\ v.pubs = m.pubs
      /\ v.msgs = m.msgs /\ v.pending = m.pending /\ v.buf = m.buf
      /\ v.wants = m.wants /\ v.treconn = m.treconn /\ v.dropped = m.dropped
      /\ v.restart = m.restart
      /\ v.cnt = m.cnt /\ v.tdisc = m.tdisc /\ v.cmds = m.cmds
      /\ v.shuting = m.shuting
  BY <1>5 DEF SameBut, Fields
<1>9. CASE ~m.pending[1]
  <2>1. m' = v
    BY <1>7, <1>8, <1>9 DEF ConnPendOne
  <2>2. CASE Linked(m, conn[1])
    <3>1. LinkedCore(v, conn[1]) /\ Sending(v) /\ Noticed(v)
      BY <1>3, <1>8, <2>2 DEF Linked, LinkedCore, Cut, Sending, Noticed
    <3>2. Keeps(v, NoItem)
      BY <1>3, <1>8, <2>2 DEF Linked, Keeps
    <3> QED
      BY <1>1, <2>1, <3>1, <3>2 DEF Linked
  <2>3. CASE Unlinked(m, conn[1])
    <3>1. Unlinked(v, conn[1])
      BY <1>3, <1>8, <2>3 DEF Unlinked, Cut
    <3> QED
      BY <1>1, <2>1, <3>1
  <2> QED
    BY <2>2, <2>3 DEF Client
<1>10. CASE m.pending[1]
  <2> PICK u : u = m'
    OBVIOUS
  <2>0. v.pending[1] /\ u = ConnPendOne(v, 1)
    BY ONLY <1>7, <1>8, <1>10, u = m'
  <2>1. Unlinked(m, conn[1])
    BY <1>10 DEF Client, Linked, LinkedCore
  <2>2. /\ m.link[1] = "CONNECTING" /\ conn[1] = "free" /\ ~Some(m.cmds, Starts)
        /\ CutOff(m.cmds, Sends, Cuts)
    BY <1>10, <2>1 DEF Unlinked
  <2>3. ~Some(m.cmds, Sends)
    BY <1>3, <2>2, NoSends DEF Cut
  <2>4. PICK w : /\ w \in MqttRecord /\ SameBut(v, w, {"pending"})
                 /\ w.pending = [v.pending EXCEPT ![1] = FALSE]
                 /\ SameBut(w, u, {"cmds"})
                 /\ u.cmds = Append(w.cmds, Cmd("CIPSTART", 1))
    BY ONLY <1>2, <1>6, <2>0, PendOneSound
  <2>5. w.pending[1] = FALSE
    <3>1. DOMAIN v.pending = Clients
      BY <1>4, At
    <3> QED
      BY ONLY <1>2, <2>4, <3>1
  <2>6. Cmd("CIPSTART", 1) \in Commands
    BY <1>2, CommandType
  <2>7. /\ Cmd("CIPSTART", 1) \in Starts /\ Cmd("CIPSTART", 1) \notin Sends
        /\ Cmd("CIPSTART", 1) \notin Cuts
    BY VerbIs DEF Starts, Sends, Cuts
  <2>8. u.cmds = Append(v.cmds, Cmd("CIPSTART", 1))
    BY <2>4 DEF SameBut, Fields
  <2>9. /\ \A S : Some(u.cmds, S) <=> Some(m.cmds, S) \/ Cmd("CIPSTART", 1) \in S
        /\ Ends(u.cmds, Starts) /\ CutOff(u.cmds, Sends, Cuts)
    <3>1. u.cmds = Append(v.cmds, Cmd("CIPSTART", 1))
      BY <2>8
    <3>2. /\ ~Some(v.cmds, Starts) /\ CutOff(v.cmds, Sends, Cuts)
          /\ v.cmds = m.cmds
      BY <1>8, <2>2
    <3> QED
      BY ONLY <1>4, <2>6, <2>7, <3>1, <3>2, AppendQueue
  <2>10. /\ u.link = v.link /\ u.up = v.up /\ u.session = v.session
         /\ u.tping = v.tping /\ u.usertag = v.usertag
         /\ u.conning = v.conning /\ u.cur = v.cur /\ u.tlist = v.tlist
         /\ u.pubs = v.pubs /\ u.msgs = v.msgs /\ u.pending = w.pending
         /\ u.buf = v.buf /\ u.wants = v.wants /\ u.treconn = v.treconn
         /\ u.dropped = v.dropped
         /\ u.restart = v.restart
    BY <2>4 DEF SameBut, Fields
  <2>11. ~Cut(u) /\ ~Some(u.cmds, Sends) /\ Some(u.cmds, Starts)
    BY <1>3, <2>3, <2>7, <2>9 DEF Cut
  <2>12. Unlinked(u, "free")
    BY ONLY <1>8, <2>1, <2>2, <2>5, <2>9, <2>10, <2>11 DEF Unlinked
  <2> QED
    BY <1>1, <2>2, <2>12
<1> QED
  BY <1>9, <1>10

LEMMA ReconnTimerClient ==
    ASSUME Lone, TInv, Client, ReconnTimer
    PROVE  Unlinked(m', conn'[1])
<1>1. /\ Idle /\ conn' = conn /\ Clients = {1} /\ m.treconn[1]
      /\ m' = Reconn([m EXCEPT !.treconn[1] = FALSE], 1)
  BY DEF ReconnTimer, Lone
<1>2. m \in MqttRecord /\ 1 \in Clients /\ Fresh(m, 1)
  BY <1>1, IdleFacts
<1>3. Unlinked(m, conn[1])
  BY <1>1 DEF Client, Linked, LinkedCore
<1> PICK v : v = [m EXCEPT !.treconn[1] = FALSE]
  OBVIOUS
<1>4. v \in MqttRecord
  BY ONLY <1>2, v = [m EXCEPT !.treconn[1] = FALSE] DEF MqttRecord, Flags
<1>5. SameBut(m, v, {"treconn"})
  BY ONLY <1>2, v = [m EXCEPT !.treconn[1] = FALSE], RecordFields DEF SameBut, Fields
<1>6. /\ v.link = m.link /\ v.up = m.up /\ v.session = m.session
      /\ v.tping = m.tping /\ v.usertag = m.usertag /\ v.conning = m.conning
      /\ v.cur = m.cur /\ v.tlist = m.tlist /\ v.pubs = m.pubs
      /\ v.msgs = m.msgs /\ v.pending = m.pending /\ v.buf = m.buf
      /\ v.wants = m.wants /\ v.restart = m.restart /\ v.cyc = m.cyc
      /\ v.cmds = m.cmds /\ v.shuting = m.shuting /\ v.ip = m.ip
  BY <1>5 DEF SameBut, Fields
<1>7. m' = Reconn(v, 1)
  BY <1>1
<1>8. CASE m.link[1] = "CONNECTING"
  <2>1. v.conning[1]
    BY <1>3, <1>6, <1>8 DEF Unlinked
  <2>2. m' = v
    BY <1>7, <2>1 DEF Reconn
  <2>3. Unlinked(v, conn[1])
    BY <1>3, <1>6, <1>8 DEF Unlinked, Cut
  <2> QED
    BY <1>1, <2>2, <2>3
<1>9. CASE m.link[1] = "CLOSED"
  <2>1. Gone(v) /\ Idles(v) /\ conn[1] = "free"
    BY <1>3, <1>6, <1>9 DEF Unlinked, Gone, Idles, Cut
  <2>2. Fresh(v, 1)
    BY <1>2, <1>6 DEF Fresh
  <2> QED
    BY <1>1, <1>4, <1>7, <2>1, <2>2, ReconnGone
<1>10. m.link[1] \in {"CONNECTING", "CLOSED"}
  BY <1>1, <1>3 DEF Unlinked
<1> QED
  BY <1>8, <1>9, <1>10

----------------------------------------------------------------------------
(* What a connected client does                                            *)

LEMMA CareSame ==
    ASSUME NEW t, NEW u, NEW F, SameBut(t, u, F),
           F \intersect {"cur", "cmds", "session", "tping", "tdisc", "link", "buf"} = {}
    PROVE  /\ Sending(t) => Sending(u)
           /\ Noticed(t) => Noticed(u)
           /\ Cut(t) <=> Cut(u)
<1>1. /\ u.cur = t.cur /\ u.cmds = t.cmds /\ u.session = t.session
      /\ u.tping = t.tping /\ u.tdisc = t.tdisc /\ u.link = t.link
      /\ u.buf = t.buf
  BY DEF SameBut, Fields
<1> QED
  BY <1>1 DEF Sending, Noticed, Cut

LEMMA CoreMessages ==
    ASSUME NEW t, NEW u, NEW F, SameBut(t, u, F),
           F \intersect (CoreFields \ {"msgs"}) = {}, ~Some(u.msgs, Asks),
           NEW c, LinkedCore(t, c)
    PROVE  LinkedCore(u, c)
<1>1. /\ u.link = t.link /\ u.up = t.up /\ u.conning = t.conning
      /\ u.pending = t.pending /\ u.treconn = t.treconn /\ u.cnt = t.cnt
      /\ u.usertag = t.usertag /\ u.wants = t.wants
      /\ u.cmds = t.cmds /\ u.ip = t.ip /\ u.shuting = t.shuting
  BY DEF SameBut, Fields, CoreFields
<1> QED
  BY <1>1 DEF LinkedCore, Cut

LEMMA SendKeeps ==
    ASSUME NEW t \in MqttRecord, NEW c, LinkedCore(t, c), Sending(t),
           NEW p \in Packets, Cut(t) \/ Keeps(t, p),
           t.link[1] = "CONNECTED", NEW u, u = Send(t, 1, p)
    PROVE  /\ u \in MqttRecord /\ LinkedCore(u, c) /\ Sending(u)
           /\ Cut(u) \/ Keeps(u, NoItem)
           /\ Noticed(t) \/ p = DISCONNECT => Noticed(u)
<1>1. 1 \in Clients
  BY CmdsType
<1>2. SendShape(t, u, 1, p)
  BY <1>1, SendIs
<1>3. Keeps(t, p) => Keeps(u, NoItem)
  BY <1>1, SendPass DEF Accepts
<1>4. u \in MqttRecord /\ SameBut(t, u, {"link", "pending", "cmds", "buf", "cur"})
  BY <1>2 DEF SendShape
<1>5. CASE t.cur[1] = NoItem
  <2>1. /\ u.cur = [t.cur EXCEPT ![1] = p] /\ u.buf = t.buf
        /\ u.cmds = Append(t.cmds, SendCmd(1, p))
        /\ u.link = t.link /\ u.pending = t.pending
    BY <1>2, <1>5 DEF SendShape
  <2>2. SendCmd(1, p) \in Commands
    BY <1>1, CommandType
  <2>3. /\ SendCmd(1, p) \in Sends /\ SendCmd(1, p) \notin Starts
        /\ SendCmd(1, p) \notin Closes /\ SendCmd(1, p) \notin Cuts
    BY VerbIs DEF Sends, Starts, Closes, Cuts
  <2>4. \A S : Some(u.cmds, S) <=> Some(t.cmds, S) \/ SendCmd(1, p) \in S
    BY <2>1, <2>2, AppendQueue
  <2>5. u.cur[1] = p
    <3>1. DOMAIN t.cur = Clients
      BY At
    <3> QED
      BY ONLY <1>1, <2>1, <3>1
  <2>6. /\ u.up = t.up /\ u.conning = t.conning
        /\ u.treconn = t.treconn /\ u.cnt = t.cnt
        /\ u.usertag = t.usertag /\ u.wants = t.wants /\ u.msgs = t.msgs
        /\ u.ip = t.ip /\ u.shuting = t.shuting /\ u.session = t.session
        /\ u.tping = t.tping /\ u.tdisc = t.tdisc
    BY <1>4 DEF SameBut, Fields
  <2>7. LinkedCore(u, c)
    BY <2>1, <2>3, <2>4, <2>6 DEF LinkedCore, Cut
  <2>8. Sending(u) /\ (Cut(t) <=> Cut(u))
    BY <2>3, <2>4 DEF Sending, Cut
  <2>9. Noticed(t) \/ p = DISCONNECT => Noticed(u)
    <3>1. NoItem # DISCONNECT
      BY DEF NoItem, DISCONNECT, Packet
    <3> QED
      BY <1>5, <2>1, <2>5, <2>6, <2>8, <3>1 DEF Noticed
  <2> QED
    BY <1>3, <1>4, <2>7, <2>8, <2>9
<1>6. CASE t.cur[1] # NoItem
  <2>1. /\ u.buf = [t.buf EXCEPT ![1] = Append(@, p)] /\ u.cur = t.cur
        /\ u.link = t.link /\ u.pending = t.pending /\ u.cmds = t.cmds
    BY <1>2, <1>6 DEF SendShape
  <2>2. u.buf[1] = Append(t.buf[1], p)
    <3>1. DOMAIN t.buf = Clients
      BY At
    <3> QED
      BY ONLY <1>1, <2>1, <3>1
  <2>3. \A S : Some(u.buf[1], S) <=> Some(t.buf[1], S) \/ p \in S
    <3>1. t.buf[1] \in Seq(Packets)
      BY CmdsType
    <3> QED
      BY ONLY <2>2, <3>1, p \in Packets, AppendHas
  <2>4. SameBut(t, u, {"buf"})
    BY <1>4, <2>1 DEF SameBut, Fields
  <2>5. LinkedCore(u, c)
    <3>1. {"buf"} \intersect CoreFields = {}
      BY DEF CoreFields
    <3> QED
      BY ONLY LinkedCore(t, c), <2>4, <3>1, CoreSame
  <2>6. Sending(u) /\ (Cut(t) <=> Cut(u))
    BY <2>1 DEF Sending, Cut
  <2>7. u.session = t.session /\ u.tping = t.tping /\ u.tdisc = t.tdisc
    BY <2>4 DEF SameBut, Fields
  <2>8. Noticed(t) \/ p = DISCONNECT => Noticed(u)
    BY <2>1, <2>3, <2>6, <2>7 DEF Noticed
  <2> QED
    BY <1>3, <1>4, <2>5, <2>6, <2>8
<1> QED
  BY <1>5, <1>6

LEMMA LinkedSend ==
    ASSUME NEW t \in MqttRecord, NEW c, LinkedCore(t, c), Sending(t),
           NEW p \in Packets, Cut(t) \/ Keeps(t, p), Noticed(t) \/ p = DISCONNECT,
           t.link[1] = "CONNECTED", NEW u, u = Send(t, 1, p)
    PROVE  Linked(u, c)
BY SendKeeps DEF Linked

LEMMA SendRefused ==
    ASSUME NEW t \in MqttRecord, t.link[1] = "DISCONNECTING", NEW p \in Packets
    PROVE  Send(t, 1, p) = t
BY DEF Send, CanConnect

LEMMA LinkedDisc ==
    ASSUME NEW t \in MqttRecord, NEW c, LinkedCore(t, c), NEW user \in BOOLEAN,
           user => ~t.wants[1], NEW u, u = DiscCb(t, 1, user)
    PROVE  /\ u \in MqttRecord /\ LinkedCore(u, c) /\ u.link[1] = "DISCONNECTING"
           /\ u.msgs = t.msgs /\ \A S : Some(t.cmds, S) => Some(u.cmds, S)
           /\ SameBut(t, u, {"usertag", "discing", "link", "pending", "msgs", "cmds"})
<1>1. 1 \in Clients
  BY CmdsType
<1>2. DiscShape(t, u, 1, user) /\ u \in MqttRecord
  BY <1>1, DiscCbIs
<1>3. SameBut(t, u, {"usertag", "discing", "link", "pending", "msgs", "cmds"})
  BY <1>2, DiscCbSame
<1>4. PICK v : /\ v \in MqttRecord /\ DisconnectShape(v, u, 1)
               /\ SameBut(t, v, {"usertag", "discing"})
               /\ v.usertag = [t.usertag EXCEPT ![1] = user]
  BY <1>2 DEF DiscShape
<1>5. v.usertag[1] = user
  <2>1. DOMAIN t.usertag = Clients
    BY At
  <2> QED
    BY ONLY <1>1, <1>4, <2>1
<1>6. /\ v.link = t.link /\ v.msgs = t.msgs /\ v.cmds = t.cmds
      /\ v.pending = t.pending
  BY <1>4 DEF SameBut, Fields
<1>7. /\ u.up = t.up /\ u.conning = t.conning
      /\ u.treconn = t.treconn /\ u.cnt = t.cnt /\ u.wants = t.wants
      /\ u.ip = t.ip /\ u.shuting = t.shuting
  BY <1>3 DEF SameBut, Fields
<1>8. u.usertag = v.usertag
  BY <1>4 DEF DisconnectShape, SameBut, Fields
<1>9. CASE t.link[1] = "DISCONNECTING"
  <2>1. u = v
    BY <1>4, <1>6, <1>9 DEF DisconnectShape
  <2>2. LinkedCore(u, c)
    BY <1>5, <1>6, <1>7, <1>9, <2>1 DEF LinkedCore, Cut
  <2> QED
    BY <1>2, <1>3, <1>6, <1>9, <2>1, <2>2
<1>10. CASE t.link[1] = "CONNECTED"
  <2>1. /\ u.link = [v.link EXCEPT ![1] = "DISCONNECTING"]
        /\ u.pending = [v.pending EXCEPT ![1] = FALSE]
        /\ u.msgs = v.msgs /\ u.cmds = Append(v.cmds, Cmd("CIPCLOSE", 1))
    BY <1>4, <1>6, <1>10 DEF DisconnectShape
  <2>2. u.link[1] = "DISCONNECTING" /\ u.pending[1] = FALSE
    <3>1. DOMAIN v.link = Clients /\ DOMAIN v.pending = Clients
      BY <1>4, At
    <3> QED
      BY ONLY <1>1, <2>1, <3>1
  <2>3. Cmd("CIPCLOSE", 1) \in Commands
    BY <1>1, CommandType
  <2>4. /\ Cmd("CIPCLOSE", 1) \in Closes /\ Cmd("CIPCLOSE", 1) \notin Starts
        /\ Cmd("CIPCLOSE", 1) \notin Cuts
    BY VerbIs DEF Closes, Starts, Cuts
  <2>5. ~Some(v.cmds, Closes)
    BY <1>6, <1>10 DEF LinkedCore
  <2>6. /\ \A S : Some(u.cmds, S) <=> Some(v.cmds, S) \/ Cmd("CIPCLOSE", 1) \in S
        /\ Closing(u.cmds, Closes, Cuts)
    BY ONLY <1>4, <2>1, <2>3, <2>4, <2>5, AppendQueue
  <2>7. LinkedCore(u, c)
    BY ONLY LinkedCore(t, c), user => ~t.wants[1], <1>5, <1>6, <1>7, <1>8, <2>1,
       <2>2, <2>4, <2>6 DEF LinkedCore, Cut
  <2> QED
    BY <1>2, <1>3, <1>6, <2>1, <2>2, <2>6, <2>7
<1> QED
  BY <1>9, <1>10 DEF LinkedCore

LEMMA RunFacts ==
    ASSUME TInv, ~m.restart
    PROVE  /\ Sound(m) /\ m \in MqttRecord /\ Carries(m, NoItem)
           /\ Fresh(m, 1) /\ 1 \in Clients
<1>1. 1 \in Clients /\ Sound(m) /\ m \in MqttRecord
  BY MqttAssumption DEF TInv, Sound
<1> QED
  BY <1>1 DEF TInv, CycOK, Fresh, Sound

LEMMA KeepsPlain ==
    ASSUME NEW t, NEW p, \A n \in Nat : p \notin Of(n)
    PROVE  Keeps(t, NoItem) <=> Keeps(t, p)
<1>1. \A n \in Nat : NoItem \notin Of(n)
  BY NotOf
<1> QED
  BY <1>1, PassPlain DEF Passes

(* What is not about the connection of a client that is connected *)
LEMMA LinkedSame ==
    ASSUME NEW t, NEW u, NEW c, Linked(t, c), NEW F, SameBut(t, u, F),
           F \intersect (CoreFields \union Five \union {"session", "tping", "tdisc"}) = {}
    PROVE  Linked(u, c)
<1>1. F \intersect CoreFields = {} /\ F \intersect Five = {}
  OBVIOUS
<1>2. F \intersect {"cur", "cmds", "session", "tping", "tdisc", "link", "buf"} = {}
  BY DEF CoreFields, Five
<1>3. LinkedCore(u, c)
  BY <1>1, CoreSame DEF Linked
<1>4. Sending(u) /\ Noticed(u) /\ (Cut(t) <=> Cut(u))
  BY <1>2, CareSame DEF Linked
<1>5. Keeps(t, NoItem) => Keeps(u, NoItem)
  BY <1>1, PassSame DEF Passes
<1> QED
  BY <1>3, <1>4, <1>5 DEF Linked

LEMMA ConnectUnlinked ==
    ASSUME NEW t \in MqttRecord, NEW v \in MqttRecord, NEW c, Unlinked(t, c),
           SameBut(t, v, {"errcb", "wants"}), NEW u, u = Connect(v, 1)
    PROVE  Unlinked(u, c)
<1>1. 1 \in Clients
  BY CmdsType
<1>2. ConnectShape(v, u, 1)
  BY <1>1, ConnectIs
<1>3. PICK z : /\ SocketShape(v, z, 1) /\ u \in MqttRecord
               /\ SameBut(z, u, {"conning", "dropped"})
               /\ u.conning = [v.conning EXCEPT ![1] = TRUE]
  BY <1>2 DEF ConnectShape
<1>4. u.conning[1] = TRUE
  <2>1. DOMAIN v.conning = Clients
    BY At
  <2> QED
    BY ONLY <1>1, <1>3, <2>1
<1>5. SameBut(v, z, {"link", "pending", "cmds", "buf", "cur", "usertag"})
  BY <1>3 DEF SocketShape
<1>6. /\ v.link = t.link /\ v.pending = t.pending /\ v.cmds = t.cmds
      /\ v.buf = t.buf /\ v.cur = t.cur /\ v.usertag = t.usertag
      /\ v.ip = t.ip /\ v.shuting = t.shuting
  BY ONLY SameBut(t, v, {"errcb", "wants"}) DEF SameBut, Fields
<1>7. /\ u.up = t.up /\ u.session = t.session /\ u.tping = t.tping
      /\ u.tlist = t.tlist /\ u.pubs = t.pubs /\ u.msgs = t.msgs
      /\ u.ip = t.ip /\ u.shuting = t.shuting
      /\ u.link = z.link /\ u.pending = z.pending /\ u.cmds = z.cmds
      /\ u.buf = z.buf /\ u.cur = z.cur /\ u.usertag = z.usertag
  BY ONLY SameBut(t, v, {"errcb", "wants"}), <1>3, <1>5 DEF SameBut, Fields
<1>8. CASE t.link[1] = "CONNECTING"
  <2>1. z = v
    BY <1>3, <1>6, <1>8 DEF SocketShape, Closed
  <2> QED
    BY <1>4, <1>6, <1>7, <1>8, <2>1 DEF Unlinked, Cut
<1>9. CASE t.link[1] \in Closed
  <2>1. /\ z.link = [v.link EXCEPT ![1] = "CONNECTING"]
        /\ z.buf = [v.buf EXCEPT ![1] = <<>>]
        /\ z.cur = [v.cur EXCEPT ![1] = NoItem]
        /\ z.usertag = [v.usertag EXCEPT ![1] = FALSE]
    BY <1>3, <1>6, <1>9 DEF SocketShape
  <2>2. /\ z.link[1] = "CONNECTING" /\ z.buf[1] = <<>> /\ z.cur[1] = NoItem
        /\ z.usertag[1] = FALSE
    <3>1. /\ DOMAIN v.link = Clients /\ DOMAIN v.buf = Clients
          /\ DOMAIN v.cur = Clients /\ DOMAIN v.usertag = Clients
      BY At
    <3> QED
      BY ONLY <1>1, <2>1, <3>1
  <2>3. /\ c = "free" /\ ~t.pending[1] /\ ~Some(t.cmds, Starts)
        /\ CutOff(t.cmds, Sends, Cuts) /\ Ends(t.cmds, Starts)
    BY <1>9 DEF Unlinked, Closed
  <2>4. CASE t.ip /\ ~t.shuting
    <3>1. z.pending = v.pending /\ z.cmds = Append(v.cmds, Cmd("CIPSTART", 1))
      BY <1>3, <1>6, <1>9, <2>4 DEF SocketShape
    <3>2. ~Cut(t)
      BY <2>4 DEF Unlinked
    <3>3. ~Some(t.cmds, Sends)
      BY <2>3, <3>2, NoSends DEF Cut
    <3>4. Cmd("CIPSTART", 1) \in Commands
      BY <1>1, CommandType
    <3>5. /\ Cmd("CIPSTART", 1) \in Starts /\ Cmd("CIPSTART", 1) \notin Sends
          /\ Cmd("CIPSTART", 1) \notin Cuts
      BY VerbIs DEF Starts, Sends, Cuts
    <3>6. u.cmds = Append(t.cmds, Cmd("CIPSTART", 1))
      BY <1>6, <1>7, <3>1
    <3>7. /\ \A S : Some(u.cmds, S) <=> Some(t.cmds, S) \/ Cmd("CIPSTART", 1) \in S
          /\ Ends(u.cmds, Starts) /\ CutOff(u.cmds, Sends, Cuts)
      BY ONLY t \in MqttRecord, <2>3, <3>4, <3>5, <3>6, AppendQueue
    <3>8. ~Cut(u) /\ ~Some(u.cmds, Sends) /\ Some(u.cmds, Starts)
      BY <3>2, <3>3, <3>5, <3>7 DEF Cut
    <3> QED
      BY ONLY Unlinked(t, c), <1>4, <1>6, <1>7, <2>2, <2>3, <3>1, <3>7, <3>8 DEF Unlinked
  <2>5. CASE ~(t.ip /\ ~t.shuting)
    <3>1. z.pending = [v.pending EXCEPT ![1] = TRUE] /\ z.cmds = v.cmds
      BY <1>3, <1>6, <1>9, <2>5 DEF SocketShape
    <3>2. z.pending[1] = TRUE
      <4>1. DOMAIN v.pending = Clients
        BY At
      <4> QED
        BY ONLY <1>1, <3>1, <4>1
    <3> QED
      BY ONLY Unlinked(t, c), <1>4, <1>6, <1>7, <2>2, <2>3, <3>1, <3>2 DEF Unlinked, Cut
  <2> QED
    BY <2>4, <2>5
<1> QED
  BY <1>8, <1>9 DEF Unlinked, Closed

LEMMA ProgramConnectsClient ==
    ASSUME Lone, TInv, Client, ProgramConnects
    PROVE  Linked(m', conn'[1]) \/ Unlinked(m', conn'[1])
<1>1. Clients = {1} /\ Cases = {} /\ ~m.restart /\ conn' = conn
  BY DEF ProgramConnects, Lone
<1>2. m \in MqttRecord /\ 1 \in Clients
  BY <1>1, RunFacts
<1>3. PICK e \in BOOLEAN :
        /\ m.link[1] # "DISCONNECTING"
        /\ LET t == [m EXCEPT !.errcb[1] = e, !.wants[1] = TRUE]
           IN  m' = CASE m.session[1] -> t
                      [] ~m.session[1] /\ ~m.up[1] -> Connect(t, 1)
                      [] ~m.session[1] /\ m.up[1] -> SndConnect(t, 1)
  BY <1>1 DEF ProgramConnects
<1> PICK t : t = [m EXCEPT !.errcb[1] = e, !.wants[1] = TRUE]
  OBVIOUS
<1>4. t \in MqttRecord
  BY ONLY <1>2, t = [m EXCEPT !.errcb[1] = e, !.wants[1] = TRUE], e \in BOOLEAN
     DEF MqttRecord, Flags
<1>5. SameBut(m, t, {"errcb", "wants"})
  BY ONLY <1>2, t = [m EXCEPT !.errcb[1] = e, !.wants[1] = TRUE], RecordFields
     DEF SameBut, Fields
<1>6. /\ m.session[1] => m' = t
      /\ ~m.session[1] /\ ~m.up[1] => m' = Connect(t, 1)
      /\ ~m.session[1] /\ m.up[1] => m' = SndConnect(t, 1)
  BY ONLY <1>3, t = [m EXCEPT !.errcb[1] = e, !.wants[1] = TRUE]
<1>7. CASE Unlinked(m, conn[1])
  <2>1. m' = Connect(t, 1)
    BY <1>6, <1>7 DEF Unlinked
  <2> QED
    BY <1>1, <1>2, <1>4, <1>5, <1>7, <2>1, ConnectUnlinked
<1>8. CASE Linked(m, conn[1])
  <2>1. /\ m.link[1] = "CONNECTED" /\ m.up[1] /\ ~m.usertag[1]
    BY <1>3, <1>8 DEF Linked, LinkedCore
  <2>2. t.link = m.link /\ t.usertag = m.usertag
    BY <1>5 DEF SameBut, Fields
  <2>3. LinkedCore(t, conn[1])
    <3>1. /\ t.up = m.up /\ t.conning = m.conning /\ t.pending = m.pending
          /\ t.treconn = m.treconn /\ t.dropped = m.dropped /\ t.cnt = m.cnt
          /\ t.msgs = m.msgs
          /\ t.cmds = m.cmds /\ t.ip = m.ip /\ t.shuting = m.shuting
      BY <1>5 DEF SameBut, Fields
    <3> QED
      BY <1>8, <2>1, <2>2, <3>1 DEF Linked, LinkedCore, Cut
  <2>4. Sending(t) /\ Noticed(t) /\ (Cut(m) <=> Cut(t))
    <3>1. {"errcb", "wants"} \intersect
            {"cur", "cmds", "session", "tping", "tdisc", "link", "buf"} = {}
      OBVIOUS
    <3> QED
      BY <1>5, <1>8, <3>1, CareSame DEF Linked
  <2>5. Cut(t) \/ Keeps(t, NoItem)
    <3>1. {"errcb", "wants"} \intersect Five = {}
      BY DEF Five
    <3>2. Keeps(m, NoItem) => Keeps(t, NoItem)
      BY <1>5, <3>1, PassSame DEF Passes
    <3> QED
      BY <1>8, <2>4, <3>2 DEF Linked
  <2>6. CASE m.session[1]
    BY <1>1, <1>6, <2>3, <2>4, <2>5, <2>6 DEF Linked
  <2>7. CASE ~m.session[1]
    <3> PICK r : r = Rmv(t, 1, CONNECT)
      OBVIOUS
    <3>1. RmvShape(t, r, 1, CONNECT) /\ Passes(t, r, NoItem, NoItem)
      BY ONLY <1>4, r = Rmv(t, 1, CONNECT), RmvConnectIs
    <3>2. r \in MqttRecord /\ SameBut(t, r, {"tlist"})
      BY <3>1 DEF RmvShape
    <3>3. LinkedCore(r, conn[1])
      <4>1. {"tlist"} \intersect CoreFields = {}
        BY DEF CoreFields
      <4> QED
        BY ONLY <2>3, <3>2, <4>1, CoreSame
    <3>4. Sending(r) /\ Noticed(r) /\ (Cut(t) <=> Cut(r))
      <4>1. {"tlist"} \intersect
              {"cur", "cmds", "session", "tping", "tdisc", "link", "buf"} = {}
        OBVIOUS
      <4> QED
        BY ONLY <2>4, <3>2, <4>1, CareSame
    <3>5. CONNECT \in Packets /\ \A n \in Nat : CONNECT \notin Of(n)
      BY PacketType, NotOf
    <3>6. Cut(r) \/ Keeps(r, CONNECT)
      BY <2>5, <3>1, <3>4, <3>5, KeepsPlain DEF Passes
    <3>7. r.link[1] = "CONNECTED"
      BY <2>1, <2>2, <3>2 DEF SameBut, Fields
    <3>8. m' = Send(r, 1, CONNECT)
      BY <1>6, <2>1, <2>7, <3>7 DEF SndConnect, Accepts
    <3> QED
      BY <1>1, <3>2, <3>3, <3>4, <3>5, <3>6, <3>7, <3>8, LinkedSend
  <2> QED
    BY <2>6, <2>7
<1> QED
  BY <1>7, <1>8 DEF Client

(* What changes only what is to be told, or is being told *)
LEMMA LinkedData ==
    ASSUME NEW t, NEW u, SameBut(t, u, {"tlist", "msgs", "pubs"}),
           ~Some(u.msgs, Asks), NEW c, LinkedCore(t, c), Sending(t), Noticed(t),
           Cut(t) \/ Keeps(u, NoItem)
    PROVE  Linked(u, c)
<1>1. {"tlist", "msgs", "pubs"} \intersect (CoreFields \ {"msgs"}) = {}
  BY DEF CoreFields
<1>2. LinkedCore(u, c)
  BY <1>1, CoreMessages
<1>3. {"tlist", "msgs", "pubs"} \intersect
        {"cur", "cmds", "session", "tping", "tdisc", "link", "buf"} = {}
  OBVIOUS
<1>4. Sending(u) /\ Noticed(u) /\ (Cut(t) <=> Cut(u))
  BY <1>3, CareSame
<1> QED
  BY <1>2, <1>4 DEF Linked

LEMMA UnlinkedData ==
    ASSUME NEW t, NEW u, SameBut(t, u, {"msgs", "pubs", "tdisc", "restart"}),
           \A n \in Nat : ~Untold1(u.pubs, n), ~Some(u.msgs, Asks),
           ~Some(u.msgs, Repeats), t.restart => u.restart, NEW c, Unlinked(t, c)
    PROVE  Unlinked(u, c)
<1>1. /\ u.link = t.link /\ u.up = t.up /\ u.session = t.session
      /\ u.tping = t.tping /\ u.usertag = t.usertag /\ u.conning = t.conning
      /\ u.cur = t.cur /\ u.tlist = t.tlist
      /\ u.pending = t.pending /\ u.buf = t.buf /\ u.wants = t.wants
      /\ u.treconn = t.treconn /\ u.dropped = t.dropped /\ u.ip = t.ip
      /\ u.shuting = t.shuting /\ u.cmds = t.cmds
  BY DEF SameBut, Fields
<1> QED
  BY <1>1 DEF Unlinked, Cut

LEMMA Wider ==
    ASSUME NEW t, NEW u, NEW F, SameBut(t, u, F), NEW G, F \subseteq G
    PROVE  SameBut(t, u, G)
BY DEF SameBut

LEMMA ClientRuns ==
    ASSUME NEW c, Linked(m, c)
    PROVE  /\ m.link[1] \in {"CONNECTED", "DISCONNECTING"} /\ m.up[1]
           /\ LinkedCore(m, c) /\ Sending(m) /\ Noticed(m)
           /\ Cut(m) \/ Keeps(m, NoItem)
BY DEF Linked, LinkedCore

LEMMA LinkedDisconnects ==
    ASSUME NEW t \in MqttRecord, NEW c, LinkedCore(t, c), Sending(t),
           Cut(t) \/ Keeps(t, NoItem), NEW user \in BOOLEAN,
           user => ~t.wants[1], NEW u, u = DiscCb(t, 1, user)
    PROVE  Linked(u, c)
<1>1. /\ LinkedCore(u, c) /\ u.link[1] = "DISCONNECTING"
      /\ u.msgs = t.msgs /\ \A S : Some(t.cmds, S) => Some(u.cmds, S)
      /\ SameBut(t, u, {"usertag", "discing", "link", "pending", "msgs", "cmds"})
  BY LinkedDisc
<1>2. u.cur = t.cur
  BY <1>1 DEF SameBut, Fields
<1>3. Keeps(t, NoItem) => Keeps(u, NoItem)
  <2>1. /\ u.buf = t.buf /\ u.tlist = t.tlist /\ u.pubs = t.pubs
    BY <1>1 DEF SameBut, Fields
  <2> QED
    BY <1>1, <1>2, <2>1 DEF Keeps
<1> QED
  BY <1>1, <1>2, <1>3 DEF Linked, Sending, Noticed, Cut

LEMMA ProgramDisconnectsClient ==
    ASSUME Lone, TInv, Client, ProgramDisconnects
    PROVE  Linked(m', conn'[1])
<1>1. /\ Clients = {1} /\ ~m.restart /\ conn' = conn /\ m.session[1]
      /\ m' = SndDisconnect([m EXCEPT !.wants[1] = FALSE], 1, TRUE)
  BY DEF ProgramDisconnects, Lone
<1>2. m \in MqttRecord /\ 1 \in Clients
  BY <1>1, RunFacts
<1>3. Linked(m, conn[1])
  BY <1>1 DEF Client, Unlinked
<1> PICK t : t = [m EXCEPT !.wants[1] = FALSE]
  OBVIOUS
<1>4. t \in MqttRecord
  BY ONLY <1>2, t = [m EXCEPT !.wants[1] = FALSE] DEF MqttRecord, Flags
<1>5. SameBut(m, t, {"wants"}) /\ t.wants = [m.wants EXCEPT ![1] = FALSE]
  BY ONLY <1>2, t = [m EXCEPT !.wants[1] = FALSE], RecordFields DEF SameBut, Fields
<1>6. t.wants[1] = FALSE
  <2>1. DOMAIN m.wants = Clients
    BY <1>2, At
  <2> QED
    BY ONLY <1>2, <1>5, <2>1
<1>7. LinkedCore(t, conn[1])
  <2>1. /\ t.link = m.link /\ t.usertag = m.usertag
        /\ t.up = m.up /\ t.conning = m.conning /\ t.pending = m.pending
        /\ t.treconn = m.treconn /\ t.dropped = m.dropped /\ t.cnt = m.cnt
        /\ t.msgs = m.msgs
        /\ t.cmds = m.cmds /\ t.ip = m.ip /\ t.shuting = m.shuting
    BY <1>5 DEF SameBut, Fields
  <2> QED
    BY <1>3, <1>6, <2>1 DEF Linked, LinkedCore, Cut
<1>8. Sending(t) /\ Noticed(t) /\ (Cut(m) <=> Cut(t))
  <2>1. {"wants"} \intersect
          {"cur", "cmds", "session", "tping", "tdisc", "link", "buf"} = {}
    OBVIOUS
  <2> QED
    BY <1>3, <1>5, <2>1, CareSame DEF Linked
<1>9. Cut(t) \/ Keeps(t, NoItem)
  <2>1. {"wants"} \intersect Five = {}
    BY DEF Five
  <2>2. Keeps(m, NoItem) => Keeps(t, NoItem)
    BY <1>5, <2>1, PassSame DEF Passes
  <2> QED
    BY <1>3, <1>8, <2>2 DEF Linked
<1>10. m' = SndDisconnect(t, 1, TRUE)
  BY <1>1
<1>11. CASE t.link[1] = "CONNECTED"
  <2>1. m' = Send(t, 1, DISCONNECT)
    BY <1>10, <1>11 DEF SndDisconnect, Accepts
  <2>2. DISCONNECT \in Packets /\ \A n \in Nat : DISCONNECT \notin Of(n)
    BY PacketType, NotOf
  <2>3. Cut(t) \/ Keeps(t, DISCONNECT)
    BY <1>9, <2>2, KeepsPlain
  <2> QED
    BY <1>1, <1>4, <1>7, <1>8, <1>11, <2>1, <2>2, <2>3, LinkedSend
<1>12. CASE t.link[1] = "DISCONNECTING"
  <2>1. m' = DiscCb(t, 1, TRUE)
    BY <1>10, <1>12 DEF SndDisconnect, Accepts, CanConnect
  <2> QED
    BY <1>1, <1>4, <1>6, <1>7, <1>8, <1>9, <2>1, LinkedDisconnects
<1> QED
  BY <1>7, <1>11, <1>12 DEF LinkedCore

LEMMA NoRepeat ==
    ASSUME NEW i \in Clients, NEW p \in Packets
    PROVE  /\ p \in Repeated => <<"MQTT_DUP_FAIL", i, p>> \in Messages
           /\ <<"MQTT_DUP_IND", i, p>> \in Messages
           /\ <<"MQTT_DUP_FAIL", i, p>> \notin Asks
           /\ <<"MQTT_DUP_FAIL", i, p>> \notin Repeats
           /\ <<"MQTT_DUP_IND", i, p>> \notin Asks
BY DEF Messages, Asks, Repeats

LEMMA TellEnds ==
    ASSUME NEW t \in MqttRecord, NEW p \in Packets, p.kind \in {"PUB0", "PUB1"},
           p.n \in 1..Len(t.pubs), NEW suc \in BOOLEAN, NEW u, u = Tell(t, p, suc)
    PROVE  \A n \in Nat : n = p.n => ~Untold1(u.pubs, n)
<1> PICK n : n = p.n
  OBVIOUS
<1> PICK x : x = IF t.pubs[n].told \in {"ok", "failed"} THEN "again"
                 ELSE IF suc THEN "ok" ELSE "failed"
  OBVIOUS
<1>1. x # "no"
  OBVIOUS
<1>2. u = [t EXCEPT !.pubs[n].told = x]
  BY DEF Tell
<1>3. t.pubs \in Seq(Publishes) /\ n \in 1..Len(t.pubs)
  BY CmdsType
<1>4. t.pubs[n] \in Publishes /\ DOMAIN t.pubs = 1..Len(t.pubs)
  BY <1>3, ElementOfSeq, LenProperties
<1>5. u.pubs = [t.pubs EXCEPT ![n].told = x]
  BY ONLY <1>2, RecordFields, t \in MqttRecord DEF Fields
<1>6. u.pubs[n] = [t.pubs[n] EXCEPT !.told = x]
  BY ONLY <1>3, <1>4, <1>5
<1>7. u.pubs[n].told = x
  BY ONLY <1>4, <1>6 DEF Publishes
<1> QED
  BY <1>1, <1>7 DEF Untold1

LEMMA PublishClient ==
    ASSUME Lone, TInv, Client, Publish
    PROVE  Linked(m', conn'[1]) \/ Unlinked(m', conn'[1])
<1>1. Clients = {1} /\ ~m.restart /\ conn' = conn
  BY DEF Publish, Lone
<1>2. m \in MqttRecord /\ 1 \in Clients /\ Carries(m, NoItem)
  BY <1>1, RunFacts
<1>3. PICK k \in {"PUB0", "PUB1"} :
         LET p == Packet(k, Len(m.pubs) + 1)
             t == [m EXCEPT !.pubs = Append(@, [client |-> 1, told |-> "no"])]
         IN  m' = CASE ~m.session[1] \/ (~Accepts(t, 1) /\ k = "PUB0") ->
                          Tell(t, p, FALSE)
                    [] m.session[1] /\ Accepts(t, 1) -> Send(t, 1, p)
                    [] OTHER -> Ins(t, 1, p)
  BY <1>1 DEF Publish
<1> PICK p : p = Packet(k, Len(m.pubs) + 1)
  OBVIOUS
<1> PICK s : s = Append(m.pubs, [client |-> 1, told |-> "no"])
  OBVIOUS
<1> PICK t : t = [m EXCEPT !.pubs = s]
  OBVIOUS
<1>4. HeldTypes(m.buf, m.cur, m.tlist, m.msgs, m.pubs)
  BY <1>2, RecordTypes
<1>5. /\ HeldTypes(m.buf, m.cur, m.tlist, m.msgs, s) /\ p \in Packets
      /\ Held(m.buf, m.cur, m.tlist, m.msgs, s, p)
  BY <1>2, <1>4, HeldPublish DEF Carries
<1>6. t \in MqttRecord
  <2>1. s \in Seq(Publishes)
    BY <1>5 DEF HeldTypes
  <2> QED
    BY ONLY <1>2, <2>1, t = [m EXCEPT !.pubs = s] DEF MqttRecord
<1>7. SameBut(m, t, {"pubs"}) /\ t.pubs = s
  BY ONLY <1>2, RecordFields, t = [m EXCEPT !.pubs = s] DEF SameBut, Fields
<1>8. /\ t.buf = m.buf /\ t.cur = m.cur /\ t.tlist = m.tlist /\ t.msgs = m.msgs
      /\ t.link = m.link
  BY <1>7 DEF SameBut, Fields
<1>9. Carries(t, p)
  BY <1>5, <1>7, <1>8 DEF Carries
<1>10. Keeps(m, NoItem) => Keeps(t, p)
  <2>1. Keeps(m, NoItem) => Kept(m.buf, m.cur, m.tlist, m.msgs, s, p)
    BY <1>2, <1>4, KeptPublish DEF Keeps
  <2> QED
    BY <1>7, <1>8, <2>1 DEF Keeps
<1>11. /\ Len(m.pubs) \in Nat /\ Len(s) = Len(m.pubs) + 1
       /\ \A n \in 1..Len(m.pubs) : s[n] = m.pubs[n]
  <2>1. m.pubs \in Seq(Publishes)
    BY <1>2, CmdsType
  <2>2. [client |-> 1, told |-> "no"] \in Publishes
    BY <1>2 DEF Publishes, Results
  <2> QED
    BY <2>1, <2>2, AppendProperties, LenProperties
<1>12. p.kind = k /\ p.n = Len(m.pubs) + 1
  BY DEF Packet
<1>13. /\ m.session[1] \in BOOLEAN
       /\ ~m.session[1] \/ (~Accepts(t, 1) /\ k = "PUB0") => m' = Tell(t, p, FALSE)
       /\ m.session[1] /\ Accepts(t, 1) => m' = Send(t, 1, p)
       /\ m.session[1] /\ ~Accepts(t, 1) /\ k = "PUB1" => m' = Ins(t, 1, p)
  <2>1. m.session[1] \in BOOLEAN
    BY <1>2 DEF MqttRecord, Flags
  <2> QED
    BY <1>3, <2>1
<1> PICK u : u = m'
  OBVIOUS
<1>14. CASE Unlinked(m, conn[1])
  <2>1. u = Tell(t, p, FALSE)
    BY <1>13, <1>14 DEF Unlinked
  <2>2. TellShape(t, u, p)
    BY <1>5, <1>6, <1>9, <2>1, TellIs
  <2>3. SameBut(t, u, {"pubs"}) /\ Fewer(t.pubs, u.pubs)
    BY <2>2 DEF TellShape
  <2>4. ~Untold1(u.pubs, p.n)
    <3>1. p.n \in 1..Len(t.pubs) /\ p.kind \in {"PUB0", "PUB1"}
      BY <1>7, <1>11, <1>12
    <3>2. \A n \in Nat : n = p.n => ~Untold1(u.pubs, n)
      BY ONLY <1>5, <1>6, <2>1, <3>1, TellEnds
    <3>3. p.n \in Nat
      BY <1>11, <1>12
    <3> QED
      BY <3>2, <3>3
  <2>5. \A n \in Nat : ~Untold1(m.pubs, n)
    BY <1>14 DEF Unlinked
  <2>6. \A n \in Nat : ~Untold1(u.pubs, n)
    <3>1. SUFFICES ASSUME NEW n \in Nat, Untold1(u.pubs, n) PROVE FALSE
      OBVIOUS
    <3>2. n \in 1..Len(s) /\ s[n].told = "no"
      BY <1>7, <2>3, <3>1 DEF Fewer, Untold1
    <3>3. n # Len(m.pubs) + 1
      BY <1>12, <2>4, <3>1
    <3>4. Untold1(m.pubs, n)
      BY <1>11, <3>2, <3>3 DEF Untold1
    <3> QED
      BY <2>5, <3>4
  <2>7. SameBut(m, u, {"msgs", "pubs", "tdisc", "restart"})
    BY <1>7, <2>3 DEF SameBut
  <2>8. u.msgs = m.msgs /\ u.restart = m.restart
    BY <1>7, <2>3 DEF SameBut, Fields
  <2>9. ~Some(m.msgs, Asks) /\ ~Some(m.msgs, Repeats)
    BY <1>14 DEF Unlinked
  <2> QED
    BY <1>1, <1>14, <2>6, <2>7, <2>8, <2>9, UnlinkedData
<1>15. CASE Linked(m, conn[1])
  <2>1. /\ m.link[1] \in {"CONNECTED", "DISCONNECTING"}
        /\ LinkedCore(m, conn[1]) /\ Sending(m) /\ Noticed(m)
        /\ Cut(m) \/ Keeps(m, NoItem)
        /\ ~Some(m.msgs, Asks)
    BY <1>15 DEF Linked, LinkedCore
  <2>2. LinkedCore(t, conn[1])
    <3>1. {"pubs"} \intersect CoreFields = {}
      BY DEF CoreFields
    <3> QED
      BY <1>7, <2>1, <3>1, CoreSame
  <2>3. Sending(t) /\ Noticed(t) /\ (Cut(m) <=> Cut(t))
    <3>1. {"pubs"} \intersect
            {"cur", "cmds", "session", "tping", "tdisc", "link", "buf"} = {}
      OBVIOUS
    <3> QED
      BY <1>7, <2>1, <3>1, CareSame
  <2>4. Cut(t) \/ Keeps(t, p)
    BY <1>10, <2>1, <2>3
  <2>5. CASE m.session[1] /\ Accepts(t, 1)
    <3>1. t.link[1] = "CONNECTED"
      BY <1>8, <2>1, <2>5 DEF Accepts, CanConnect
    <3>2. m' = Send(t, 1, p)
      BY <1>13, <2>5
    <3> QED
      BY <1>1, <1>5, <1>6, <2>2, <2>3, <2>4, <3>1, <3>2, LinkedSend
  <2>6. CASE ~m.session[1] \/ (~Accepts(t, 1) /\ k = "PUB0")
    <3>1. u = Tell(t, p, FALSE)
      BY <1>13, <2>6
    <3>2. TellShape(t, u, p)
      BY <1>5, <1>6, <1>9, <3>1, TellIs
    <3>3. SameBut(t, u, {"pubs"}) /\ (Keeps(t, p) => Keeps(u, NoItem))
      BY <3>2 DEF TellShape
    <3>4. SameBut(t, u, {"tlist", "msgs", "pubs"}) /\ u.msgs = m.msgs
      BY <1>8, <3>3 DEF SameBut, Fields
    <3> QED
      BY <1>1, <2>1, <2>2, <2>3, <2>4, <3>3, <3>4, LinkedData
  <2>7. CASE m.session[1] /\ ~Accepts(t, 1) /\ k = "PUB1"
    <3>1. u = Ins(t, 1, p)
      BY <1>13, <2>7
    <3>2. p \in Repeated
      <4>1. Len(m.pubs) + 1 \in Nat
        BY <1>11
      <4> QED
        BY <2>7, <4>1 DEF Repeated
    <3>3. SameBut(t, u, {"tlist"}) /\ (Keeps(t, p) => Keeps(u, NoItem))
      BY <1>2, <1>6, <3>1, <3>2, InsIs DEF Passes
    <3>4. SameBut(t, u, {"tlist", "msgs", "pubs"}) /\ u.msgs = m.msgs
      BY <1>8, <3>3 DEF SameBut, Fields
    <3> QED
      BY <1>1, <2>1, <2>2, <2>3, <2>4, <3>3, <3>4, LinkedData
  <2> QED
    BY <1>13, <2>5, <2>6, <2>7
<1> QED
  BY <1>14, <1>15 DEF Client

LEMMA LinkedHears ==
    ASSUME NEW c, Linked(m, c), NEW t, SameBut(m, t, {"msgs"}),
           \A S : Some(t.msgs, S) => Some(m.msgs, S)
    PROVE  /\ LinkedCore(t, c) /\ Sending(t) /\ Noticed(t) /\ (Cut(m) <=> Cut(t))
           /\ t.link = m.link /\ ~Some(t.msgs, Asks)
<1>1. LinkedCore(m, c) /\ Sending(m) /\ Noticed(m) /\ ~Some(m.msgs, Asks)
  BY DEF Linked, LinkedCore
<1>2. {"msgs"} \intersect (CoreFields \ {"msgs"}) = {}
  OBVIOUS
<1>3. LinkedCore(t, c)
  BY <1>1, <1>2, CoreMessages
<1>4. {"msgs"} \intersect
        {"cur", "cmds", "session", "tping", "tdisc", "link", "buf"} = {}
  OBVIOUS
<1>5. Sending(t) /\ Noticed(t) /\ (Cut(m) <=> Cut(t))
  BY <1>1, <1>4, CareSame
<1> QED
  BY <1>1, <1>3, <1>5 DEF SameBut, Fields

LEMMA RsmLinked ==
    ASSUME NEW t \in MqttRecord, NEW c, LinkedCore(t, c), Sending(t), Noticed(t),
           Cut(t) \/ Keeps(t, NoItem), NEW p \in Packets, NEW u, u = Rsm(t, 1, p)
    PROVE  Linked(u, c)
<1>1. 1 \in Clients /\ t.msgs \in Seq(Messages)
  BY CmdsType
<1>2. RsmShape(t, u, 1, p)
  BY <1>1, RsmIs
<1>3. /\ SameBut(t, u, {"tlist", "msgs"})
      /\ \/ u.msgs = t.msgs
         \/ p \in Repeated /\ u.msgs = Append(t.msgs, <<"MQTT_DUP_FAIL", 1, p>>)
      /\ Keeps(t, NoItem) => Keeps(u, NoItem)
  BY <1>2 DEF RsmShape, Passes
<1>4. ~Some(t.msgs, Asks)
  BY DEF LinkedCore
<1>5. ~Some(u.msgs, Asks)
  <2> PICK e : e = <<"MQTT_DUP_FAIL", 1, p>>
    OBVIOUS
  <2>1. p \in Repeated => e \in Messages /\ e \notin Asks
    BY <1>1, NoRepeat
  <2>2. CASE p \in Repeated /\ u.msgs = Append(t.msgs, e)
    BY ONLY <1>1, <1>4, <2>1, <2>2, AppendHas
  <2>3. \/ u.msgs = t.msgs
        \/ p \in Repeated /\ u.msgs = Append(t.msgs, e)
    <3> PICK s : s = t.msgs
      OBVIOUS
    <3>1. e = <<"MQTT_DUP_FAIL", 1, p>>
      OBVIOUS
    <3> QED
      BY ONLY <1>3, <3>1, Zenon
  <2> QED
    BY <1>4, <2>2, <2>3
<1>6. SameBut(t, u, {"tlist", "msgs", "pubs"})
  BY <1>3 DEF SameBut
<1> QED
  BY <1>3, <1>5, <1>6, LinkedData

LEMMA MessageClient ==
    ASSUME Lone, TInv, Client, Message
    PROVE  Linked(m', conn'[1]) \/ Unlinked(m', conn'[1])
<1>1. Clients = {1} /\ ~m.restart /\ conn' = conn /\ m.msgs # <<>>
  BY DEF Message, Lone
<1>2. /\ m \in MqttRecord /\ 1 \in Clients /\ Carries(m, NoItem) /\ Sound(m)
      /\ m.msgs \in Seq(Messages)
  BY <1>1, RunFacts, CmdsType
<1> PICK e : e = Head(m.msgs)
  OBVIOUS
<1> PICK t : t = [m EXCEPT !.msgs = Tail(@)]
  OBVIOUS
<1> PICK n : n = IF e[3] = CONNECT THEN 0 ELSE e[3].n
  OBVIOUS
<1>3. /\ t \in MqttRecord /\ SameBut(m, t, {"msgs"}) /\ t.msgs = Tail(m.msgs)
      /\ e \in Messages
      /\ e[1] = "MQTT_DUP_FAIL" => Carries(t, e[3])
  BY <1>1, <1>2, HearIs
<1>4. /\ e[1] \in {"DISCONNECT", "MQTT_DUP_IND", "MQTT_DUP_FAIL"}
      /\ e[2] = 1 /\ e[3] \in Packets
  BY <1>1, <1>3 DEF Messages
<1>5. m' = CASE e[1] = "DISCONNECT" -> CloseCnf(t, 1)
             [] e[1] = "MQTT_DUP_IND" ->
                   IF Accepts(t, 1) THEN Send(t, 1, Packet("DUP", n))
                   ELSE Rsm(t, 1, e[3])
             [] e[1] = "MQTT_DUP_FAIL" -> Tell(t, e[3], FALSE)
  BY <1>4 DEF Message
<1>6. \A S : Some(m.msgs, S) <=> Some(t.msgs, S) \/ e \in S
  BY <1>1, <1>2, <1>3, TailHas
<1>7. ~Some(m.msgs, Asks)
  BY DEF Client, Linked, LinkedCore, Unlinked
<1>8. e[1] # "DISCONNECT"
  BY <1>3, <1>6, <1>7 DEF Asks
<1> PICK u : u = m'
  OBVIOUS
<1>9. CASE Unlinked(m, conn[1])
  <2>1. /\ ~Some(m.msgs, Repeats) /\ \A k \in Nat : ~Untold1(m.pubs, k)
    BY <1>9 DEF Unlinked
  <2>2. e[1] = "MQTT_DUP_FAIL"
    BY <1>3, <1>4, <1>6, <1>8, <2>1 DEF Repeats
  <2>3. u = Tell(t, e[3], FALSE)
    BY <1>5, <2>2
  <2>4. TellShape(t, u, e[3])
    BY <1>3, <1>4, <2>2, <2>3, TellIs
  <2>5. SameBut(t, u, {"pubs"}) /\ Fewer(t.pubs, u.pubs)
    BY <2>4 DEF TellShape
  <2>6. t.pubs = m.pubs /\ u.msgs = t.msgs /\ u.restart = m.restart
    BY <1>3, <2>5 DEF SameBut, Fields
  <2>7. SameBut(m, u, {"msgs", "pubs", "tdisc", "restart"})
    BY <1>3, <2>5 DEF SameBut
  <2>8. \A k \in Nat : ~Untold1(u.pubs, k)
    BY <2>1, <2>5, <2>6 DEF Fewer
  <2>9. ~Some(u.msgs, Asks) /\ ~Some(u.msgs, Repeats)
    BY <1>6, <1>7, <2>1, <2>6
  <2> QED
    BY <1>1, <1>9, <2>6, <2>7, <2>8, <2>9, UnlinkedData
<1>10. CASE Linked(m, conn[1])
  <2>1. /\ LinkedCore(t, conn[1]) /\ Sending(t) /\ Noticed(t) /\ (Cut(m) <=> Cut(t))
        /\ t.link = m.link /\ ~Some(t.msgs, Asks)
    BY <1>3, <1>6, <1>10, LinkedHears
  <2>2. Keeps(m, NoItem) =>
            Keeps(t, IF e[1] = "MQTT_DUP_FAIL" THEN e[3] ELSE NoItem)
    <3>1. HeldTypes(m.buf, m.cur, m.tlist, m.msgs, m.pubs)
      BY <1>2, RecordTypes
    <3>2. t.buf = m.buf /\ t.cur = m.cur /\ t.tlist = m.tlist /\ t.pubs = m.pubs
      BY <1>3 DEF SameBut, Fields
    <3> QED
      BY <1>1, <1>3, <3>1, <3>2, KeptHear DEF Keeps
  <2>3. Cut(m) \/ Keeps(m, NoItem)
    BY <1>10 DEF Linked
  <2>4. CASE e[1] = "MQTT_DUP_IND"
    <3>1. Cut(t) \/ Keeps(t, NoItem)
      BY <2>1, <2>2, <2>3, <2>4
    <3>2. u = IF Accepts(t, 1) THEN Send(t, 1, Packet("DUP", n)) ELSE Rsm(t, 1, e[3])
      BY <1>5, <2>4
    <3>3. CASE t.link[1] = "CONNECTED"
      <4>1. u = Send(t, 1, Packet("DUP", n))
        BY <3>2, <3>3 DEF Accepts
      <4>2. n \in Nat
        BY <1>4 DEF Packets
      <4>3. Packet("DUP", n) \in Packets /\ \A k \in Nat : Packet("DUP", n) \notin Of(k)
        BY <4>2, NotOf, PacketType DEF Kinds
      <4>4. Cut(t) \/ Keeps(t, Packet("DUP", n))
        BY <3>1, <4>3, KeepsPlain
      <4> QED
        BY <1>1, <1>3, <2>1, <3>3, <4>1, <4>3, <4>4, LinkedSend
    <3>4. CASE t.link[1] = "DISCONNECTING"
      <4>1. u = Rsm(t, 1, e[3])
        BY <3>2, <3>4 DEF Accepts, CanConnect
      <4> QED
        BY <1>1, <1>3, <1>4, <2>1, <3>1, <4>1, RsmLinked
    <3> QED
      BY <2>1, <3>3, <3>4 DEF LinkedCore
  <2>5. CASE e[1] = "MQTT_DUP_FAIL"
    <3>1. u = Tell(t, e[3], FALSE)
      BY <1>5, <2>5
    <3>2. TellShape(t, u, e[3])
      BY <1>3, <1>4, <2>5, <3>1, TellIs
    <3>3. SameBut(t, u, {"pubs"}) /\ (Keeps(t, e[3]) => Keeps(u, NoItem))
      BY <3>2 DEF TellShape
    <3>4. SameBut(t, u, {"tlist", "msgs", "pubs"}) /\ u.msgs = t.msgs
      BY <3>3 DEF SameBut, Fields
    <3>5. Cut(t) \/ Keeps(u, NoItem)
      BY <2>1, <2>2, <2>3, <2>5, <3>3
    <3> QED
      BY <1>1, <2>1, <3>4, <3>5, LinkedData
  <2> QED
    BY <1>4, <1>8, <2>4, <2>5
<1> QED
  BY <1>9, <1>10 DEF Client

LEMMA DupTimerClient ==
    ASSUME Lone, TInv, Client, DupTimer
    PROVE  Linked(m', conn'[1])
<1>1. Idle /\ conn' = conn /\ Clients = {1}
  BY DEF DupTimer, Lone
<1>2. /\ m \in MqttRecord /\ Sound(m) /\ m.msgs \in Seq(Messages)
      /\ m.tlist \in Seq(Entries)
  BY <1>1, IdleFacts, CmdsType
<1>3. PICK k \in DOMAIN m.tlist :
        m' = [m EXCEPT !.tlist[k].due = TRUE,
                       !.msgs = Append(@, <<"MQTT_DUP_IND",
                            m.tlist[k].client, m.tlist[k].packet>>)]
  BY DEF DupTimer
<1>4. Linked(m, conn[1])
  <2>1. m.tlist # <<>>
    BY <1>2, <1>3, LenProperties, EmptySeq
  <2> QED
    BY <2>1 DEF Client, Unlinked
<1> PICK u : u = m'
  OBVIOUS
<1>5. /\ SameBut(m, u, {"tlist", "msgs"})
      /\ Passes(m, u, NoItem, NoItem) /\ m.tlist[k] \in Entries
  BY <1>2, <1>3, DupTimerIs
<1> PICK e : e = <<"MQTT_DUP_IND", m.tlist[k].client, m.tlist[k].packet>>
  OBVIOUS
<1>6. u.msgs = Append(m.msgs, e)
  BY ONLY <1>3, u = m', <1>2, RecordFields,
     e = <<"MQTT_DUP_IND", m.tlist[k].client, m.tlist[k].packet>> DEF Fields
<1>7. e \in Messages /\ e \notin Asks
  <2>1. m.tlist[k].client \in Clients /\ m.tlist[k].packet \in Packets
    <3>1. Repeated \subseteq Packets
      BY PacketType DEF Repeated, Kinds
    <3> QED
      BY <1>5, <3>1 DEF Entries
  <2> QED
    BY <2>1, NoRepeat
<1>8. ~Some(u.msgs, Asks)
  <2>1. ~Some(m.msgs, Asks)
    BY <1>4 DEF Linked, LinkedCore
  <2> QED
    BY ONLY <1>2, <1>6, <1>7, <2>1, AppendHas
<1>9. SameBut(m, u, {"tlist", "msgs", "pubs"})
  BY <1>5 DEF SameBut
<1>10. Cut(m) \/ Keeps(u, NoItem)
  BY <1>4, <1>5 DEF Linked, Passes
<1> QED
  BY <1>1, <1>4, <1>8, <1>9, <1>10, LinkedData DEF Linked

LEMMA PingTimerClient ==
    ASSUME Lone, TInv, Client, PingTimer
    PROVE  Linked(m', conn'[1])
<1>1. /\ Idle /\ conn' = conn /\ Clients = {1} /\ m.tping[1]
      /\ m' = [SndPingReq([m EXCEPT !.tping[1] = FALSE], 1) EXCEPT !.tdisc[1] = TRUE]
  BY DEF PingTimer, Lone
<1>2. m \in MqttRecord /\ Sound(m) /\ 1 \in Clients
  BY <1>1, IdleFacts
<1>3. Linked(m, conn[1])
  BY <1>1 DEF Client, Unlinked
<1> PICK u : u = m'
  OBVIOUS
<1> PICK v : v = [m EXCEPT !.tping[1] = FALSE]
  OBVIOUS
<1> PICK w : w = Send(v, 1, PINGREQ)
  OBVIOUS
<1>4. u = [w EXCEPT !.tdisc[1] = TRUE]
  BY ONLY <1>1, u = m', v = [m EXCEPT !.tping[1] = FALSE], w = Send(v, 1, PINGREQ)
     DEF SndPingReq
<1>5. v \in MqttRecord /\ SameBut(m, v, {"tping"})
  <2>1. v \in MqttRecord
    BY ONLY <1>2, v = [m EXCEPT !.tping[1] = FALSE] DEF MqttRecord, Flags
  <2>2. SameBut(m, v, {"tping"})
    BY ONLY <1>2, v = [m EXCEPT !.tping[1] = FALSE], RecordFields
       DEF SameBut, Fields
  <2> QED
    BY <2>1, <2>2
<1>6. LinkedCore(v, conn[1]) /\ Sending(v) /\ (Cut(v) \/ Keeps(v, NoItem))
  <2>1. {"tping"} \intersect CoreFields = {} /\ {"tping"} \intersect Five = {}
    BY DEF CoreFields, Five
  <2>2. LinkedCore(v, conn[1]) /\ (Keeps(m, NoItem) => Keeps(v, NoItem))
    BY <1>3, <1>5, <2>1, CoreSame, PassSame DEF Linked, Passes
  <2>3. v.cmds = m.cmds /\ v.cur = m.cur
    BY <1>5 DEF SameBut, Fields
  <2> QED
    BY <1>3, <2>2, <2>3 DEF Linked, Sending, Cut
<1>7. PINGREQ \in Packets /\ \A n \in Nat : PINGREQ \notin Of(n)
  BY PacketType, NotOf
<1>8. /\ w \in MqttRecord /\ LinkedCore(w, conn[1]) /\ Sending(w)
      /\ Cut(w) \/ Keeps(w, NoItem)
  <2>1. CASE v.link[1] = "CONNECTED"
    <3>1. Cut(v) \/ Keeps(v, PINGREQ)
      BY <1>6, <1>7, KeepsPlain
    <3> QED
      BY <1>5, <1>6, <1>7, <2>1, <3>1, SendKeeps
  <2>2. CASE v.link[1] = "DISCONNECTING"
    <3>1. w = v
      BY <1>5, <1>7, <2>2, SendRefused
    <3> QED
      BY <1>5, <1>6, <3>1
  <2> QED
    BY <1>6, <2>1, <2>2 DEF LinkedCore
<1>9. u.tdisc[1] = TRUE /\ SameBut(w, u, {"tdisc"})
  <2>1. DOMAIN w.tdisc = Clients
    BY <1>8, At
  <2>2. u.tdisc = [w.tdisc EXCEPT ![1] = TRUE] /\ SameBut(w, u, {"tdisc"})
    BY ONLY <1>4, <1>8, RecordFields DEF SameBut, Fields
  <2> QED
    BY ONLY <1>2, <2>1, <2>2
<1>10. LinkedCore(u, conn[1]) /\ Sending(u) /\ (Cut(u) \/ Keeps(u, NoItem))
  <2>1. {"tdisc"} \intersect CoreFields = {} /\ {"tdisc"} \intersect Five = {}
    BY DEF CoreFields, Five
  <2>2. LinkedCore(u, conn[1]) /\ (Keeps(w, NoItem) => Keeps(u, NoItem))
    BY <1>8, <1>9, <2>1, CoreSame, PassSame DEF Passes
  <2>3. u.cmds = w.cmds /\ u.cur = w.cur
    BY <1>9 DEF SameBut, Fields
  <2> QED
    BY <1>8, <2>2, <2>3 DEF Sending, Cut
<1> QED
  BY <1>1, <1>9, <1>10 DEF Linked, Noticed

LEMMA DiscTimerClient ==
    ASSUME Lone, TInv, Client, DiscTimer
    PROVE  Linked(m', conn'[1])
<1>1. /\ Idle /\ conn' = conn /\ Clients = {1} /\ m.link[1] = "CONNECTED"
      /\ m' = SndDisconnect([m EXCEPT !.tdisc[1] = FALSE], 1, FALSE)
  BY DEF DiscTimer, Lone
<1>2. m \in MqttRecord /\ 1 \in Clients
  BY <1>1, IdleFacts
<1>3. Linked(m, conn[1])
  BY <1>1 DEF Client, Unlinked
<1> PICK v : v = [m EXCEPT !.tdisc[1] = FALSE]
  OBVIOUS
<1>4. v \in MqttRecord
  BY ONLY <1>2, v = [m EXCEPT !.tdisc[1] = FALSE] DEF MqttRecord, Flags
<1>5. SameBut(m, v, {"tdisc"})
  BY ONLY <1>2, v = [m EXCEPT !.tdisc[1] = FALSE], RecordFields DEF SameBut, Fields
<1>6. LinkedCore(v, conn[1]) /\ Sending(v) /\ (Cut(v) \/ Keeps(v, NoItem))
  <2>1. {"tdisc"} \intersect CoreFields = {} /\ {"tdisc"} \intersect Five = {}
    BY DEF CoreFields, Five
  <2>2. LinkedCore(v, conn[1]) /\ (Keeps(m, NoItem) => Keeps(v, NoItem))
    BY <1>3, <1>5, <2>1, CoreSame, PassSame DEF Linked, Passes
  <2>3. v.cmds = m.cmds /\ v.cur = m.cur
    BY <1>5 DEF SameBut, Fields
  <2> QED
    BY <1>3, <2>2, <2>3 DEF Linked, Sending, Cut
<1>7. DISCONNECT \in Packets /\ \A n \in Nat : DISCONNECT \notin Of(n)
  BY PacketType, NotOf
<1>8. v.link[1] = "CONNECTED"
  BY <1>1, <1>5 DEF SameBut, Fields
<1>9. m' = Send(v, 1, DISCONNECT)
  BY <1>1, <1>8 DEF SndDisconnect, Accepts
<1>10. Cut(v) \/ Keeps(v, DISCONNECT)
  BY <1>6, <1>7, KeepsPlain
<1> QED
  BY <1>1, <1>4, <1>6, <1>7, <1>8, <1>9, <1>10, LinkedSend

LEMMA DatInactiveClient ==
    ASSUME Lone, TInv, Client, DatInactive
    PROVE  Linked(m', conn'[1]) \/ Unlinked(m', conn'[1])
<1>1. Idle /\ conn' = conn /\ m' = [m EXCEPT !.restart = TRUE]
  BY DEF DatInactive
<1>2. Sound(m)
  BY <1>1, IdleFacts
<1> PICK u : u = m'
  OBVIOUS
<1>3. SameBut(m, u, {"restart"}) /\ u.restart = TRUE
  BY <1>1, <1>2, RestartSet
<1>4. CASE Linked(m, conn[1])
  <2>1. {"restart"} \intersect
            (CoreFields \union Five \union {"session", "tping", "tdisc"}) = {}
    BY DEF CoreFields, Five
  <2> QED
    BY <1>1, <1>3, <1>4, <2>1, LinkedSame
<1>5. CASE Unlinked(m, conn[1])
  <2>1. /\ \A n \in Nat : ~Untold1(m.pubs, n)
        /\ ~Some(m.msgs, Asks) /\ ~Some(m.msgs, Repeats)
    BY <1>5 DEF Unlinked
  <2>2. u.pubs = m.pubs /\ u.msgs = m.msgs
    BY <1>3 DEF SameBut, Fields
  <2>3. SameBut(m, u, {"msgs", "pubs", "tdisc", "restart"})
    BY <1>3 DEF SameBut
  <2> QED
    BY <1>1, <1>3, <1>5, <2>1, <2>2, <2>3, UnlinkedData
<1> QED
  BY <1>4, <1>5 DEF Client

LEMMA StartUnlinked ==
    ASSUME Clients = {1}
    PROVE  Unlinked(Start, Each("free")[1])
<1>1. Each("free")[1] = "free"
  BY DEF Each
<1>2. /\ Start.link[1] = "NIL LINK" /\ Start.up[1] = FALSE /\ Start.session[1] = FALSE
      /\ Start.tping[1] = FALSE /\ Start.usertag[1] = FALSE
      /\ Start.conning[1] = FALSE /\ Start.cur[1] = NoItem
      /\ Start.pending[1] = FALSE /\ Start.treconn[1] = FALSE
      /\ Start.wants[1] = FALSE
      /\ Start.tlist = <<>> /\ Start.pubs = <<>> /\ Start.msgs = <<>>
      /\ Start.cmds = <<>>
  BY DEF Start, Each
<1>3. \A n \in Nat : ~Untold1(Start.pubs, n)
  <2>1. Len(Start.pubs) = 0
    BY <1>2, EmptySeq
  <2> QED
    BY ONLY <2>1 DEF Untold1
<1>4. \A S : ~Some(<<>>, S)
  BY EmptyHas
<1>5. Ends(<<>>, Starts) /\ CutOff(<<>>, Sends, Cuts)
  BY <1>4, NoEnds
<1> QED
  BY <1>1, <1>2, <1>3, <1>4, <1>5 DEF Unlinked, Cut

----------------------------------------------------------------------------
(* The answer to a send                                                    *)

LEMMA SndNxtLinked ==
    ASSUME NEW t \in MqttRecord, NEW c, Linked(t, c), NEW u, u = SndNxt(t, 1)
    PROVE  Linked(u, c)
<1>1. 1 \in Clients /\ t.buf[1] \in Seq(Packets)
  BY CmdsType
<1>2. /\ u \in MqttRecord /\ SameBut(t, u, {"cmds", "buf", "cur"})
      /\ Passes(t, u, NoItem, NoItem)
      /\ \/ u = t
         \/ /\ t.link[1] = "CONNECTED" /\ t.cur[1] = NoItem /\ t.buf[1] # <<>>
            /\ Head(t.buf[1]) \in Packets
            /\ u.buf = [t.buf EXCEPT ![1] = Tail(@)]
            /\ u.cur = [t.cur EXCEPT ![1] = Head(t.buf[1])]
            /\ u.cmds = Append(t.cmds, SendCmd(1, Head(t.buf[1])))
  BY <1>1, SndNxtIs
<1>3. CASE u = t
  BY <1>3
<1>4. CASE u # t
  <2> PICK p : p = Head(t.buf[1])
    OBVIOUS
  <2>1. /\ t.link[1] = "CONNECTED" /\ t.cur[1] = NoItem /\ t.buf[1] # <<>>
        /\ p \in Packets /\ u.buf = [t.buf EXCEPT ![1] = Tail(@)]
        /\ u.cur = [t.cur EXCEPT ![1] = p]
        /\ u.cmds = Append(t.cmds, SendCmd(1, p))
    BY <1>2, <1>4
  <2>2. u.cur[1] = p /\ u.buf[1] = Tail(t.buf[1])
    <3>1. DOMAIN t.buf = Clients /\ DOMAIN t.cur = Clients
      BY At
    <3> QED
      BY ONLY <1>1, <2>1, <3>1
  <2>3. \A S : Some(t.buf[1], S) <=> Some(u.buf[1], S) \/ p \in S
    BY <1>1, <2>1, <2>2, TailHas
  <2>4. SendCmd(1, p) \in Commands
    BY <1>1, <2>1, CommandType
  <2>5. /\ SendCmd(1, p) \in Sends /\ SendCmd(1, p) \notin Starts
        /\ SendCmd(1, p) \notin Closes /\ SendCmd(1, p) \notin Cuts
    BY <2>1, VerbIs DEF Sends, Starts, Closes, Cuts
  <2>6. \A S : Some(u.cmds, S) <=> Some(t.cmds, S) \/ SendCmd(1, p) \in S
    BY <2>1, <2>4, AppendQueue
  <2>7. /\ u.link = t.link /\ u.pending = t.pending
        /\ u.up = t.up /\ u.conning = t.conning
        /\ u.treconn = t.treconn /\ u.cnt = t.cnt
        /\ u.usertag = t.usertag /\ u.wants = t.wants /\ u.msgs = t.msgs
        /\ u.ip = t.ip /\ u.shuting = t.shuting /\ u.session = t.session
        /\ u.tping = t.tping /\ u.tdisc = t.tdisc
    BY <1>2 DEF SameBut, Fields
  <2>8. LinkedCore(t, c) /\ (Cut(t) \/ Keeps(t, NoItem)) /\ Noticed(t)
    BY DEF Linked
  <2>9. LinkedCore(u, c)
    BY <2>1, <2>5, <2>6, <2>7, <2>8 DEF LinkedCore, Cut
  <2>10. Sending(u) /\ (Cut(t) <=> Cut(u))
    BY <2>5, <2>6 DEF Sending, Cut
  <2>11. Noticed(u)
    <3>1. NoItem # DISCONNECT
      BY DEF NoItem, DISCONNECT, Packet
    <3> QED
      BY <2>1, <2>2, <2>3, <2>7, <2>8, <2>10, <3>1 DEF Noticed
  <2> QED
    BY <1>2, <2>8, <2>9, <2>10, <2>11 DEF Linked, Passes
<1> QED
  BY <1>3, <1>4

LEMMA SentLinked ==
    ASSUME NEW t \in MqttRecord, NEW p \in Packets, Carries(t, p),
           NEW c, LinkedCore(t, c), t.cur[1] = NoItem, Cut(t) \/ Keeps(t, p),
           Noticed(t) \/ p = DISCONNECT, NEW u, u = Sent(t, 1, p)
    PROVE  Linked(u, c)
<1>1. 1 \in Clients /\ t.msgs \in Seq(Messages) /\ ~Some(t.msgs, Asks)
  BY CmdsType DEF LinkedCore
<1>2. Sending(t)
  BY DEF Sending
<1>3. ASSUME p.kind \notin {"PUB0", "PUB1"}
      PROVE  Cut(t) \/ Keeps(t, NoItem)
  <2>1. \A n \in Nat : p \notin Of(n)
    BY <1>3, NotOf
  <2> QED
    BY <2>1, KeepsPlain
<1>4. p.kind # "DISCONNECT" => Noticed(t)
  BY DEF DISCONNECT, Packet
<1>5. CASE p.kind = "PUB0"
  <2>1. u = Tell(t, p, TRUE)
    BY <1>5 DEF Sent
  <2>2. TellShape(t, u, p)
    BY <2>1, TellIs
  <2>3. SameBut(t, u, {"pubs"}) /\ (Keeps(t, p) => Keeps(u, NoItem))
    BY <2>2 DEF TellShape
  <2>4. SameBut(t, u, {"tlist", "msgs", "pubs"}) /\ u.msgs = t.msgs
    BY <2>3 DEF SameBut, Fields
  <2> QED
    BY <1>1, <1>2, <1>4, <1>5, <2>3, <2>4, LinkedData
<1>6. CASE p.kind = "PUB1"
  <2>1. p \in Repeated
    BY <1>6 DEF Packets, Repeated, Packet
  <2>2. u = Ins(t, 1, p)
    BY <1>6 DEF Sent
  <2>3. SameBut(t, u, {"tlist"}) /\ (Keeps(t, p) => Keeps(u, NoItem))
    BY <1>1, <2>1, <2>2, InsIs DEF Passes
  <2>4. SameBut(t, u, {"tlist", "msgs", "pubs"}) /\ u.msgs = t.msgs
    BY <2>3 DEF SameBut, Fields
  <2> QED
    BY <1>1, <1>2, <1>4, <1>6, <2>3, <2>4, LinkedData
<1>7. CASE p.kind = "CONNECT"
  <2>1. CONNECT \in Repeated /\ \A n \in Nat : CONNECT \notin Of(n)
    BY NotOf DEF Repeated
  <2>2. u = Ins(t, 1, CONNECT)
    BY <1>7 DEF Sent
  <2>3. SameBut(t, u, {"tlist"}) /\ (Keeps(t, CONNECT) => Keeps(u, NoItem))
    BY <1>1, <2>1, <2>2, InsIs DEF Passes
  <2>4. SameBut(t, u, {"tlist", "msgs", "pubs"}) /\ u.msgs = t.msgs
    BY <2>3 DEF SameBut, Fields
  <2>5. Cut(t) \/ Keeps(u, NoItem)
    BY <1>3, <1>7, <2>1, <2>3, KeepsPlain
  <2> QED
    BY <1>1, <1>2, <1>4, <1>7, <2>4, <2>5, LinkedData
<1>8. CASE p.kind = "DISCONNECT"
  <2>1. u = DiscCb(t, 1, FALSE)
    BY <1>8 DEF Sent
  <2>2. Cut(t) \/ Keeps(t, NoItem)
    BY <1>3, <1>8
  <2> QED
    BY <1>2, <2>1, <2>2, LinkedDisconnects
<1>9. CASE p.kind = "DUP"
  <2> PICK o : o = IF p.n = 0 THEN CONNECT ELSE Packet("PUB1", p.n)
    OBVIOUS
  <2>1. u = Rsm(t, 1, o)
    BY <1>9 DEF Sent
  <2>2. o \in Packets
    BY PacketType DEF Packets, Kinds, Packet
  <2>3. Cut(t) \/ Keeps(t, NoItem)
    BY <1>3, <1>9
  <2> QED
    BY <1>2, <1>4, <1>9, <2>1, <2>2, <2>3, RsmLinked
<1>10. CASE p.kind \notin {"PUB0", "PUB1", "CONNECT", "DISCONNECT", "DUP"}
  <2>1. u = t
    BY <1>10 DEF Sent
  <2> QED
    BY <1>2, <1>3, <1>4, <1>10, <2>1 DEF Linked
<1> QED
  BY <1>5, <1>6, <1>7, <1>8, <1>9, <1>10

LEMMA CurDrops ==
    ASSUME NEW t \in MqttRecord, NEW v, v = [t EXCEPT !.cur[1] = NoItem]
    PROVE  /\ v \in MqttRecord /\ SameBut(t, v, {"cur"}) /\ v.cur[1] = NoItem
           /\ Carries(t, NoItem) => Carries(v, t.cur[1])
           /\ Keeps(t, NoItem) => Keeps(v, t.cur[1])
<1>1. 1 \in Clients /\ NoItem \in Packets
  BY CmdsType, PacketType
<1>2. v \in MqttRecord
  BY ONLY <1>1, t \in MqttRecord, v = [t EXCEPT !.cur[1] = NoItem] DEF MqttRecord
<1> PICK e : e = [t.cur EXCEPT ![1] = NoItem]
  OBVIOUS
<1>3. SameBut(t, v, {"cur"}) /\ v.cur = e
  BY ONLY t \in MqttRecord, RecordFields, v = [t EXCEPT !.cur[1] = NoItem],
     e = [t.cur EXCEPT ![1] = NoItem] DEF SameBut, Fields
<1>4. v.cur[1] = NoItem
  <2>1. DOMAIN t.cur = Clients
    BY At
  <2> QED
    BY ONLY <1>1, <1>3, <2>1, e = [t.cur EXCEPT ![1] = NoItem]
<1>5. v.buf = t.buf /\ v.tlist = t.tlist /\ v.msgs = t.msgs /\ v.pubs = t.pubs
  BY <1>3 DEF SameBut, Fields
<1>6. HeldTypes(t.buf, t.cur, t.tlist, t.msgs, t.pubs)
  BY RecordTypes
<1>7. /\ Held(t.buf, t.cur, t.tlist, t.msgs, t.pubs, NoItem) =>
            Held(t.buf, e, t.tlist, t.msgs, t.pubs, t.cur[1])
      /\ Kept(t.buf, t.cur, t.tlist, t.msgs, t.pubs, NoItem) =>
            Kept(t.buf, e, t.tlist, t.msgs, t.pubs, t.cur[1])
  BY ONLY <1>1, <1>6, e = [t.cur EXCEPT ![1] = NoItem], HeldDropCur, KeptDropCur
<1> QED
  BY <1>2, <1>3, <1>4, <1>5, <1>7 DEF Carries, Keeps

LEMMA SendFails ==
    ASSUME NEW t \in MqttRecord, NEW u, u = SendCnf(t, 1, FALSE)
    PROVE  /\ SameBut(t, u, {"cur", "cmds", "shuting", "buf"})
           /\ u.cur[1] = NoItem /\ u.buf[1] = <<>> /\ u.shuting = TRUE /\ Cut(u)
           /\ \A S : Some(u.cmds, S) /\ SHUT \notin S => Some(t.cmds, S)
           /\ Closing(t.cmds, Closes, Cuts) => Closing(u.cmds, Closes, Cuts)
           /\ CutOff(u.cmds, Sends, Cuts)
<1> PICK v : v = [t EXCEPT !.cur[1] = NoItem]
  OBVIOUS
<1> PICK w : w = Shut(v)
  OBVIOUS
<1>1. /\ v \in MqttRecord /\ SameBut(t, v, {"cur"}) /\ v.cur[1] = NoItem
      /\ 1 \in Clients
  BY CurDrops, CmdsType
<1>2. /\ w \in MqttRecord /\ SameBut(v, w, {"cmds", "shuting"})
      /\ w.cmds = Append(v.cmds, SHUT) /\ w.shuting = TRUE
  BY <1>1, ShutIs
<1>3. u = Flush(w, 1)
  BY DEF SendCnf, NotSent
<1>4. FlushShape(w, u, 1)
  BY <1>1, <1>2, <1>3, FlushIs
<1>5. /\ SameBut(w, u, {"cmds", "shuting", "buf"})
      /\ u.buf = [w.buf EXCEPT ![1] = <<>>]
  BY <1>4 DEF FlushShape
<1>6. /\ \A S : Some(w.cmds, S) => Some(u.cmds, S)
      /\ \A S : Some(u.cmds, S) /\ SHUT \notin S => Some(w.cmds, S)
      /\ Closing(w.cmds, Closes, Cuts) => Closing(u.cmds, Closes, Cuts)
      /\ CutOff(w.cmds, Sends, Cuts) => CutOff(u.cmds, Sends, Cuts)
      /\ u.shuting = w.shuting \/ u.shuting = TRUE
  BY <1>2, <1>4, FlushQueue
<1>7. SHUT \in Commands /\ SHUT \in Cuts
  BY CommandType, VerbIs DEF Cuts
<1>8. /\ \A S : Some(w.cmds, S) <=> Some(v.cmds, S) \/ SHUT \in S
      /\ CutOff(w.cmds, Sends, Cuts)
      /\ Closing(v.cmds, Closes, Cuts) => Closing(w.cmds, Closes, Cuts)
  BY <1>1, <1>2, <1>7, AppendQueue
<1>9. u.buf[1] = <<>>
  <2>1. DOMAIN w.buf = Clients
    BY <1>2, At
  <2> QED
    BY ONLY <1>1, <1>5, <2>1
<1>10. u.cur = v.cur /\ v.cmds = t.cmds
  BY <1>1, <1>2, <1>5 DEF SameBut, Fields
<1>11. SameBut(t, u, {"cur", "cmds", "shuting", "buf"})
  BY ONLY <1>1, <1>2, <1>5 DEF SameBut, Fields
<1>12. Cut(u) /\ u.shuting = TRUE
  BY <1>2, <1>6, <1>7, <1>8 DEF Cut
<1>13. \A S : Some(u.cmds, S) /\ SHUT \notin S => Some(t.cmds, S)
  BY <1>6, <1>8, <1>10
<1> QED
  BY <1>1, <1>6, <1>8, <1>9, <1>10, <1>11, <1>12, <1>13

LEMMA UnlinkedSend ==
    ASSUME TInv, NEW c, Unlinked(m, c), Executing("CIPSEND"), NEW t, t = Done,
           NEW suc \in BOOLEAN, NEW u, u = SendCnf(t, 1, suc)
    PROVE  Unlinked(u, c)
<1>1. /\ Sound(t) /\ t \in MqttRecord /\ SameBut(m, t, {"cmds"})
      /\ Head(m.cmds) \in Verb("CIPSEND")
      /\ \A S : Some(m.cmds, S) <=> Some(t.cmds, S) \/ Head(m.cmds) \in S
  BY DoneFacts
<1>2. Unlinked(t, c) /\ c = "free" /\ 1 \in Clients
  BY <1>1, UnlinkedPops, CmdsType
<1>3. CASE suc
  <2> PICK v : v = [t EXCEPT !.cur[1] = NoItem]
    OBVIOUS
  <2>1. v \in MqttRecord /\ SameBut(t, v, {"cur"}) /\ v.cur[1] = NoItem
    BY <1>1, CurDrops
  <2>2. t.cur[1] = NoItem
    BY <1>2 DEF Unlinked
  <2>3. u = SndNxt(Sent(v, 1, NoItem), 1)
    BY <1>3, <2>2 DEF SendCnf
  <2>4. Sent(v, 1, NoItem) = v
    BY DEF Sent, NoItem, Packet
  <2>5. v.link = t.link
    BY <2>1 DEF SameBut, Fields
  <2>6. u = v
    BY <1>2, <2>3, <2>4, <2>5 DEF Unlinked, SndNxt
  <2>7. /\ v.up = t.up /\ v.session = t.session
        /\ v.tping = t.tping /\ v.usertag = t.usertag /\ v.conning = t.conning
        /\ v.tlist = t.tlist /\ v.pubs = t.pubs /\ v.msgs = t.msgs
        /\ v.pending = t.pending /\ v.buf = t.buf /\ v.wants = t.wants
        /\ v.treconn = t.treconn /\ v.dropped = t.dropped
        /\ v.restart = t.restart /\ v.ip = t.ip
        /\ v.shuting = t.shuting /\ v.cmds = t.cmds
    BY <2>1 DEF SameBut, Fields
  <2> QED
    BY ONLY <1>2, <2>1, <2>5, <2>6, <2>7 DEF Unlinked, Cut
<1>4. CASE ~suc
  <2>1. u = SendCnf(t, 1, FALSE)
    BY <1>4
  <2>2. /\ SameBut(t, u, {"cur", "cmds", "shuting", "buf"})
        /\ u.cur[1] = NoItem /\ u.buf[1] = <<>> /\ u.shuting = TRUE /\ Cut(u)
        /\ \A S : Some(u.cmds, S) /\ SHUT \notin S => Some(t.cmds, S)
        /\ CutOff(u.cmds, Sends, Cuts)
    BY <1>1, <2>1, SendFails
  <2>3. Some(m.cmds, Sends)
    BY <1>1 DEF Sends
  <2>4. m.link[1] = "CONNECTING" => m.pending[1]
    BY <2>3 DEF Unlinked
  <2>5. t.link = m.link /\ t.pending = m.pending
    BY <1>1 DEF SameBut, Fields
  <2>6. t.link[1] = "CONNECTING" => t.pending[1]
    BY <2>4, <2>5
  <2>7. ~Some(t.cmds, Starts)
    BY <1>2, <2>6 DEF Unlinked
  <2>8. ~Some(u.cmds, Starts)
    BY <2>2, <2>7, VerbIs DEF Starts
  <2>9. Ends(u.cmds, Starts)
    BY <2>8, NoEnds
  <2>10. /\ u.link = t.link /\ u.up = t.up /\ u.session = t.session
         /\ u.tping = t.tping /\ u.usertag = t.usertag /\ u.conning = t.conning
         /\ u.tlist = t.tlist /\ u.pubs = t.pubs /\ u.msgs = t.msgs
         /\ u.pending = t.pending /\ u.wants = t.wants
         /\ u.treconn = t.treconn /\ u.dropped = t.dropped
         /\ u.restart = t.restart /\ u.ip = t.ip
    BY <2>2 DEF SameBut, Fields
  <2> QED
    BY ONLY <1>2, <2>2, <2>6, <2>8, <2>9, <2>10 DEF Unlinked
<1> QED
  BY <1>3, <1>4

LEMMA LinkedPopsSend ==
    ASSUME TInv, NEW c, Linked(m, c), Executing("CIPSEND"), NEW t, t = Done,
           NEW suc \in BOOLEAN, NEW u, u = SendCnf(t, 1, suc)
    PROVE  Linked(u, c)
<1>1. /\ Sound(t) /\ t \in MqttRecord /\ SameBut(m, t, {"cmds"})
      /\ Head(m.cmds) \in Verb("CIPSEND")
      /\ \A S : Some(m.cmds, S) <=> Some(t.cmds, S) \/ Head(m.cmds) \in S
      /\ Closing(m.cmds, Closes, Cuts) => Closing(t.cmds, Closes, Cuts)
      /\ 1 \in Clients
  BY DoneFacts, CmdsType
<1>2. Head(m.cmds) \notin Cuts /\ Head(m.cmds) \notin Closes
  BY <1>1, VerbsDiffer DEF Cuts, Closes
<1>3. Cut(t) <=> Cut(m)
  BY <1>1, <1>2 DEF Cut
<1>4. /\ t.link = m.link /\ t.usertag = m.usertag
      /\ t.up = m.up /\ t.conning = m.conning /\ t.pending = m.pending
      /\ t.treconn = m.treconn /\ t.dropped = m.dropped /\ t.cnt = m.cnt
      /\ t.msgs = m.msgs
      /\ t.wants = m.wants /\ t.ip = m.ip /\ t.shuting = m.shuting
      /\ t.session = m.session /\ t.tping = m.tping /\ t.tdisc = m.tdisc
      /\ t.buf = m.buf /\ t.cur = m.cur /\ t.tlist = m.tlist /\ t.pubs = m.pubs
  BY <1>1 DEF SameBut, Fields
<1>5. LinkedCore(m, c) /\ Noticed(m) /\ (Cut(m) \/ Keeps(m, NoItem))
  BY DEF Linked
<1>6. LinkedCore(t, c)
  BY <1>1, <1>3, <1>4, <1>5 DEF LinkedCore
<1>7. Noticed(t) /\ (Keeps(m, NoItem) => Keeps(t, NoItem))
  BY <1>3, <1>4, <1>5 DEF Noticed, Keeps
<1> PICK v : v = [t EXCEPT !.cur[1] = NoItem]
  OBVIOUS
<1> PICK p : p = t.cur[1]
  OBVIOUS
<1>8. /\ v \in MqttRecord /\ SameBut(t, v, {"cur"}) /\ v.cur[1] = NoItem
      /\ Carries(v, p) /\ (Keeps(t, NoItem) => Keeps(v, p)) /\ p \in Packets
  BY <1>1, CurDrops, CmdsType DEF Sound
<1>9. CASE suc
  <2> PICK w : w = Sent(v, 1, p)
    OBVIOUS
  <2>1. LinkedCore(v, c)
    <3>1. {"cur"} \intersect CoreFields = {}
      BY DEF CoreFields
    <3> QED
      BY <1>6, <1>8, <3>1, CoreSame
  <2>2. /\ v.session = t.session /\ v.tping = t.tping /\ v.tdisc = t.tdisc
        /\ v.link = t.link /\ v.cmds = t.cmds /\ v.buf = t.buf
    BY <1>8 DEF SameBut, Fields
  <2>3. Noticed(v) \/ p = DISCONNECT
    BY <1>7, <2>2 DEF Noticed, Cut
  <2>4. Cut(v) \/ Keeps(v, p)
    BY <1>3, <1>5, <1>7, <1>8, <2>2 DEF Cut
  <2>5. Linked(w, c)
    BY <1>8, <2>1, <2>3, <2>4, SentLinked
  <2>6. w \in MqttRecord
    BY <1>1, <1>8, SentSound DEF Sound
  <2>7. u = SndNxt(w, 1)
    BY <1>9 DEF SendCnf
  <2> QED
    BY <2>5, <2>6, <2>7, SndNxtLinked
<1>10. CASE ~suc
  <2>1. u = SendCnf(t, 1, FALSE)
    BY <1>10
  <2>2. /\ SameBut(t, u, {"cur", "cmds", "shuting", "buf"})
        /\ u.cur[1] = NoItem /\ u.shuting = TRUE /\ Cut(u)
        /\ \A S : Some(u.cmds, S) /\ SHUT \notin S => Some(t.cmds, S)
        /\ Closing(t.cmds, Closes, Cuts) => Closing(u.cmds, Closes, Cuts)
    BY <1>1, <2>1, SendFails
  <2>3. /\ u.link = t.link /\ u.usertag = t.usertag
        /\ u.up = t.up /\ u.conning = t.conning /\ u.pending = t.pending
        /\ u.treconn = t.treconn /\ u.cnt = t.cnt /\ u.msgs = t.msgs
        /\ u.wants = t.wants
    BY <2>2 DEF SameBut, Fields
  <2>4. SHUT \notin Starts /\ SHUT \notin Closes
    BY VerbIs DEF Starts, Closes
  <2>5. LinkedCore(u, c)
    BY <1>6, <2>2, <2>3, <2>4 DEF LinkedCore
  <2>6. Sending(u) /\ Noticed(u)
    BY <2>2 DEF Sending, Noticed
  <2> QED
    BY <2>2, <2>5, <2>6 DEF Linked
<1> QED
  BY <1>9, <1>10

LEMMA AnswerSendClient ==
    ASSUME Lone, TInv, Client, AnswerSend
    PROVE  Linked(m', conn'[1]) \/ Unlinked(m', conn'[1])
<1>1. Executing("CIPSEND") /\ conn' = conn /\ Clients = {1} /\ Idle
  BY DEF AnswerSend, Executing, Lone
<1> PICK t : t = Done
  OBVIOUS
<1>2. Head(m.cmds).id = 1
  <2>1. Head(m.cmds) \in Commands /\ Head(m.cmds).verb = "CIPSEND"
    BY <1>1, DoneFacts DEF Verb
  <2> QED
    BY <1>1, <2>1, CommandIs
<1>3. PICK suc \in BOOLEAN : m' = SendCnf(t, 1, suc)
  BY <1>2 DEF AnswerSend
<1> PICK u : u = m'
  OBVIOUS
<1>4. CASE Linked(m, conn[1])
  BY <1>1, <1>3, <1>4, LinkedPopsSend
<1>5. CASE Unlinked(m, conn[1])
  BY <1>1, <1>3, <1>5, UnlinkedSend
<1> QED
  BY <1>4, <1>5 DEF Client

----------------------------------------------------------------------------
(* What the server sends                                                   *)

LEMMA RcvLinked ==
    ASSUME Clients = {1}, TInv, Client, Idle, conn[1] = "open", NEW t, t = Rcv(m, 1)
    PROVE  /\ Sound(t) /\ t \in MqttRecord /\ Linked(t, "open") /\ t.tping[1] = TRUE
           /\ t.session = m.session
<1>1. Sound(m) /\ m \in MqttRecord /\ 1 \in Clients
  BY IdleFacts
<1>2. Linked(m, "open")
  BY DEF Client, Unlinked
<1>3. /\ Sound(t) /\ SameBut(m, t, {"tping"})
      /\ t.tping = [m.tping EXCEPT ![1] = TRUE]
  BY <1>1, RcvIs
<1>4. t.tping[1] = TRUE
  <2>1. DOMAIN m.tping = Clients
    BY <1>1, At
  <2> QED
    BY ONLY <1>1, <1>3, <2>1
<1>5. {"tping"} \intersect CoreFields = {} /\ {"tping"} \intersect Five = {}
  BY DEF CoreFields, Five
<1>6. LinkedCore(t, "open") /\ (Keeps(m, NoItem) => Keeps(t, NoItem))
  BY <1>2, <1>3, <1>5, CoreSame, PassSame DEF Linked, Passes
<1>7. t.cmds = m.cmds /\ t.cur = m.cur /\ t.session = m.session
  BY <1>3 DEF SameBut, Fields
<1>8. Linked(t, "open")
  BY <1>2, <1>4, <1>6, <1>7 DEF Linked, Sending, Noticed, Cut
<1> QED
  BY <1>3, <1>4, <1>7, <1>8 DEF Sound

(* A timer watches the server. *)
LEMMA WatchedLinked ==
    ASSUME NEW t, NEW c, Linked(t, c), t.tping[1] = TRUE,
           NEW u, NEW F, SameBut(t, u, F), F \subseteq {"tdisc", "session"}
    PROVE  Linked(u, c)
<1>1. F \intersect CoreFields = {} /\ F \intersect Five = {}
  BY DEF CoreFields, Five
<1>2. LinkedCore(u, c) /\ (Keeps(t, NoItem) => Keeps(u, NoItem))
  BY <1>1, CoreSame, PassSame DEF Linked, Passes
<1>3. u.cmds = t.cmds /\ u.cur = t.cur /\ u.tping = t.tping
  BY DEF SameBut, Fields
<1> QED
  BY <1>2, <1>3 DEF Linked, Sending, Noticed, Cut

LEMMA ConnAckLinked ==
    ASSUME Clients = {1}, NEW t \in MqttRecord, NEW c, Linked(t, c),
           t.tping[1] = TRUE, NEW suc \in BOOLEAN, NEW u, u = ConnAck(t, 1, suc)
    PROVE  Linked(u, c)
<1>1. CASE ~suc
  BY <1>1 DEF ConnAck
<1>2. CASE suc
  <2> PICK v : v = [t EXCEPT !.session[1] = TRUE]
    OBVIOUS
  <2>1. 1 \in Clients
    OBVIOUS
  <2>2. v \in MqttRecord
    BY ONLY <2>1, t \in MqttRecord, v = [t EXCEPT !.session[1] = TRUE]
       DEF MqttRecord, Flags
  <2>3. SameBut(t, v, {"session"})
    BY ONLY t \in MqttRecord, v = [t EXCEPT !.session[1] = TRUE], RecordFields
       DEF SameBut, Fields
  <2>4. Linked(v, c)
    BY <2>3, WatchedLinked
  <2>5. u = Rmv(v, 1, CONNECT)
    BY <1>2 DEF ConnAck
  <2>6. RmvShape(v, u, 1, CONNECT) /\ Passes(v, u, NoItem, NoItem)
    BY ONLY <2>2, <2>5, RmvConnectIs
  <2>7. SameBut(v, u, {"tlist"})
    BY <2>6 DEF RmvShape
  <2>8. SameBut(v, u, {"tlist", "msgs", "pubs"}) /\ u.msgs = v.msgs
    BY <2>7 DEF SameBut, Fields
  <2>9. /\ LinkedCore(v, c) /\ Sending(v) /\ Noticed(v) /\ ~Some(v.msgs, Asks)
        /\ Cut(v) \/ Keeps(u, NoItem)
    BY <2>4, <2>6 DEF Linked, LinkedCore, Passes
  <2> QED
    BY <2>8, <2>9, LinkedData
<1> QED
  BY <1>1, <1>2

LEMMA PubAckLinked ==
    ASSUME Clients = {1}, NEW t \in MqttRecord, Carries(t, NoItem), NEW c, Linked(t, c),
           NEW p \in Packets, NEW u, u = PubAck(t, 1, p)
    PROVE  Linked(u, c)
<1>1. \/ u = t
      \/ \E w : /\ RmvShape(t, w, 1, p) /\ Matches(t.tlist, 1, p) # {}
                /\ TellShape(w, u, p)
  BY PubAckIs
<1>2. CASE u = t
  BY <1>2
<1>3. CASE u # t
  <2>1. PICK w : /\ RmvShape(t, w, 1, p) /\ Matches(t.tlist, 1, p) # {}
                 /\ TellShape(w, u, p)
    BY <1>1, <1>3
  <2>2. SameBut(t, w, {"tlist"}) /\ (Keeps(t, NoItem) => Keeps(w, p))
    BY <2>1 DEF RmvShape, Passes
  <2>3. SameBut(w, u, {"pubs"}) /\ (Keeps(w, p) => Keeps(u, NoItem))
    BY <2>1 DEF TellShape
  <2>4. SameBut(t, u, {"tlist", "msgs", "pubs"}) /\ u.msgs = t.msgs
    BY ONLY <2>2, <2>3 DEF SameBut, Fields
  <2>5. /\ LinkedCore(t, c) /\ Sending(t) /\ Noticed(t) /\ ~Some(t.msgs, Asks)
        /\ Cut(t) \/ Keeps(u, NoItem)
    BY <2>2, <2>3 DEF Linked, LinkedCore
  <2> QED
    BY <2>4, <2>5, LinkedData
<1> QED
  BY <1>2, <1>3

LEMMA ServerAnswersClient ==
    ASSUME Lone, TInv, Client, ServerAnswers
    PROVE  Linked(m', conn'[1])
<1>1. Idle /\ conn' = conn /\ Clients = {1} /\ conn[1] = "open"
  BY DEF ServerAnswers, Lone
<1> PICK t : t = Rcv(m, 1)
  OBVIOUS
<1>2. PICK p \in srv[1] : \E suc \in BOOLEAN :
        \/ m' = ConnAck(t, 1, suc) \/ m' = PingRsp(t, 1) \/ m' = PubAck(t, 1, p)
  BY <1>1 DEF ServerAnswers
<1>3. p \in Packets
  BY <1>1, <1>2 DEF TInv, Servers
<1>4. /\ Sound(t) /\ t \in MqttRecord /\ Linked(t, "open") /\ t.tping[1] = TRUE
      /\ Carries(t, NoItem) /\ 1 \in Clients
  BY <1>1, RcvLinked DEF Sound
<1> PICK u : u = m'
  OBVIOUS
<1>5. ASSUME NEW suc \in BOOLEAN, u = ConnAck(t, 1, suc) PROVE Linked(u, "open")
  BY <1>1, <1>4, <1>5, ConnAckLinked
<1>6. ASSUME u = PingRsp(t, 1) PROVE Linked(u, "open")
  <2>1. SameBut(t, u, {"tdisc"})
    BY <1>4, <1>6, PingRspIs
  <2> QED
    BY <1>4, <2>1, WatchedLinked
<1>7. ASSUME u = PubAck(t, 1, p) PROVE Linked(u, "open")
  BY <1>1, <1>3, <1>4, <1>7, PubAckLinked
<1> QED
  BY <1>1, <1>2, <1>5, <1>6, <1>7

LEMMA ServerPublishesClient ==
    ASSUME Lone, TInv, Client, ServerPublishes
    PROVE  Linked(m', conn'[1])
<1> PICK t : t = Rcv(m, 1)
  OBVIOUS
<1>1. /\ Idle /\ conn' = conn /\ Clients = {1} /\ conn[1] = "open"
      /\ m' = Send(t, 1, PUBACK)
  BY DEF ServerPublishes, SvrPublish, Lone
<1>2. t \in MqttRecord /\ Linked(t, "open")
  BY <1>1, RcvLinked
<1>3. PUBACK \in Packets /\ \A n \in Nat : PUBACK \notin Of(n)
  BY PacketType, NotOf
<1>4. /\ LinkedCore(t, "open") /\ Sending(t) /\ Noticed(t)
      /\ t.link[1] \in {"CONNECTED", "DISCONNECTING"}
  BY <1>2 DEF Linked, LinkedCore
<1>5. Cut(t) \/ Keeps(t, PUBACK)
  BY <1>2, <1>3, KeepsPlain DEF Linked
<1>6. CASE t.link[1] = "CONNECTED"
  BY <1>1, <1>2, <1>3, <1>4, <1>5, <1>6, LinkedSend
<1>7. CASE t.link[1] = "DISCONNECTING"
  <2>1. m' = t
    BY <1>1, <1>2, <1>3, <1>7, SendRefused
  <2> QED
    BY <1>1, <1>2, <2>1
<1> QED
  BY <1>4, <1>6, <1>7

----------------------------------------------------------------------------
(* The invariant                                                           *)

LEMMA ClientInit ==
    ASSUME Lone, Init PROVE Client
BY StartUnlinked DEF Init, Client, Lone

LEMMA ClientStep ==
    ASSUME Lone, TInv, Client, [Next]_vars PROVE Client'
<1> SUFFICES Linked(m', conn'[1]) \/ Unlinked(m', conn'[1])
  BY DEF Client
<1>1. Clients = {1}
  BY DEF Lone
<1>2. CASE UNCHANGED vars
  BY <1>2 DEF Client, vars
<1>3. ASSUME ProgramConnects PROVE Linked(m', conn'[1]) \/ Unlinked(m', conn'[1])
  BY <1>3, ProgramConnectsClient
<1>4. ASSUME ProgramDisconnects PROVE Linked(m', conn'[1])
  BY <1>4, ProgramDisconnectsClient
<1>5. ASSUME Publish PROVE Linked(m', conn'[1]) \/ Unlinked(m', conn'[1])
  BY <1>5, PublishClient
<1>6. ASSUME Message PROVE Linked(m', conn'[1]) \/ Unlinked(m', conn'[1])
  BY <1>6, MessageClient
<1>7. ASSUME DupTimer PROVE Linked(m', conn'[1])
  BY <1>7, DupTimerClient
<1>8. ASSUME ReconnTimer PROVE Unlinked(m', conn'[1])
  BY <1>8, ReconnTimerClient
<1>9. ASSUME PingTimer PROVE Linked(m', conn'[1])
  BY <1>9, PingTimerClient
<1>10. ASSUME DiscTimer PROVE Linked(m', conn'[1])
  BY <1>10, DiscTimerClient
<1>11. ASSUME DatInactive PROVE Linked(m', conn'[1]) \/ Unlinked(m', conn'[1])
  BY <1>11, DatInactiveClient
<1>12. ASSUME Restart PROVE Unlinked(m', conn'[1])
  BY <1>1, <1>12, StartUnlinked DEF Restart
<1>13. ASSUME NetworkReady PROVE Unlinked(m', conn'[1]) \/ Linked(m', conn'[1])
  BY <1>13, NetworkReadyClient
<1>14. ASSUME Transmit PROVE m' = m /\ conn' = conn
  BY <1>14 DEF Transmit
<1>15. ASSUME AnswerStart PROVE Unlinked(m', conn'[1])
  BY <1>1, <1>15, AnswerStartClient
<1>16. ASSUME AnswerSend PROVE Linked(m', conn'[1]) \/ Unlinked(m', conn'[1])
  BY <1>16, AnswerSendClient
<1>17. ASSUME AnswerClose PROVE Unlinked(m', conn'[1])
  BY <1>1, <1>17, AnswerCloseClient
<1>18. ASSUME AnswerShut PROVE Unlinked(m', conn'[1])
  BY <1>1, <1>18, AnswerShutClient
<1>19. ASSUME Connects PROVE Linked(m', conn'[1]) \/ Unlinked(m', conn'[1])
  BY <1>1, <1>19, ConnectsClient
<1>20. ASSUME PeerCloses PROVE Unlinked(m', conn'[1])
  BY <1>20, PeerClosesClient
<1>21. ASSUME NetworkLost PROVE Linked(m', conn'[1]) \/ Unlinked(m', conn'[1])
  BY <1>21, NetworkLostClient
<1>22. ASSUME ServerAnswers PROVE Linked(m', conn'[1])
  BY <1>22, ServerAnswersClient
<1>23. ASSUME ServerPublishes PROVE Linked(m', conn'[1])
  BY <1>23, ServerPublishesClient
<1> QED
  BY <1>2, <1>3, <1>4, <1>5, <1>6, <1>7, <1>8, <1>9, <1>10, <1>11, <1>12, <1>13,
     <1>14, <1>15, <1>16, <1>17, <1>18, <1>19, <1>20, <1>21, <1>22, <1>23
     DEF Next, Client

(* A command of the queue is pending. *)
LEMMA VerbPends ==
    ASSUME Clients = {1}, NEW t \in MqttRecord, NEW v \in {"CIPSTART", "CIPCLOSE"},
           Some(t.cmds, Verb(v))
    PROVE  Pending(t, Cmd(v, 1))
<1>1. t.cmds \in Seq(Commands)
  BY CmdsType
<1>2. PICK k \in 1..Len(t.cmds) : t.cmds[k] \in Verb(v)
  BY DEF Some
<1>3. t.cmds[k] = Cmd(v, 1)
  <2>1. t.cmds[k] \in Commands /\ t.cmds[k].verb = v
    BY <1>2 DEF Verb
  <2>2. t.cmds[k].id = 1
    BY <2>1, CommandIs
  <2> QED
    BY <2>1, <2>2, CommandIs
<1>4. DOMAIN t.cmds = 1..Len(t.cmds)
  BY <1>1, LenProperties
<1> QED
  BY <1>2, <1>3, <1>4 DEF Pending, ToSet

(* What is kept for publish n of a connected client *)
LEMMA KeptIs ==
    ASSUME Clients = {1}, NEW t \in MqttRecord, Keeps(t, NoItem), NEW n \in Nat,
           Untold1(t.pubs, n)
    PROVE  \/ \E p \in Buffered(t, 1) : p.kind \in {"PUB0", "PUB1"} /\ p.n = n
           \/ \E e \in ToSet(t.tlist) : e.packet = Packet("PUB1", n)
           \/ \E e \in ToSet(t.msgs) :
                 e[1] = "MQTT_DUP_FAIL" /\ e[3] = Packet("PUB1", n)
<1>1. ~None(t.buf, t.cur, t.tlist, t.msgs, n)
  BY NotOf DEF Keeps, Kept
<1>2. /\ t.buf[1] \in Seq(Packets) /\ t.cur[1] \in Packets
      /\ t.tlist \in Seq(Entries) /\ t.msgs \in Seq(Messages)
  BY CmdsType
<1>3. \A p \in Repeated : p \in Of(n) => p = Packet("PUB1", n)
  <2>1. \A j \in Nat : Packet("PUB1", j).n = j
    BY DEF Packet
  <2>2. CONNECT \notin Of(n)
    BY NotOf
  <2>3. \A p : p \in Of(n) => p.n = n
    BY DEF Of
  <2> QED
    BY ONLY <2>1, <2>2, <2>3 DEF Repeated
<1>4. CASE Some(t.buf[1], Of(n))
  <2>1. PICK k \in 1..Len(t.buf[1]) : t.buf[1][k] \in Of(n)
    BY <1>4 DEF Some
  <2>2. t.buf[1][k] \in Buffered(t, 1)
    BY <1>2, LenProperties DEF Buffered, ToSet
  <2> QED
    BY <2>1, <2>2 DEF Of
<1>5. CASE t.cur[1] \in Of(n)
  <2>1. t.cur[1] \in Buffered(t, 1)
    BY DEF Buffered
  <2> QED
    BY <1>5, <2>1 DEF Of
<1>6. CASE Some(t.tlist, DupOf(n))
  <2>1. PICK k \in 1..Len(t.tlist) : t.tlist[k] \in DupOf(n)
    BY <1>6 DEF Some
  <2>2. t.tlist[k] \in ToSet(t.tlist)
    BY <1>2, LenProperties DEF ToSet
  <2>3. t.tlist[k].packet = Packet("PUB1", n)
    BY <1>3, <2>1 DEF DupOf, Entries
  <2> QED
    BY <2>2, <2>3
<1>7. CASE Some(t.msgs, FailOf(n))
  <2>1. PICK k \in 1..Len(t.msgs) : t.msgs[k] \in FailOf(n)
    BY <1>7 DEF Some
  <2>2. t.msgs[k] \in ToSet(t.msgs)
    BY <1>2, LenProperties DEF ToSet
  <2>3. t.msgs[k][1] = "MQTT_DUP_FAIL" /\ t.msgs[k][3] = Packet("PUB1", n)
    BY <1>3, <2>1 DEF FailOf, Messages
  <2> QED
    BY <2>2, <2>3
<1> QED
  BY <1>1, <1>4, <1>5, <1>6, <1>7 DEF None, Here

LEMMA ClientInv ==
    ASSUME Lone, TInv, Client PROVE Inv
<1>1. Clients = {1} /\ m \in MqttRecord
  BY DEF Lone, TInv, Sound
<1>2. TypeOK /\ ToldOnce
  BY TInvTold
<1>3. SessionHasLink
  BY <1>1 DEF SessionHasLink, Client, Linked, LinkedCore, Unlinked
<1>4. ConningIsTrue
  BY <1>1 DEF ConningIsTrue, Client, Linked, LinkedCore, Unlinked
<1>5. NeverStuck
  <2> SUFFICES ASSUME m.wants[1]
               PROVE  \/ Dropped(1) \/ m.restart \/ m.treconn[1] \/ Trying(1)
                      \/ m.link[1] = "CONNECTED"
                      \/ m.link[1] = "DISCONNECTING" /\ Pending(m, Cmd("CIPCLOSE", 1))
    BY <1>1 DEF NeverStuck
  <2>1. CASE Linked(m, conn[1])
    <3>1. m.link[1] = "DISCONNECTING" => Some(m.cmds, Closes)
      BY <2>1 DEF Linked, LinkedCore, Closing, Some
    <3>2. m.link[1] = "DISCONNECTING" => Pending(m, Cmd("CIPCLOSE", 1))
      BY <1>1, <3>1, VerbPends DEF Closes
    <3> QED
      BY <2>1, <3>2 DEF Linked, LinkedCore
  <2>2. CASE Unlinked(m, conn[1])
    <3>1. Some(m.cmds, Starts) => Pending(m, Cmd("CIPSTART", 1))
      BY <1>1, VerbPends DEF Starts
    <3> QED
      BY <2>2, <3>1 DEF Unlinked, Trying, Dropped
  <2> QED
    BY <2>1, <2>2 DEF Client
<1>6. PublishIsHeld
  <2> SUFFICES ASSUME NEW n \in DOMAIN m.pubs, m.pubs[n].told = "no"
               PROVE  \/ Pending(m, SHUT)
                      \/ \E p \in Buffered(m, m.pubs[n].client) :
                            p.kind \in {"PUB0", "PUB1"} /\ p.n = n
                      \/ \E e \in ToSet(m.tlist) : e.packet = Packet("PUB1", n)
                      \/ \E e \in ToSet(m.msgs) :
                            e[1] = "MQTT_DUP_FAIL" /\ e[3] = Packet("PUB1", n)
    BY DEF PublishIsHeld
  <2>1. m.pubs \in Seq(Publishes)
    BY <1>1, CmdsType
  <2>2. n \in Nat /\ Untold1(m.pubs, n)
    BY <2>1, LenProperties DEF Untold1
  <2>3. m.pubs[n].client = 1
    BY <1>1, <2>1, <2>2, PubClient
  <2>4. Linked(m, conn[1])
    BY <2>2 DEF Client, Unlinked
  <2>5. CASE Cut(m)
    BY <1>1, <2>5, CutIsPending
  <2>6. CASE Keeps(m, NoItem)
    BY <1>1, <2>2, <2>3, <2>6, KeptIs
  <2> QED
    BY <2>4, <2>5, <2>6 DEF Linked
<1>7. DeadIsNoticed
  <2> SUFFICES ASSUME m.session[1]
               PROVE  \/ m.tping[1] \/ m.tdisc[1] \/ DISCONNECT \in Buffered(m, 1)
                      \/ m.link[1] = "DISCONNECTING" \/ Pending(m, SHUT)
    BY <1>1 DEF DeadIsNoticed
  <2>1. Noticed(m)
    BY DEF Client, Linked, Unlinked
  <2>2. Some(m.buf[1], {DISCONNECT}) => DISCONNECT \in Buffered(m, 1)
    <3>1. m.buf[1] \in Seq(Packets)
      BY <1>1, CmdsType
    <3> QED
      BY <3>1, LenProperties DEF Some, Buffered, ToSet
  <2>3. m.cur[1] = DISCONNECT => DISCONNECT \in Buffered(m, 1)
    BY DEF Buffered
  <2> QED
    BY <1>1, <2>1, <2>2, <2>3, CutIsPending DEF Noticed
<1> QED
  BY <1>2, <1>3, <1>4, <1>5, <1>6, <1>7 DEF Inv

(* A program with one client, whose modem and server spare it the special  *)
(* cases: what mqtt.lua says of its socket is so, no publish is forgotten  *)
(* while the connection lives, a session has a timer or a disconnect that  *)
(* notices a dead server, and a client that the program wants connected is, *)
(* or something is under way that connects it - unless the server closed   *)
(* its connection while discing was set (Dropped).  The server may close   *)
(* at any time, but for one case ("midsend"): during a send, discing set.  *)
THEOREM ClientIsSound ==
    ASSUME Clients = {1}, Cases = {}
    PROVE  Spec => []Inv
<1>1. Lone
  BY DEF Lone
<1>2. Init => TInv /\ Client
  BY <1>1, TInvInit, ClientInit
<1>3. TInv /\ Client /\ [Next]_vars => TInv' /\ Client'
  BY <1>1, TInvStep, ClientStep
<1>4. TInv /\ Client => Inv
  BY <1>1, ClientInv
<1> QED
  BY <1>2, <1>3, <1>4, PTL DEF Spec
=============================================================================
