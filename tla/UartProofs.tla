----------------------------- MODULE UartProofs -----------------------------
(***************************************************************************)
(* Proofs about the two receive buffers, that of the virtual AT port       *)
(* (VatRx) and that of a physical UART (PhyUart), for buffers of every     *)
(* size and any amount of data.  Both are cyclic buffers with the flags of *)
(* cycle_queue.c; what a segment of one holds is said once for both.       *)
(*                                                                         *)
(* In VatRx the flags are consistent only because the semaphore keeps the  *)
(* two loops apart (Exclusion), and a message is sent for every byte only  *)
(* because the flag empty, once read by RILAPI_ReceiveData, stays true of  *)
(* the time before its own bytes (AskedFor).  In PhyUart it is the mask of *)
(* the interrupt, and for the host UART the assumption ~HostPreempts, that *)
(* keeps a burst out of QueueDelete (Deletion).                            *)
(***************************************************************************)
EXTENDS VatRx, PhyUart, SequenceTheorems, WellFoundedInduction, TLAPS

-----------------------------------------------------------------------------
(* The virtual AT port *)

(* An index taken one further is again an index of the buffer. *)
LEMMA SuccInBuffer ==
    ASSUME NEW i \in 0..(Size - 1)
    PROVE  Succ(i) \in 0..(Size - 1)
BY CycleQueueAssumption DEF Succ

(* A call that is putting bytes into a buffer that is still empty found it *)
(* empty, and the Lua task waits with its read buffer used up.             *)
AskedFor ==
    /\ mpc = "insert" /\ empty => needMsg
    /\ lpc = "wait" => rbuf = <<>>

IInv == TypeOK /\ Exclusion /\ FlagsTell /\ AskedFor /\ NoLostWakeup

(* A refill that got nothing found the buffer empty. *)
LEMMA NothingMeansEmpty ==
    ASSUME TypeOK, DeleteEnd, rbuf = <<>>
    PROVE  empty
BY CycleQueueAssumption DEF TypeOK, DeleteEnd

LEMMA InitInv == Init => IInv
<1> SUFFICES ASSUME Init PROVE IInv
  OBVIOUS
<1> USE CycleQueueAssumption DEF Init
<1>1. TypeOK
  BY DEF TypeOK
<1>2. Exclusion /\ FlagsTell /\ AskedFor /\ NoLostWakeup
  BY DEF Exclusion, FlagsTell, Deleting, AskedFor, NoLostWakeup
<1> QED
  BY <1>1, <1>2 DEF IInv

LEMMA TypeStep == TypeOK /\ [Next]_vars => TypeOK'
<1> SUFFICES ASSUME TypeOK, [Next]_vars PROVE TypeOK'
  OBVIOUS
<1> USE CycleQueueAssumption DEF TypeOK, queue, modem, lua
<1>1. CASE Receive
  BY <1>1 DEF Receive
<1>2. CASE InsertByte
  <2>1. Succ(head) \in 0..(Size - 1)
    BY SuccInBuffer
  <2>2. sent - left + 1 \in Nat
    OBVIOUS
  <2>3. buf' \in [0..(Size - 1) -> Nat]
    BY <1>2, <2>2 DEF InsertByte
  <2>4. head' \in 0..(Size - 1) /\ full' \in BOOLEAN /\ overflow' \in BOOLEAN
    BY <1>2, <2>1 DEF InsertByte
  <2>5. left' \in Nat /\ sent' = sent /\ left' <= sent'
    BY <1>2 DEF InsertByte
  <2>6. /\ UNCHANGED <<tail, sem, mpc, needMsg, msgs, lpc, part, rbuf, got>>
        /\ empty' = FALSE
    BY <1>2 DEF InsertByte
  <2> QED
    BY <2>3, <2>4, <2>5, <2>6
<1>3. CASE InsertEnd
  BY <1>3 DEF InsertEnd
<1>4. CASE SendMessage
  BY <1>4 DEF SendMessage
<1>5. CASE TakeMessage
  BY <1>5 DEF TakeMessage
<1>6. CASE ReadByte
  <2>1. Head(rbuf) \in Nat /\ Tail(rbuf) \in Seq(Nat)
    BY <1>6 DEF ReadByte
  <2> QED
    BY <1>6, <2>1 DEF ReadByte
<1>7. CASE Refill
  BY <1>7 DEF Refill
<1>8. CASE DeleteByte
  <2>1. Succ(tail) \in 0..(Size - 1)
    BY <1>2, SuccInBuffer
  <2>2. Append(rbuf, buf[tail]) \in Seq(Nat)
    OBVIOUS
  <2> QED
    BY <1>8, <2>1, <2>2 DEF DeleteByte
<1>9. CASE DeleteEnd
  BY <1>9 DEF DeleteEnd
<1>10. CASE UNCHANGED vars
  BY <1>10 DEF vars
<1> QED
  BY <1>1, <1>2, <1>3, <1>4, <1>5, <1>6, <1>7, <1>8, <1>9, <1>10
     DEF Next, Modem, Lua

(* The semaphore is taken where it is free and held to the end of a loop.  *)
LEMMA ExclusionStep == TypeOK /\ Exclusion /\ [Next]_vars => Exclusion'
<1> SUFFICES ASSUME TypeOK, Exclusion, [Next]_vars PROVE Exclusion'
  OBVIOUS
<1>1. CASE Modem
  BY <1>1 DEF Modem, Receive, InsertByte, InsertEnd, SendMessage, Exclusion,
              TypeOK, lua
<1>2. CASE Lua
  BY <1>2 DEF Lua, TakeMessage, ReadByte, Refill, DeleteByte, DeleteEnd,
              Exclusion, TypeOK, modem
<1>3. CASE UNCHANGED vars
  BY <1>3 DEF vars, modem, lua, Exclusion
<1> QED
  BY <1>1, <1>2, <1>3 DEF Next

(* The flags: each loop is alone with the buffer. *)
LEMMA FlagsStep ==
    TypeOK /\ Exclusion /\ FlagsTell /\ [Next]_vars => FlagsTell'
<1> SUFFICES ASSUME TypeOK, Exclusion, FlagsTell, [Next]_vars
             PROVE  FlagsTell'
  OBVIOUS
<1>1. CASE Receive
  BY <1>1 DEF Receive, FlagsTell, Deleting, queue, lua
<1>2. CASE InsertByte
  <2>1. ~Deleting /\ ~Deleting'
    BY <1>2 DEF InsertByte, Exclusion, Deleting, lua
  <2>2. ~empty' /\ (overflow' => full') /\ (head' = tail' => full')
    BY <1>2, <2>1 DEF InsertByte, FlagsTell, TypeOK
  <2>3. full' => overflow' \/ head' = tail'
    BY <1>2, <2>1 DEF InsertByte, FlagsTell, TypeOK
  <2>4. mpc' = "insert"
    BY <1>2 DEF InsertByte
  <2> QED
    BY <2>1, <2>2, <2>3, <2>4 DEF FlagsTell
<1>3. CASE InsertEnd
  BY <1>3 DEF InsertEnd, Exclusion, FlagsTell, Deleting, TypeOK, lua
<1>4. CASE SendMessage
  BY <1>4 DEF SendMessage, FlagsTell, Deleting, queue, lua
<1>5. CASE TakeMessage
  BY <1>5 DEF TakeMessage, FlagsTell, Deleting, queue, modem
<1>6. CASE ReadByte
  BY <1>6 DEF ReadByte, FlagsTell, Deleting, queue, modem
<1>7. CASE Refill
  BY <1>7 DEF Refill, FlagsTell, Deleting, queue, modem
<1>8. CASE DeleteByte
  <2>1. Append(rbuf, buf[tail]) # <<>>
    BY DEF TypeOK
  <2>2. Deleting'
    BY <1>8, <2>1 DEF DeleteByte, Deleting
  <2>3. (empty' => head' = tail') /\ (head' = tail' => empty')
    BY <1>8 DEF DeleteByte, TypeOK
  <2>4. overflow' => full'
    BY <1>8 DEF DeleteByte, FlagsTell
  <2> QED
    BY <2>2, <2>3, <2>4 DEF FlagsTell
<1>9. CASE DeleteEnd
  <2>1. ~Deleting' /\ head' = head /\ tail' = tail /\ empty' = empty
    BY <1>9 DEF DeleteEnd, Deleting
  <2>2. mpc' # "insert" /\ mpc # "insert"
    BY <1>9 DEF DeleteEnd, Exclusion, modem
  <2>3. CASE rbuf = <<>>
    <3>1. ~Deleting /\ full' = full /\ overflow' = overflow
      BY <1>9, <2>3 DEF DeleteEnd, Deleting, TypeOK
    <3> QED
      BY <2>1, <2>2, <3>1 DEF FlagsTell
  <2>4. CASE rbuf # <<>>
    <3>1. Deleting /\ ~full' /\ ~overflow'
      BY <1>9, <2>4 DEF DeleteEnd, Deleting, FlagsTell
    <3> QED
      BY <2>1, <3>1 DEF FlagsTell
  <2> QED
    BY <2>3, <2>4
<1>10. CASE UNCHANGED vars
  BY <1>10 DEF vars, queue, modem, lua, FlagsTell, Deleting
<1> QED
  BY <1>1, <1>2, <1>3, <1>4, <1>5, <1>6, <1>7, <1>8, <1>9, <1>10
     DEF Next, Modem, Lua

(* The messages: empty only becomes true when the Lua task is at work. *)
LEMMA WakeupStep ==
    TypeOK /\ Exclusion /\ AskedFor /\ NoLostWakeup /\ [Next]_vars
        => AskedFor' /\ NoLostWakeup'
<1> SUFFICES ASSUME TypeOK, Exclusion, AskedFor, NoLostWakeup, [Next]_vars
             PROVE  AskedFor' /\ NoLostWakeup'
  OBVIOUS
<1> USE DEF AskedFor, NoLostWakeup
<1>1. CASE Receive
  BY <1>1 DEF Receive, queue, lua
<1>2. CASE InsertByte
  BY <1>2 DEF InsertByte, lua
<1>3. CASE InsertEnd
  BY <1>3 DEF InsertEnd, lua
<1>4. CASE SendMessage
  BY <1>4 DEF SendMessage, queue, lua, TypeOK
<1>5. CASE TakeMessage
  BY <1>5 DEF TakeMessage, queue, modem
<1>6. CASE ReadByte
  BY <1>6 DEF ReadByte, queue, modem
<1>7. CASE Refill
  BY <1>7 DEF Refill, queue, modem
<1>8. CASE DeleteByte
  BY <1>8 DEF DeleteByte, Exclusion, modem
<1>9. CASE DeleteEnd
  <2>1. rbuf = <<>> => empty
    BY <1>9, NothingMeansEmpty
  <2> QED
    BY <1>9, <2>1 DEF DeleteEnd, Exclusion, modem
<1>10. CASE UNCHANGED vars
  BY <1>10 DEF vars, queue, modem, lua
<1> QED
  BY <1>1, <1>2, <1>3, <1>4, <1>5, <1>6, <1>7, <1>8, <1>9, <1>10
     DEF Next, Modem, Lua

LEMMA Invariance == Spec => []IInv
<1>1. IInv /\ [Next]_vars => IInv'
  BY TypeStep, ExclusionStep, FlagsStep, WakeupStep DEF IInv
<1> QED
  BY InitInv, <1>1, PTL DEF Spec

(* The indices of the buffer never leave it, and every variable keeps its  *)
(* type.                                                                   *)
THEOREM TypeCorrect == Spec => []TypeOK
<1>1. IInv => TypeOK
  BY DEF IInv
<1> QED
  BY Invariance, <1>1, PTL

(* The flags of the buffer tell an empty one from a full one, and the two  *)
(* loops exclude each other (cycle_queue.c 52-125).                        *)
THEOREM BufferIsSound == Spec => []Inv
<1>1. IInv => Inv
  BY DEF IInv, Inv
<1> QED
  BY Invariance, <1>1, PTL

(* Bytes in the buffer always have a reader or a message that wakes it. *)
THEOREM NoWakeupLost == Spec => []NoLostWakeup
<1>1. IInv => NoLostWakeup
  BY DEF IInv
<1> QED
  BY Invariance, <1>1, PTL

----------------------------------------------------------------------------
(* The refinement.  Segment is what n bytes of a cyclic buffer b hold from *)
(* index o on, as a sequence.                                              *)

Segment(b, o, n) == [k \in 1..n |-> b[(o + k - 1) % Size]]

Buffers == [0..(Size - 1) -> Nat]

LEMMA Wrap ==
    ASSUME NEW x \in Nat, x < Size + Size
    PROVE  x % Size = IF x < Size THEN x ELSE x - Size
BY CycleQueueAssumption

LEMMA SuccIs ==
    ASSUME NEW i \in 0..(Size - 1)
    PROVE  Succ(i) = IF i = Size - 1 THEN 0 ELSE i + 1
BY CycleQueueAssumption DEF Succ

LEMMA SegmentType ==
    ASSUME NEW b \in Buffers, NEW o \in 0..(Size - 1), NEW n \in 0..Size
    PROVE  /\ Segment(b, o, n) \in Seq(Nat) /\ Len(Segment(b, o, n)) = n
           /\ \A k \in 1..n :
                /\ Segment(b, o, n)[k] = b[(o + k - 1) % Size]
                /\ (o + k - 1) % Size \in 0..(Size - 1)
<1>1. Size \in Nat /\ n \in Nat
  BY CycleQueueAssumption
<1>2. \A k \in 1..n : (o + k - 1) % Size \in 0..(Size - 1)
  <2> TAKE k \in 1..n
  <2>1. o + k - 1 \in Nat /\ o + k - 1 < Size + Size
    BY <1>1
  <2> QED
    BY <2>1, Wrap, CycleQueueAssumption
<1>3. \A k \in 1..n : b[(o + k - 1) % Size] \in Nat
  BY <1>2 DEF Buffers
<1> QED
  BY <1>1, <1>2, <1>3 DEF Segment

(* The oldest byte is taken. *)
LEMMA SegmentTail ==
    ASSUME NEW b \in Buffers, NEW o \in 0..(Size - 1), NEW n \in 1..Size
    PROVE  /\ Segment(b, o, n) # <<>>
           /\ Tail(Segment(b, o, n)) = Segment(b, Succ(o), n - 1)
<1> DEFINE s == Segment(b, o, n)
           r == Segment(b, Succ(o), n - 1)
<1>0. Size \in Nat /\ n \in 0..Size /\ n - 1 \in 0..Size /\ n \in Nat
  BY CycleQueueAssumption
<1>1. s \in Seq(Nat) /\ Len(s) = n /\ \A k \in 1..n : s[k] = b[(o + k - 1) % Size]
  BY <1>0, SegmentType
<1>2. Succ(o) \in 0..(Size - 1)
  BY SuccInBuffer
<1>3. /\ r \in Seq(Nat) /\ Len(r) = n - 1
      /\ \A k \in 1..(n - 1) : r[k] = b[(Succ(o) + k - 1) % Size]
  BY <1>0, <1>2, SegmentType
<1> HIDE DEF s, r
<1>4. /\ s # <<>> /\ Tail(s) \in Seq(Nat) /\ Len(Tail(s)) = n - 1
      /\ \A k \in 1..(n - 1) : Tail(s)[k] = s[k + 1]
  <2>1. s # <<>>
    BY <1>0, <1>1
  <2> QED
    BY <1>0, <1>1, <2>1, HeadTailProperties
<1>5. \A k \in 1..(n - 1) : Tail(s)[k] = r[k]
  <2> TAKE k \in 1..(n - 1)
  <2>1. k + 1 \in 1..n /\ o + (k + 1) - 1 = o + k
    BY <1>0
  <2>2. Tail(s)[k] = b[(o + k) % Size]
    BY <1>1, <1>4, <2>1
  <2>3. o + k \in Nat /\ o + k < Size + Size
        /\ Succ(o) + k - 1 \in Nat /\ Succ(o) + k - 1 < Size + Size
    BY <1>0, <1>2
  <2>4. (o + k) % Size = (Succ(o) + k - 1) % Size
    <3>1. CASE o = Size - 1
      <4>1. Succ(o) = 0 /\ o + k = Size + (k - 1) /\ k - 1 < Size /\ k - 1 \in Nat
        BY <1>0, <3>1, SuccIs
      <4>2. (o + k) % Size = k - 1
        BY <1>0, <2>3, <4>1, Wrap
      <4>3. Succ(o) + k - 1 = k - 1
        BY <1>0, <4>1
      <4>4. (k - 1) % Size = k - 1
        BY <1>0, <4>1, Wrap
      <4> QED
        BY <4>2, <4>3, <4>4
    <3>2. CASE o # Size - 1
      BY <1>0, <3>2, SuccIs
    <3> QED
      BY <3>1, <3>2
  <2> QED
    BY <1>3, <2>2, <2>4
<1>6. Tail(s) = r
  BY <1>3, <1>4, <1>5, SeqEqual
<1> QED
  BY <1>4, <1>6 DEF s, r

(* A byte is put behind the newest. *)
LEMMA SegmentAppend ==
    ASSUME NEW b \in Buffers, NEW c \in Buffers,
           NEW o \in 0..(Size - 1), NEW n \in 0..(Size - 1),
           NEW x \in Nat, c[(o + n) % Size] = x,
           \A i \in 0..(Size - 1) : i # (o + n) % Size => c[i] = b[i]
    PROVE  Append(Segment(b, o, n), x) = Segment(c, o, n + 1)
<1> DEFINE s == Segment(b, o, n)
           r == Segment(c, o, n + 1)
           a == Append(s, x)
<1>0. Size \in Nat /\ n \in Nat /\ n \in 0..Size /\ n + 1 \in 0..Size
  BY CycleQueueAssumption
<1>1. /\ s \in Seq(Nat) /\ Len(s) = n
      /\ \A k \in 1..n : s[k] = b[(o + k - 1) % Size]
                         /\ (o + k - 1) % Size \in 0..(Size - 1)
  BY <1>0, SegmentType
<1>2. o + n \in Nat /\ o + n < Size + Size
  BY <1>0
<1>5. /\ r \in Seq(Nat) /\ Len(r) = n + 1
      /\ \A k \in 1..(n + 1) : r[k] = c[(o + k - 1) % Size]
  BY <1>0, SegmentType
<1> HIDE DEF s, r
<1>7. /\ a \in Seq(Nat) /\ Len(a) = n + 1 /\ a[n + 1] = x
      /\ \A k \in 1..n : a[k] = s[k]
  BY <1>0, <1>1, AppendProperties
<1> HIDE DEF a
<1>8. \A k \in 1..(n + 1) : a[k] = r[k]
  <2> TAKE k \in 1..(n + 1)
  <2>1. CASE k = n + 1
    <3>1. o + k - 1 = o + n
      BY <1>0, <2>1
    <3> QED
      BY <1>5, <1>7, <2>1, <3>1
  <2>2. CASE k # n + 1
    <3>1. k \in 1..n /\ k <= n /\ k \in Nat
      BY <1>0, <2>2
    <3>2. o + k - 1 \in Nat /\ o + k - 1 < o + n
      BY <1>0, <3>1
    <3>3. (o + k - 1) % Size # (o + n) % Size
      BY <1>0, <1>2, <3>1, <3>2, Wrap
    <3> QED
      BY <1>1, <1>5, <1>7, <3>1, <3>3
  <2> QED
    BY <2>1, <2>2
<1>9. a = r
  BY <1>5, <1>7, <1>8, <1>0, SeqEqual
<1> QED
  BY <1>9 DEF s, r, a

(* A byte is put into a full buffer, in the place of the oldest. *)
LEMMA SegmentOverrun ==
    ASSUME NEW b \in Buffers, NEW c \in Buffers, NEW o \in 0..(Size - 1),
           NEW x \in Nat, c[o] = x,
           \A i \in 0..(Size - 1) : i # o => c[i] = b[i]
    PROVE  Append(Tail(Segment(b, o, Size)), x) = Segment(c, Succ(o), Size)
<1> DEFINE m == Size - 1
           t == Succ(o)
<1>0. Size \in Nat /\ Size \in 1..Size /\ m \in 0..(Size - 1) /\ m + 1 = Size
  BY CycleQueueAssumption
<1>1. Tail(Segment(b, o, Size)) = Segment(b, t, m)
  BY <1>0, SegmentTail
<1>2. t \in 0..(Size - 1)
  BY SuccInBuffer
<1>3. t + m \in Nat /\ t + m < Size + Size
  BY <1>0, <1>2
<1>4. (t + m) % Size = o
  BY <1>0, <1>3, Wrap, SuccIs
<1> HIDE DEF m, t
<1>5. Append(Segment(b, t, m), x) = Segment(c, t, m + 1)
  BY <1>0, <1>2, <1>4, SegmentAppend
<1> QED
  BY <1>0, <1>1, <1>5 DEF t

(* How many bytes a buffer holds from index t to index h, if it is neither *)
(* empty nor full: the distance grows with h and shrinks with t.           *)
Gap(h, t) == (h + Size - t) % Size

LEMMA GapIs ==
    ASSUME NEW h \in 0..(Size - 1), NEW t \in 0..(Size - 1)
    PROVE  /\ Gap(h, t) = IF t <= h THEN h - t ELSE h + Size - t
           /\ Gap(h, t) \in 0..(Size - 1)
<1>1. h + Size - t \in Nat /\ h + Size - t < Size + Size
  BY CycleQueueAssumption
<1>2. Gap(h, t) = IF h + Size - t < Size THEN h + Size - t ELSE h + Size - t - Size
  <2> PICK d \in Nat : d = h + Size - t
    BY <1>1
  <2>1. d < Size + Size
    BY <1>1
  <2>2. d % Size = IF d < Size THEN d ELSE d - Size
    BY <2>1, Wrap
  <2>3. Gap(h, t) = d % Size
    BY Zenon DEF Gap
  <2> QED
    BY <2>2, <2>3, CycleQueueAssumption
<1> QED
  BY <1>2, CycleQueueAssumption

(* The newest byte lies before the head. *)
LEMMA CountIs ==
    ASSUME Inv
    PROVE  /\ Count \in 0..Size /\ Oldest \in 0..(Size - 1)
           /\ Count = 0 <=> empty
           /\ (Oldest + Count) % Size = head
<1> USE DEF Inv, TypeOK
<1>1. Oldest \in 0..(Size - 1) /\ Size \in Nat /\ Size > 0
  BY CycleQueueAssumption DEF Oldest
<1>2. CASE empty
  <2>1. Count = 0
    BY <1>2 DEF Count
  <2>2. Oldest = head
    BY <1>2 DEF FlagsTell, Oldest
  <2>3. head % Size = head
    BY <1>1, Wrap
  <2> QED
    BY <1>1, <1>2, <2>1, <2>2, <2>3
<1>3. CASE ~empty /\ head = Oldest
  <2>1. Count = Size
    BY <1>3 DEF Count
  <2> HIDE DEF Inv, TypeOK
  <2>2. (Oldest + Size) % Size = Oldest
    <3>1. \A i \in 0..(Size - 1) : i + Size \in Nat /\ i + Size < Size + Size
                                   /\ ~(i + Size < Size) /\ i + Size - Size = i
      BY <1>1
    <3> QED
      BY <1>1, <3>1, Wrap
  <2> QED
    BY <1>1, <1>3, <2>1, <2>2
<1>4. CASE ~empty /\ head # Oldest
  <2>1. Oldest = tail
    BY <1>4 DEF Oldest
  <2>2. Count = Gap(head, tail)
    BY <1>4 DEF Count, Gap
  <2>3. head \in 0..(Size - 1) /\ tail \in 0..(Size - 1) /\ head # tail
    BY <1>4, <2>1
  <2> HIDE DEF Inv, TypeOK
  <2>4. /\ Count = IF tail <= head THEN head - tail ELSE head + Size - tail
        /\ Count \in 0..(Size - 1)
    BY <2>2, <2>3, GapIs
  <2>5. /\ tail + Count \in Nat /\ tail + Count < Size + Size
        /\ tail + Count = IF tail <= head THEN head ELSE head + Size
    BY <1>1, <2>3, <2>4
  <2>6. (tail + Count) % Size = head
    BY <1>1, <2>3, <2>5, Wrap
  <2> QED
    BY <1>1, <1>4, <2>1, <2>3, <2>4, <2>6
<1> QED
  BY <1>2, <1>3, <1>4

LEMMA ContentsIs ==
    /\ Contents = Segment(buf, Oldest, Count)
    /\ Contents' = Segment(buf', Oldest', Count')
BY DEF Contents, Segment

(* The step of the abstract queue, with the byte that was put named *)
LEMMA PutIs ==
    ASSUME NEW r \in Seq(Nat), NEW x \in Nat,
           r = IF Len(Contents) = Size THEN Tail(Contents) ELSE Contents,
           Contents' = Append(r, x)
    PROVE  Fifo!Put
<1>1. /\ Append(r, x) # <<>> /\ Len(Append(r, x)) = Len(r) + 1
      /\ Append(r, x)[Len(r) + 1] = x
  BY AppendProperties
<1> QED
  BY <1>1 DEF Fifo!Put, Fifo!Room

LEMMA InsertRefines == Inv /\ Inv' /\ InsertByte => Fifo!Put
<1> SUFFICES ASSUME Inv, Inv', InsertByte PROVE Fifo!Put
  OBVIOUS
<1> DEFINE x == sent - left + 1
<1>1. /\ mpc = "insert" /\ mpc' = mpc /\ ~empty' /\ tail' = tail
      /\ head' = Succ(head) /\ ~Deleting
      /\ overflow' = (overflow \/ (full /\ head = tail))
      /\ overflow => full
      /\ head = tail => empty \/ full
      /\ full => ~empty /\ (overflow \/ head = tail)
  BY DEF InsertByte, Inv, FlagsTell, Exclusion, Deleting
<1>2. /\ Size \in Nat /\ Size > 0 /\ x \in Nat
      /\ buf \in Buffers /\ buf' \in Buffers
      /\ head \in 0..(Size - 1) /\ tail \in 0..(Size - 1)
      /\ head' \in 0..(Size - 1)
  <2>1. Size \in Nat /\ Size > 0
    BY CycleQueueAssumption
  <2>2. /\ buf \in Buffers /\ head \in 0..(Size - 1) /\ tail \in 0..(Size - 1)
        /\ sent \in Nat /\ left \in Nat /\ left <= sent
    BY DEF Inv, TypeOK, Buffers
  <2>3. buf' \in Buffers /\ head' \in 0..(Size - 1)
    BY DEF Inv, TypeOK, Buffers
  <2>4. x \in Nat
    BY <2>2
  <2> QED
    BY <2>1, <2>2, <2>3, <2>4
<1>3. buf'[head] = x /\ \A i \in 0..(Size - 1) : i # head => buf'[i] = buf[i]
  BY <1>2 DEF InsertByte, Buffers
<1>4. /\ Count \in 0..Size /\ Oldest \in 0..(Size - 1)
      /\ (Oldest + Count) % Size = head
  BY CountIs
<1>5. /\ Contents \in Seq(Nat) /\ Len(Contents) = Count
  BY <1>2, <1>4, SegmentType, ContentsIs
<1> HIDE DEF x
<1>6. CASE full
  <2>1. Oldest = head /\ Count = Size
    BY <1>1, <1>6 DEF Oldest, Count
  <2>2. Oldest' = Succ(head) /\ Count' = Size
    BY <1>1, <1>6 DEF Oldest, Count
  <2>3. Append(Tail(Segment(buf, head, Size)), x) = Segment(buf', Succ(head), Size)
    BY <1>2, <1>3, SegmentOverrun
  <2>4. Contents' = Append(Tail(Contents), x)
    BY <2>1, <2>2, <2>3, ContentsIs
  <2>5. Tail(Contents) \in Seq(Nat)
    <3>1. Contents # <<>>
      BY <1>2, <1>5, <2>1
    <3> QED
      BY <1>5, <3>1, HeadTailProperties
  <2> QED
    BY <1>2, <1>5, <2>1, <2>4, <2>5, PutIs
<1>7. CASE ~full
  <2>1. Oldest = tail /\ Oldest' = tail
    BY <1>1, <1>7 DEF Oldest
  <2>2. Count = IF empty THEN 0 ELSE Gap(head, tail)
    BY <1>1, <1>7, <2>1 DEF Count, Gap
  <2>3. Count' = IF Succ(head) = tail THEN Size ELSE Gap(Succ(head), tail)
    BY <1>1, <2>1 DEF Count, Gap
  <2>4. empty => head = tail
    BY DEF Inv, FlagsTell
  <2>5. Count \in 0..(Size - 1) /\ Count' = Count + 1
    <3>1. /\ Gap(head, tail) = IF tail <= head THEN head - tail ELSE head + Size - tail
          /\ Gap(Succ(head), tail) =
               IF tail <= Succ(head) THEN Succ(head) - tail ELSE Succ(head) + Size - tail
      BY <1>1, <1>2, GapIs
    <3>2. Succ(head) = IF head = Size - 1 THEN 0 ELSE head + 1
      BY <1>2, SuccIs
    <3>3. Count = Gap(head, tail)
      BY <1>2, <2>2, <2>4, <3>1
    <3>4. Gap(head, tail) \in 0..(Size - 1)
      BY <1>2, GapIs
    <3>5. CASE Succ(head) = tail
      BY <1>2, <2>3, <3>1, <3>2, <3>3, <3>4, <3>5
    <3>6. CASE Succ(head) # tail
      BY <1>2, <2>3, <3>1, <3>2, <3>3, <3>4, <3>6
    <3> QED
      BY <3>5, <3>6
  <2>6. (tail + Count) % Size = head
    BY <1>4, <2>1
  <2>7. Append(Segment(buf, tail, Count), x) = Segment(buf', tail, Count + 1)
    BY <1>2, <1>3, <2>5, <2>6, SegmentAppend
  <2>8. Contents' = Append(Contents, x) /\ Len(Contents) # Size
    BY <1>2, <1>5, <2>1, <2>5, <2>7, ContentsIs
  <2> QED
    BY <1>2, <1>5, <2>8, PutIs
<1> QED
  BY <1>6, <1>7

LEMMA DeleteRefines == Inv /\ Inv' /\ DeleteByte => Fifo!Take
<1> SUFFICES ASSUME Inv, Inv', DeleteByte PROVE Fifo!Take
  OBVIOUS
<1>1. /\ mpc # "insert" /\ mpc' = mpc /\ ~empty /\ empty' = (tail' = head)
      /\ tail' = Succ(tail) /\ head' = head /\ buf' = buf
  BY DEF DeleteByte, Inv, Exclusion, modem
<1>2. /\ Size \in Nat /\ Size > 0 /\ buf \in Buffers
      /\ head \in 0..(Size - 1) /\ tail \in 0..(Size - 1)
  <2>1. Size \in Nat /\ Size > 0
    BY CycleQueueAssumption
  <2>2. buf \in Buffers /\ head \in 0..(Size - 1) /\ tail \in 0..(Size - 1)
    BY DEF Inv, TypeOK, Buffers
  <2> QED
    BY <2>1, <2>2
<1>3. Oldest = tail /\ Oldest' = Succ(tail)
  BY <1>1 DEF Oldest
<1>4. Count = IF head = tail THEN Size ELSE Gap(head, tail)
  BY <1>1, <1>3 DEF Count, Gap
<1>5. Count' = IF Succ(tail) = head THEN 0 ELSE Gap(head, Succ(tail))
  BY <1>1, <1>3 DEF Count, Gap
<1>6. Count \in 1..Size /\ Count' = Count - 1
  <2>1. Succ(tail) \in 0..(Size - 1)
    BY <1>2, SuccInBuffer
  <2>2. /\ Gap(head, tail) = IF tail <= head THEN head - tail ELSE head + Size - tail
        /\ Gap(head, Succ(tail)) =
             IF Succ(tail) <= head THEN head - Succ(tail) ELSE head + Size - Succ(tail)
    BY <1>2, <2>1, GapIs
  <2>3. Succ(tail) = IF tail = Size - 1 THEN 0 ELSE tail + 1
    BY <1>2, SuccIs
  <2>4. CASE Succ(tail) = head
    BY <1>2, <1>4, <1>5, <2>2, <2>3, <2>4
  <2>5. CASE Succ(tail) # head
    BY <1>2, <1>4, <1>5, <2>2, <2>3, <2>5
  <2> QED
    BY <2>4, <2>5
<1>7. /\ Segment(buf, tail, Count) # <<>>
      /\ Tail(Segment(buf, tail, Count)) = Segment(buf, Succ(tail), Count - 1)
  BY <1>2, <1>6, SegmentTail
<1>8. Contents # <<>> /\ Contents' = Tail(Contents)
  BY <1>1, <1>3, <1>6, <1>7, ContentsIs
<1> QED
  BY <1>8 DEF Fifo!Take

(* A step that touches no byte: the end of an insertion moves the tail to  *)
(* where Oldest had it already.                                            *)
LEMMA OthersStutter ==
    Inv /\ Inv' /\ [Next]_vars => InsertByte \/ DeleteByte \/ Contents' = Contents
<1> SUFFICES ASSUME Inv, [Next]_vars, ~InsertByte, ~DeleteByte
             PROVE  Contents' = Contents
  OBVIOUS
<1>1. /\ buf' = buf /\ head' = head /\ empty' = empty
  BY DEF Next, Modem, Lua, Receive, InsertEnd, SendMessage, TakeMessage, ReadByte,
         Refill, DeleteEnd, vars, queue, modem, lua
<1>2. Oldest' = Oldest
  <2> USE DEF Inv, FlagsTell, Exclusion, Oldest, Deleting, queue, modem, lua
  <2>1. CASE Receive
    BY <2>1 DEF Receive
  <2>2. CASE InsertEnd
    BY <2>2 DEF InsertEnd
  <2>3. CASE SendMessage
    BY <2>3 DEF SendMessage
  <2>4. CASE TakeMessage \/ ReadByte \/ Refill
    BY <2>4 DEF TakeMessage, ReadByte, Refill
  <2>5. CASE DeleteEnd
    BY <2>5 DEF DeleteEnd
  <2>6. CASE UNCHANGED vars
    BY <2>6 DEF vars
  <2> QED
    BY <2>1, <2>2, <2>3, <2>4, <2>5, <2>6 DEF Next, Modem, Lua
<1>3. ~(~empty /\ head # Oldest) \/ (tail = Oldest /\ tail' = Oldest')
  <2>1. head # Oldest => Oldest = tail
    BY DEF Oldest
  <2>2. head' # Oldest' => Oldest' = tail'
    BY DEF Oldest
  <2> QED
    BY <1>1, <1>2, <2>1, <2>2
<1>4. Count' = Count
  BY <1>1, <1>2, <1>3 DEF Count
<1> QED
  BY <1>1, <1>2, <1>4, ContentsIs

(* The buffer implements the queue of DropFifo: what the reader will see   *)
(* changes by a byte put behind the newest, with the oldest given up for   *)
(* it only when the buffer is full, or by the oldest taken, and by no other*)
(* step of either task (cycle_queue.c 52-125).                             *)
THEOREM BufferIsFifo == Spec => ImplementsFifo
<1>1. Init => Fifo!Init
  BY DEF Init, Fifo!Init, Contents, Count
<1>2. Inv /\ Inv' /\ [Next]_vars => [Fifo!Next]_Contents
  BY InsertRefines, DeleteRefines, OthersStutter DEF Fifo!Next
<1> QED
  BY BufferIsSound, <1>1, <1>2, PTL DEF Spec, ImplementsFifo, Fifo!Spec

-----------------------------------------------------------------------------
(* The cyclic buffer of a physical UART, a record c                        *)

Queue == [buf : Buffers, head : 0..(Size - 1), tail : 0..(Size - 1),
          empty : BOOLEAN, full : BOOLEAN, overflow : BOOLEAN]

(* Between two calls the flags tell an empty buffer from a full one ...    *)
Told(c) ==
    /\ c \in Queue
    /\ c.head = c.tail <=> c.empty \/ c.full
    /\ ~(c.empty /\ c.full)
    /\ c.overflow => c.full

(* ... and within QueueInsert the tail is behind once overflow is set.     *)
Filling(c) ==
    /\ c \in Queue
    /\ ~(c.empty /\ c.full)
    /\ c.empty => c.head = c.tail
    /\ c.head = c.tail => c.empty \/ c.full
    /\ c.full => c.overflow \/ c.head = c.tail
    /\ c.overflow => c.full

First(c) == IF c.overflow THEN c.head ELSE c.tail

Number(c, t) ==
    IF c.empty THEN 0 ELSE IF c.head = t THEN Size ELSE Gap(c.head, t)

Bytes(c) == Segment(c.buf, First(c), Number(c, First(c)))

Room(s) == IF Len(s) = Size THEN Tail(s) ELSE s

LEMMA ToldIsFilling ==
    ASSUME NEW c, Told(c)
    PROVE  Filling(c) /\ Bytes(c) = Segment(c.buf, c.tail, Number(c, c.tail))
<1>1. Filling(c)
  BY DEF Told, Filling
<1>2. First(c) = c.tail
  BY DEF Told, First, Queue
<1> QED
  BY <1>1, <1>2 DEF Bytes

LEMMA NumberIs ==
    ASSUME NEW c, Filling(c)
    PROVE  /\ First(c) \in 0..(Size - 1) /\ Number(c, First(c)) \in 0..Size
           /\ Number(c, First(c)) = 0 <=> c.empty
           /\ Bytes(c) \in Seq(Nat) /\ Len(Bytes(c)) = Number(c, First(c))
<1>1. /\ c \in Queue /\ Size \in Nat /\ Size > 0
      /\ First(c) \in 0..(Size - 1) /\ c.head \in 0..(Size - 1)
  BY CycleQueueAssumption DEF Filling, Queue, First
<1>2. /\ Gap(c.head, First(c)) \in 0..(Size - 1)
      /\ c.head # First(c) => Gap(c.head, First(c)) # 0
  <2>1. /\ Gap(c.head, First(c)) \in 0..(Size - 1)
        /\ Gap(c.head, First(c)) = IF First(c) <= c.head THEN c.head - First(c)
                                   ELSE c.head + Size - First(c)
    BY <1>1, GapIs
  <2> QED
    BY <1>1, <2>1
<1>3. Number(c, First(c)) \in 0..Size /\ (Number(c, First(c)) = 0 <=> c.empty)
  BY <1>1, <1>2 DEF Number
<1>4. c.buf \in Buffers
  BY <1>1 DEF Queue
<1> QED
  BY <1>1, <1>3, <1>4, SegmentType DEF Bytes

(* The fields of a buffer d into which byte b has been put                 *)
IsPut(c, b, d) ==
    /\ d \in Queue
    /\ d.buf[c.head] = b
    /\ \A i \in 0..(Size - 1) : i # c.head => d.buf[i] = c.buf[i]
    /\ d.head = Succ(c.head) /\ d.tail = c.tail /\ ~d.empty
    /\ d.overflow <=> c.overflow \/ (c.full /\ c.head = c.tail)
    /\ d.full <=> c.full \/ Succ(c.head) = c.tail

LEMMA PutByteFields ==
    ASSUME NEW c \in Queue, NEW b \in Nat
    PROVE  IsPut(c, b, PutByte(c, b))
<1> PICK d : d = PutByte(c, b)
  OBVIOUS
<1>1. Succ(c.head) \in 0..(Size - 1)
  BY SuccInBuffer DEF Queue
<1>2. Succ(c.head) = Succ(c.head)
  BY DEF Succ, Succ
<1> PICK o \in BOOLEAN : o <=> c.overflow \/ (c.full /\ c.head = c.tail)
  OBVIOUS
<1> PICK f \in BOOLEAN : f <=> c.full \/ Succ(c.head) = c.tail
  OBVIOUS
<1> PICK h : h = Succ(c.head)
  OBVIOUS
<1>3. d = [c EXCEPT !.buf[c.head] = b, !.head = h, !.empty = FALSE,
                    !.overflow = o, !.full = f]
  <2>1. c.overflow \in BOOLEAN /\ c.full \in BOOLEAN
    BY DEF Queue
  <2>2. /\ o = (c.overflow \/ (c.full /\ c.head = c.tail))
        /\ f = (c.full \/ Succ(c.head) = c.tail)
    BY <2>1
  <2> QED
    BY <1>2, <2>2, Zenon DEF PutByte
<1>4. /\ d \in Queue /\ d.buf[c.head] = b
      /\ \A i \in 0..(Size - 1) : i # c.head => d.buf[i] = c.buf[i]
      /\ d.head = h /\ d.tail = c.tail /\ d.empty = FALSE
      /\ d.overflow = o /\ d.full = f
  <2>1. h \in 0..(Size - 1) /\ b \in Nat /\ c \in Queue
    BY <1>1
  <2> QED
    BY ONLY <1>3, <2>1, o \in BOOLEAN, f \in BOOLEAN DEF Queue, Buffers
<1> QED
  BY <1>4 DEF IsPut

(* A byte is put behind the newest, in the place of the oldest if need be. *)
LEMMA PutByteIs ==
    ASSUME NEW c, Filling(c), NEW b \in Nat, NEW d, d = PutByte(c, b)
    PROVE  /\ Filling(d) /\ ~d.empty
           /\ Bytes(d) = Append(Room(Bytes(c)), b)
<1> PICK h : h = c.head
  OBVIOUS
<1> PICK t : t = c.tail
  OBVIOUS
<1>1. /\ d \in Queue /\ d.buf[h] = b
      /\ \A i \in 0..(Size - 1) : i # h => d.buf[i] = c.buf[i]
      /\ d.head = Succ(h) /\ d.tail = t /\ ~d.empty
      /\ d.overflow <=> c.overflow \/ (c.full /\ h = t)
      /\ d.full <=> c.full \/ Succ(h) = t
  <2>1. c \in Queue
    BY DEF Filling
  <2>2. IsPut(c, b, d)
    BY <2>1, PutByteFields
  <2> QED
    BY ONLY <2>2, h = c.head, t = c.tail DEF IsPut
<1>2. /\ Size \in Nat /\ Size > 0 /\ c \in Queue
      /\ c.buf \in Buffers /\ d.buf \in Buffers
      /\ h \in 0..(Size - 1) /\ t \in 0..(Size - 1) /\ Succ(h) \in 0..(Size - 1)
  BY <1>1, CycleQueueAssumption DEF Filling, Queue
<1>3. Filling(d)
  BY <1>1, <1>2 DEF Filling
<1>4. /\ Number(c, First(c)) \in 0..Size
      /\ Bytes(c) \in Seq(Nat) /\ Len(Bytes(c)) = Number(c, First(c))
  BY NumberIs
<1>5. CASE c.full
  <2>1. First(c) = h /\ First(d) = Succ(h)
    BY <1>1, <1>5 DEF Filling, First
  <2>2. Number(c, h) = Size /\ Number(d, Succ(h)) = Size
    BY <1>1, <1>5 DEF Number, Filling
  <2>3. Append(Tail(Segment(c.buf, h, Size)), b) = Segment(d.buf, Succ(h), Size)
    BY <1>1, <1>2, SegmentOverrun
  <2> QED
    BY <1>1, <1>3, <1>4, <2>1, <2>2, <2>3 DEF Bytes, Room
<1>6. CASE ~c.full
  <2>1. First(c) = t /\ First(d) = t
    BY <1>1, <1>6 DEF Filling, First
  <2> PICK n : n = Number(c, t)
    OBVIOUS
  <2>2. n = Gap(h, t) /\ n \in 0..(Size - 1)
    <3>1. /\ Gap(h, t) = IF t <= h THEN h - t ELSE h + Size - t
          /\ Gap(h, t) \in 0..(Size - 1)
      BY <1>2, GapIs
    <3> QED
      BY <1>2, <1>6, <3>1 DEF Filling, Number
  <2>3. Number(d, t) = n + 1
    <3>1. Number(d, t) = IF Succ(h) = t THEN Size ELSE Gap(Succ(h), t)
      BY <1>1 DEF Number
    <3>2. /\ Gap(h, t) = IF t <= h THEN h - t ELSE h + Size - t
          /\ Gap(Succ(h), t) =
               IF t <= Succ(h) THEN Succ(h) - t ELSE Succ(h) + Size - t
      BY <1>2, GapIs
    <3>3. Succ(h) = IF h = Size - 1 THEN 0 ELSE h + 1
      BY <1>2, SuccIs
    <3>4. CASE Succ(h) = t
      BY <1>2, <2>2, <3>1, <3>2, <3>3, <3>4
    <3>5. CASE Succ(h) # t
      BY <1>2, <2>2, <3>1, <3>2, <3>3, <3>5
    <3> QED
      BY <3>4, <3>5
  <2>4. (t + n) % Size = h
    <3>1. Gap(h, t) = IF t <= h THEN h - t ELSE h + Size - t
      BY <1>2, GapIs
    <3>2. /\ t + n \in Nat /\ t + n < Size + Size
          /\ t + n = IF t <= h THEN h ELSE h + Size
      BY <1>2, <2>2, <3>1
    <3> PICK m \in Nat : m = t + n
      BY <3>2
    <3>3. m % Size = IF m < Size THEN m ELSE m - Size
      BY <3>2, Wrap
    <3>4. (IF m < Size THEN m ELSE m - Size) = h
      BY <1>2, <3>2
    <3>5. (t + n) % Size = m % Size
      OBVIOUS
    <3> QED
      BY <3>3, <3>4, <3>5
  <2>5. Append(Segment(c.buf, t, n), b) = Segment(d.buf, t, n + 1)
    <3>1. /\ d.buf[(t + n) % Size] = b
          /\ \A i \in 0..(Size - 1) :
                 i # (t + n) % Size => d.buf[i] = c.buf[i]
      BY <1>1, <2>4
    <3> PICK e : e = d.buf
      OBVIOUS
    <3> PICK a : a = c.buf
      OBVIOUS
    <3>2. /\ e[(t + n) % Size] = b
          /\ \A i \in 0..(Size - 1) : i # (t + n) % Size => e[i] = a[i]
      BY <3>1
    <3>3. Append(Segment(a, t, n), b) = Segment(e, t, n + 1)
      <4>1. /\ a \in Buffers /\ e \in Buffers /\ t \in 0..(Size - 1)
            /\ n \in 0..(Size - 1)
        BY <1>2, <2>2
      <4> QED
        BY ONLY <4>1, b \in Nat, <3>2, SegmentAppend
    <3> QED
      BY <3>3
  <2>6. Len(Bytes(c)) # Size
    BY <1>2, <1>4, <2>1, <2>2
  <2> QED
    BY <1>1, <1>3, <2>1, <2>3, <2>5, <2>6 DEF Bytes, Room
<1> QED
  BY <1>5, <1>6

----------------------------------------------------------------------------
(* The loop of QueueInsert, which is defined by a recursion over the bytes *)
(* of a burst                                                              *)

LEMMA SmallestOfSet ==
    ASSUME NEW T, T \subseteq Nat, T # {}
    PROVE  \E m \in T : \A n \in T : m <= n
<1> DEFINE R == OpToRel(<, Nat)
<1>1. IsWellFoundedOn(R, Nat)
  BY NatLessThanWellFounded
<1>2. \A m, n \in Nat : m < n => <<m, n>> \in R
  BY DEF OpToRel
<1> HIDE DEF R
<1>3. PICK m \in T : \A n \in T : ~(<<n, m>> \in R)
  BY <1>1, WFMin
<1>4. ASSUME NEW n \in T PROVE m <= n
  <2>1. m \in Nat /\ n \in Nat /\ ~(n < m)
    BY <1>2, <1>3
  <2> QED
    BY <2>1
<1> QED
  BY <1>3, <1>4

(* What holds of 0 and is inherited by the next number holds of all.       *)
LEMMA SetInduction ==
    ASSUME NEW T, 0 \in T, \A n \in Nat : n \in T => n + 1 \in T
    PROVE  \A n \in Nat : n \in T
<1> SUFFICES ASSUME Nat \ T # {} PROVE FALSE
  OBVIOUS
<1>1. PICK x \in Nat \ T : \A y \in Nat \ T : x <= y
  BY SmallestOfSet
<1>2. x - 1 \in Nat /\ x - 1 \in T
  BY <1>1
<1> QED
  BY <1>1, <1>2

(* One turn of the recursion *)
PutTurn(c, s, f, n) == IF n = 0 THEN c ELSE PutByte(f[n - 1], s[n])

PutChain(c, s) == CHOOSE f : f = [n \in 0..Len(s) |-> PutTurn(c, s, f, n)]

LEMMA PutBytesIsChain ==
    ASSUME NEW c, NEW s
    PROVE  PutBytes(c, s) = PutChain(c, s)[Len(s)]
BY DEF PutBytes, PutChain, PutTurn

LEMMA PutChainExists ==
    ASSUME NEW c, NEW s
    PROVE  \A n \in Nat : \E f : f = [i \in 0..n |-> PutTurn(c, s, f, i)]
<1> DEFINE Solves(f, n) == f = [i \in 0..n |-> PutTurn(c, s, f, i)]
           T == {n \in Nat : \E f : Solves(f, n)}
<1>1. 0 \in T
  <2> PICK f : f = [i \in 0..0 |-> c]
    OBVIOUS
  <2>1. [i \in 0..0 |-> PutTurn(c, s, f, i)] = f
    BY DEF PutTurn
  <2>2. Solves(f, 0)
    BY <2>1
  <2> QED
    BY <2>2
<1>2. ASSUME NEW n \in Nat, n \in T PROVE n + 1 \in T
  <2>1. PICK f : Solves(f, n)
    BY <1>2
  <2> DEFINE last == PutByte(f[n], s[n + 1])
  <2> PICK g : g = [i \in 0..(n + 1) |-> IF i = n + 1 THEN last ELSE f[i]]
    OBVIOUS
  <2> HIDE DEF last
  <2>2. ASSUME NEW i \in 0..(n + 1) PROVE PutTurn(c, s, g, i) = g[i]
    <3>1. CASE i = 0
      <4>1. g[i] = f[0] /\ 0 \in 0..n
        BY <3>1
      <4>2. f[0] = PutTurn(c, s, f, 0)
        BY <2>1, <4>1
      <4> QED
        BY <3>1, <4>1, <4>2 DEF PutTurn
    <3>2. CASE i = n + 1
      <4>1. g[i] = last /\ i # 0 /\ i - 1 = n /\ g[n] = f[n]
        BY <3>2
      <4> QED
        BY <4>1, <3>2 DEF PutTurn, last
    <3>3. CASE i # 0 /\ i # n + 1
      <4>1. i \in 0..n /\ i - 1 \in 0..n /\ g[i] = f[i] /\ g[i - 1] = f[i - 1]
        BY <3>3
      <4>2. f[i] = PutTurn(c, s, f, i)
        BY <2>1, <4>1
      <4> QED
        BY <3>3, <4>1, <4>2 DEF PutTurn
    <3> QED
      BY <3>1, <3>2, <3>3
  <2>3. g = [i \in 0..(n + 1) |-> PutTurn(c, s, g, i)]
    <3>1. [i \in 0..(n + 1) |-> PutTurn(c, s, g, i)] = [i \in 0..(n + 1) |-> g[i]]
      BY <2>2
    <3>2. g = [i \in 0..(n + 1) |-> g[i]]
      OBVIOUS
    <3> QED
      BY <3>1, <3>2
  <2>4. Solves(g, n + 1)
    BY <2>3
  <2> QED
    BY <2>4
<1>3. \A n \in Nat : n \in T
  <2> HIDE DEF T
  <2> QED
    BY <1>1, <1>2, SetInduction
<1> QED
  BY <1>3

LEMMA PutChainIs ==
    ASSUME NEW c, NEW s \in Seq(Nat)
    PROVE  /\ PutChain(c, s)[0] = c
           /\ \A n \in 1..Len(s) :
                PutChain(c, s)[n] = PutByte(PutChain(c, s)[n - 1], s[n])
<1> DEFINE f == PutChain(c, s)
<1>0. Len(s) \in Nat
  OBVIOUS
<1>1. f = [i \in 0..Len(s) |-> PutTurn(c, s, f, i)]
  BY <1>0, PutChainExists DEF PutChain
<1> HIDE DEF f
<1>2. \A i \in 0..Len(s) : f[i] = PutTurn(c, s, f, i)
  BY <1>1
<1>3. f[0] = c
  BY <1>0, <1>2 DEF PutTurn
<1>4. ASSUME NEW n \in 1..Len(s) PROVE f[n] = PutByte(f[n - 1], s[n])
  <2>1. n \in 0..Len(s) /\ n # 0
    BY <1>0
  <2> QED
    BY <2>1, <1>2 DEF PutTurn
<1> QED
  BY <1>3, <1>4 DEF f

----------------------------------------------------------------------------
(* What QueueInsert does with a burst                                      *)

(* The sequence u begins with what is left of s without its first k, which *)
(* had to go: u is as long as the buffer then.                             *)
GaveUp(s, u, k) ==
    /\ k > 0 => Len(u) = Size
    /\ Len(s) - k <= Len(u) /\ Len(u) <= Size
    /\ \A i \in 1..(Len(s) - k) : u[i] = s[i + k]

(* ... and goes on behind that.                                            *)
GoesOn(s, u) == \E k \in 0..Len(s) : GaveUp(s, u, k) /\ Len(s) - k < Len(u)

LEMMA RoomType ==
    ASSUME NEW u \in Seq(Nat), Len(u) <= Size, NEW b \in Nat
    PROVE  /\ Append(Room(u), b) \in Seq(Nat)
           /\ Len(Append(Room(u), b)) =
                IF Len(u) = Size THEN Size ELSE Len(u) + 1
           /\ Append(Room(u), b)[Len(Append(Room(u), b))] = b
           /\ \A i \in 1..(Len(Append(Room(u), b)) - 1) :
                Append(Room(u), b)[i] =
                    IF Len(u) = Size THEN u[i + 1] ELSE u[i]
<1>0. Size \in Nat /\ Size > 0 /\ Len(u) \in Nat
  BY CycleQueueAssumption
<1>1. CASE Len(u) = Size
  <2>1. u # <<>>
    BY <1>0, <1>1
  <2>2. /\ Tail(u) \in Seq(Nat) /\ Len(Tail(u)) = Size - 1
        /\ \A i \in 1..(Size - 1) : Tail(u)[i] = u[i + 1]
    BY <1>0, <1>1, <2>1, HeadTailProperties
  <2> PICK r : r = Tail(u)
    OBVIOUS
  <2>3. /\ Append(r, b) \in Seq(Nat) /\ Len(Append(r, b)) = Size
        /\ Append(r, b)[Size] = b
        /\ \A i \in 1..(Size - 1) : Append(r, b)[i] = r[i]
    BY <1>0, <2>2, AppendProperties
  <2> QED
    BY <1>0, <1>1, <2>2, <2>3 DEF Room
<1>2. CASE Len(u) # Size
  <2>1. /\ Append(u, b) \in Seq(Nat) /\ Len(Append(u, b)) = Len(u) + 1
        /\ Append(u, b)[Len(u) + 1] = b
        /\ \A i \in 1..Len(u) : Append(u, b)[i] = u[i]
    BY AppendProperties
  <2> QED
    BY <1>0, <1>2, <2>1 DEF Room
<1> QED
  BY <1>1, <1>2

LEMMA RoomGoesOn ==
    ASSUME NEW s \in Seq(Nat), NEW u \in Seq(Nat), Len(s) <= Size,
           NEW k \in 0..Len(s), GaveUp(s, u, k), NEW b \in Nat
    PROVE  GoesOn(s, Append(Room(u), b))
<1> PICK v : v = Append(Room(u), b)
  OBVIOUS
<1>0. /\ Size \in Nat /\ Size > 0 /\ Len(u) \in Nat /\ Len(s) \in Nat /\ k \in Nat
      /\ k <= Len(s) /\ Len(u) <= Size
  BY CycleQueueAssumption DEF GaveUp
<1>1. /\ v \in Seq(Nat) /\ Len(v) = IF Len(u) = Size THEN Size ELSE Len(u) + 1
      /\ \A i \in 1..(Len(v) - 1) :
           v[i] = IF Len(u) = Size THEN u[i + 1] ELSE u[i]
  BY <1>0, RoomType
<1>2. CASE Len(u) # Size
  <2>1. k = 0
    BY <1>0, <1>2 DEF GaveUp
  <2>2. GaveUp(s, v, 0) /\ Len(s) - 0 < Len(v)
    BY <1>0, <1>1, <1>2, <2>1 DEF GaveUp
  <2> QED
    BY <1>0, <2>2 DEF GoesOn
<1>3. CASE Len(u) = Size /\ k = Len(s)
  <2>1. GaveUp(s, v, k) /\ Len(s) - k < Len(v)
    BY <1>0, <1>1, <1>3 DEF GaveUp
  <2> QED
    BY <2>1 DEF GoesOn
<1>4. CASE Len(u) = Size /\ k # Len(s)
  <2>0. k + 1 \in 0..Len(s)
    BY <1>0, <1>4
  <2>1. ASSUME NEW i \in 1..(Len(s) - (k + 1)) PROVE v[i] = s[i + (k + 1)]
    <3>1. i \in 1..(Len(v) - 1) /\ i + 1 \in 1..(Len(s) - k)
      BY <1>0, <1>1, <1>4
    <3>2. v[i] = u[i + 1] /\ u[i + 1] = s[(i + 1) + k]
      BY <1>1, <1>4, <3>1 DEF GaveUp
    <3>3. (i + 1) + k = i + (k + 1)
      BY <1>0
    <3> QED
      BY <3>2, <3>3
  <2>2. GaveUp(s, v, k + 1) /\ Len(s) - (k + 1) < Len(v)
    BY <1>0, <1>1, <1>4, <2>1 DEF GaveUp
  <2> QED
    BY <2>0, <2>2 DEF GoesOn
<1> QED
  BY <1>2, <1>3, <1>4

(* After n bytes of s                                                      *)
PutSoFar(c, s, d, n) ==
    /\ Filling(d)
    /\ \E k \in 0..Len(Bytes(c)) : GaveUp(Bytes(c), Bytes(d), k)
    /\ n > 0 => /\ ~d.empty /\ Bytes(d)[Len(Bytes(d))] = s[n]
                /\ GoesOn(Bytes(c), Bytes(d))

LEMMA PutOneMore ==
    ASSUME NEW c, NEW s \in Seq(Nat), NEW d, NEW n \in 1..Len(s), Filling(c),
           PutSoFar(c, s, d, n - 1)
    PROVE  PutSoFar(c, s, PutByte(d, s[n]), n)
<1> PICK e : e = PutByte(d, s[n])
  OBVIOUS
<1> PICK u : u = Bytes(d)
  OBVIOUS
<1> PICK o : o = Bytes(c)
  OBVIOUS
<1>1. Filling(d) /\ s[n] \in Nat
  BY DEF PutSoFar
<1>2. Filling(e) /\ ~e.empty /\ Bytes(e) = Append(Room(u), s[n])
  BY <1>1, PutByteIs
<1>3. u \in Seq(Nat) /\ Len(u) <= Size /\ o \in Seq(Nat) /\ Len(o) <= Size
  <2>1. /\ Len(u) \in 0..Size /\ Len(o) \in 0..Size
        /\ u \in Seq(Nat) /\ o \in Seq(Nat)
    BY <1>1, NumberIs
  <2> QED
    BY <2>1, CycleQueueAssumption
<1>4. PICK k \in 0..Len(o) : GaveUp(o, u, k)
  BY DEF PutSoFar
<1>5. GoesOn(o, Append(Room(u), s[n]))
  BY <1>1, <1>3, <1>4, RoomGoesOn
<1>6. Append(Room(u), s[n])[Len(Append(Room(u), s[n]))] = s[n]
  BY <1>1, <1>3, RoomType
<1>7. \E j \in 0..Len(o) : GaveUp(o, Append(Room(u), s[n]), j)
  BY <1>5 DEF GoesOn
<1> QED
  BY <1>2, <1>5, <1>6, <1>7 DEF PutSoFar

LEMMA PutBytesIs ==
    ASSUME NEW c, NEW s \in Seq(Nat), Filling(c)
    PROVE  PutSoFar(c, s, PutBytes(c, s), Len(s))
<1> PICK f : f = PutChain(c, s)
  OBVIOUS
<1>1. /\ f[0] = c /\ Len(s) \in Nat
      /\ \A n \in 1..Len(s) : f[n] = PutByte(f[n - 1], s[n])
  BY PutChainIs
<1> DEFINE T == {n \in Nat : n <= Len(s) => PutSoFar(c, s, f[n], n)}
<1>2. 0 \in T
  <2> PICK o : o = Bytes(c)
    OBVIOUS
  <2>1. o \in Seq(Nat) /\ Len(o) \in 0..Size
    BY NumberIs
  <2>2. 0 \in 0..Len(o) /\ GaveUp(o, o, 0)
    BY <2>1, CycleQueueAssumption DEF GaveUp
  <2> QED
    BY <1>1, <2>2 DEF PutSoFar
<1>3. ASSUME NEW n \in Nat, n \in T PROVE n + 1 \in T
  <2> SUFFICES ASSUME n + 1 <= Len(s) PROVE PutSoFar(c, s, f[n + 1], n + 1)
    OBVIOUS
  <2>1. n + 1 \in 1..Len(s) /\ (n + 1) - 1 = n /\ PutSoFar(c, s, f[n], n)
    BY <1>1, <1>3
  <2> PICK m \in 1..Len(s) : m = n + 1
    BY <2>1
  <2>2. m - 1 = n
    BY <2>1
  <2>3. PutSoFar(c, s, PutByte(f[n], s[m]), m)
    BY <2>1, <2>2, PutOneMore
  <2>4. f[m] = PutByte(f[n], s[m])
    BY <1>1, <2>2
  <2> QED
    BY <2>3, <2>4
<1>4. \A n \in Nat : n \in T
  <2> HIDE DEF T
  <2> QED
    BY <1>2, <1>3, SetInduction
<1>5. PutSoFar(c, s, f[Len(s)], Len(s))
  BY <1>1, <1>4
<1> QED
  BY <1>5, PutBytesIsChain

(* The bytes in the buffer between two calls                               *)
Holds(c) == Segment(c.buf, c.tail, Number(c, c.tail))

LEMMA GiveUpOldestIs ==
    ASSUME NEW c, Filling(c), NEW d, d = GiveUpOldest(c)
    PROVE  Told(d) /\ d.empty = c.empty /\ Holds(d) = Bytes(c)
<1>1. c \in Queue /\ First(c) \in 0..(Size - 1)
  BY NumberIs DEF Filling
<1>2. d = [c EXCEPT !.tail = First(c)]
  BY <1>1 DEF GiveUpOldest, First
<1>3. /\ d \in Queue /\ d.buf = c.buf /\ d.head = c.head /\ d.tail = First(c)
      /\ d.empty = c.empty /\ d.full = c.full /\ d.overflow = c.overflow
  BY ONLY <1>1, <1>2 DEF Queue
<1>4. Told(d)
  BY <1>3 DEF Told, Filling, First
<1>5. Holds(d) = Bytes(c)
  BY <1>3 DEF Holds, Bytes, Number
<1> QED
  BY <1>3, <1>4, <1>5

LEMMA InsertIs ==
    ASSUME NEW c, Told(c), NEW s \in Seq(Nat), NEW d, d = Insert(c, s)
    PROVE  /\ Told(d)
           /\ s = <<>> => d = c
           /\ s # <<>> => /\ ~d.empty /\ Holds(d)[Len(Holds(d))] = s[Len(s)]
                          /\ GoesOn(Holds(c), Holds(d))
<1> PICK e : e = PutBytes(c, s)
  OBVIOUS
<1>1. Filling(c) /\ Bytes(c) = Holds(c)
  BY ToldIsFilling DEF Holds
<1>2. PutSoFar(c, s, e, Len(s))
  BY <1>1, PutBytesIs
<1>3. Filling(e)
  BY <1>2 DEF PutSoFar
<1>4. Told(d) /\ d.empty = e.empty /\ Holds(d) = Bytes(e)
  BY <1>3, GiveUpOldestIs DEF Insert
<1>5. ASSUME s = <<>> PROVE d = c
  <2>1. e = c
    BY <1>5, PutChainIs, PutBytesIsChain
  <2>2. c \in Queue /\ (c.overflow => c.head = c.tail)
    BY DEF Told
  <2>3. [c EXCEPT !.tail = IF c.overflow THEN c.head ELSE @] = c
    BY ONLY <2>2 DEF Queue
  <2> QED
    BY <2>1, <2>3 DEF Insert, GiveUpOldest
<1>6. ASSUME s # <<>>
      PROVE  /\ ~d.empty /\ Holds(d)[Len(Holds(d))] = s[Len(s)]
             /\ GoesOn(Holds(c), Holds(d))
  <2>1. Len(s) > 0
    BY <1>6
  <2> QED
    BY <1>1, <1>2, <1>4, <2>1 DEF PutSoFar
<1> QED
  BY <1>4, <1>5, <1>6

----------------------------------------------------------------------------
(* The invariant of a physical UART                                        *)

(* What QueueDelete has done so far: full is out of date until its end,    *)
(* and empty until the turn is over in which the last byte was taken.      *)
Deletion ==
    /\ masked <=> PhyDeleting
    /\ PhyDeleting => Buffered(rid) /\ (q.overflow => q.full)
    /\ upc = "copy" => ~q.empty
    /\ upc = "emptied" => ~q.empty /\ q.head = q.tail /\ readbuf # <<>>
    /\ upc = "end" /\ readbuf = <<>> => q.empty /\ Told(q)
    /\ upc = "end" /\ readbuf # <<>> => (q.head = q.tail <=> q.empty)

(* The handler that is called, also that of the host UART, is of an id     *)
(* that is open.                                                           *)
CalledIsOpen == hw \in {"handler", "host"} => Buffered(owner)

PortInv ==
    /\ PhyTypeOK /\ (~PhyDeleting => Told(q))
    /\ ClosedIsEmpty /\ CalledIsOpen /\ PhyNoLostWakeup
    /\ Deletion

LEMMA PortInvIsInv == PortInv => PhyInv
BY DEF PortInv, PhyInv, PhyFlagsTell, Told, CalledIsOpen, HandlerIsOpen

LEMMA PortType ==
    ASSUME PortInv
    PROVE  /\ q \in Queue /\ readbuf \in Seq(Nat) /\ rxmsgs \in Seq(Ids)
           /\ rid \in Ids /\ owner \in Ids
           /\ opened \in [Ids -> BOOLEAN] /\ workmode \in [Ids -> 0..2]
BY DEF PortInv, PhyTypeOK, Queue, Buffers

LEMMA PortInitInv == PhyInit => PortInv
<1> SUFFICES ASSUME PhyInit PROVE PortInv
  OBVIOUS
<1>0. Size \in Nat /\ Size > 0 /\ 0 \in 0..(Size - 1)
  BY CycleQueueAssumption
<1>1. q \in Queue /\ q.empty /\ ~q.full /\ ~q.overflow /\ q.head = q.tail
  BY <1>0 DEF PhyInit, Queue, Buffers
<1>2. PhyTypeOK
  <2>1. /\ port \in Ports /\ hw \in {"off", "poll", "handler", "host"}
        /\ opened \in [Ids -> BOOLEAN] /\ workmode \in [Ids -> 0..2]
        /\ owner \in Ids /\ rid \in Ids
    BY DEF PhyInit
  <2>2. readbuf \in Seq(Nat) /\ rxmsgs \in Seq(Ids)
    BY DEF PhyInit
  <2>3. /\ upc \in {"wait", "read", "copy", "emptied", "end"}
        /\ masked \in BOOLEAN /\ inline \in BOOLEAN
        /\ came \in Nat /\ took \in Nat
    BY DEF PhyInit
  <2> QED
    BY <1>1, <2>1, <2>2, <2>3 DEF PhyTypeOK, Queue, Buffers
<1>3. Told(q)
  BY <1>1 DEF Told
<1> QED
  BY <1>1, <1>2, <1>3 DEF PortInv, PhyInit, ClosedIsEmpty, CalledIsOpen,
     PhyNoLostWakeup, Deletion, PhyDeleting

(* Inv, without what the context says of the ids, of the Lua task          *)
LEMMA SameContext ==
    ASSUME UNCHANGED context
    PROVE  /\ Ids' = Ids /\ hw' = hw /\ owner' = owner
           /\ UNCHANGED <<port, opened, workmode>>
           /\ \A i : Buffered(i)' <=> Buffered(i)
BY DEF context, Ids, PortOf, Buffered

LEMMA TypeFrom ==
    ASSUME PortInv, UNCHANGED context,
           q' \in Queue, readbuf' \in Seq(Nat), masked' \in BOOLEAN,
           rxmsgs' \in Seq(Ids), rid' \in Ids, inline' \in BOOLEAN,
           upc' \in {"wait", "read", "copy", "emptied", "end"},
           came' \in Nat, took' \in Nat
    PROVE  PhyTypeOK'
<1>1. /\ port' = port /\ opened' = opened /\ workmode' = workmode
      /\ hw' = hw /\ owner' = owner
  BY DEF context
<1>2. Ids' = Ids
  BY SameContext
<1>3. /\ port \in Ports /\ opened \in [Ids -> BOOLEAN]
      /\ workmode \in [Ids -> 0..2] /\ owner \in Ids
      /\ hw \in {"off", "poll", "handler", "host"}
  BY DEF PortInv, PhyTypeOK
<1> QED
  BY <1>1, <1>2, <1>3 DEF PhyTypeOK, Queue, Buffers

(* A burst comes while nothing is being deleted, and wakes the id whose    *)
(* handler or callback it came through, if there was nothing to wake for.  *)
LEMMA BurstInv ==
    ASSUME PortInv, ~PhyDeleting,
           hw \in {"handler", "host"}, NEW s \in Seq(Nat), q' = Insert(q, s),
           rxmsgs' = IF q.empty /\ s # <<>> THEN Append(rxmsgs, owner) ELSE rxmsgs,
           NEW n \in Nat, came' = came + n,
           UNCHANGED <<context, readbuf, masked, reader>>
    PROVE  PortInv'
<1>1. /\ Told(q') /\ (s = <<>> => q' = q)
  BY InsertIs DEF PortInv
<1>2. /\ upc' = upc /\ rid' = rid /\ inline' = inline /\ took' = took
      /\ readbuf' = readbuf /\ masked' = masked /\ hw' = hw
  BY DEF reader, context
<1>3. /\ \A i : Buffered(i)' <=> Buffered(i)
      /\ owner' = owner /\ Buffered(owner)
  BY SameContext DEF PortInv, CalledIsOpen
<1>4. PhyTypeOK'
  <2>1. /\ rxmsgs \in Seq(Ids) /\ owner \in Ids /\ came \in Nat
        /\ readbuf \in Seq(Nat) /\ masked \in BOOLEAN /\ rid \in Ids
        /\ upc \in {"wait", "read", "copy", "emptied", "end"}
        /\ inline \in BOOLEAN /\ took \in Nat
    BY DEF PortInv, PhyTypeOK
  <2>2. rxmsgs' \in Seq(Ids) /\ came' \in Nat /\ q' \in Queue
    BY <1>1, <2>1 DEF Told
  <2> QED
    BY <1>2, <2>1, <2>2, TypeFrom
<1>5. ~PhyDeleting'
  BY <1>2 DEF PhyDeleting
<1>6. ClosedIsEmpty' /\ CalledIsOpen'
  BY <1>2, <1>3 DEF ClosedIsEmpty, CalledIsOpen
<1>7. PhyNoLostWakeup'
  <2>1. rxmsgs \in Seq(Ids) /\ owner \in Ids
    BY PortType
  <2>2. CASE q.empty /\ s # <<>>
    <3> PICK k : k = Len(rxmsgs) + 1
      OBVIOUS
    <3>1. k \in 1..Len(Append(rxmsgs, owner)) /\ Append(rxmsgs, owner)[k] = owner
      BY <2>1, AppendProperties
    <3>2. k \in 1..Len(rxmsgs') /\ rxmsgs'[k] = owner
      BY <2>2, <3>1
    <3>3. opened'[owner] /\ workmode'[owner] # 1
      BY <1>3, SameContext DEF Buffered
    <3> QED
      BY <3>2, <3>3 DEF PhyNoLostWakeup, Buffered
  <2>3. CASE ~(q.empty /\ s # <<>>)
    <3>1. rxmsgs' = rxmsgs /\ (~q'.empty => ~q.empty)
      BY <1>1, <2>3
    <3> QED
      BY <1>2, <1>3, <3>1 DEF PortInv, PhyNoLostWakeup
  <2> QED
    BY <2>2, <2>3
<1>8. Deletion'
  BY <1>2, <1>5 DEF PortInv, Deletion, PhyDeleting
<1> QED
  BY <1>1, <1>4, <1>6, <1>7, <1>8 DEF PortInv

(* What the interrupt reads is a sequence of bytes.                        *)
Burst(n) == [k \in 1..n |-> came + k]

LEMMA BurstType ==
    ASSUME PortInv, NEW n \in Nat
    PROVE  /\ Burst(n) \in Seq(Nat) /\ (Burst(n) # <<>> <=> n # 0)
           /\ Len(Burst(n)) = n /\ (n # 0 => Burst(n)[n] = came + n)
<1>1. came \in Nat
  BY DEF PortInv, PhyTypeOK
<1> QED
  BY <1>1 DEF Burst

LEMMA InterruptInv ==
    ASSUME PortInv, NEW n \in 1..MaxBurst, Interrupt(n)
    PROVE  PortInv'
<1>1. Length(n) \in Nat /\ n \in Nat
  BY PhyUartAssumption, CycleQueueAssumption DEF Length
<1> PICK m \in Nat : m = Length(n)
  BY <1>1
<1>2. ~PhyDeleting
  BY DEF Interrupt, PortInv, Deletion
<1>3. /\ hw \in {"handler", "host"} /\ q' = Insert(q, Burst(m))
      /\ came' = came + n
      /\ UNCHANGED <<context, readbuf, masked, reader>>
  BY DEF Interrupt, Burst
<1>4. Burst(m) \in Seq(Nat) /\ (Burst(m) # <<>> <=> m # 0)
  BY BurstType
<1>5. rxmsgs' = IF q.empty /\ Burst(m) # <<>> THEN Append(rxmsgs, owner) ELSE rxmsgs
  BY <1>4 DEF Interrupt
<1> QED
  BY <1>1, <1>2, <1>3, <1>4, <1>5, BurstInv

LEMMA HostReceiveInv ==
    ASSUME PortInv, ~HostPreempts,
           NEW n \in 1..MaxBurst, HostReceive(n)
    PROVE  PortInv'
<1>1. n \in Nat /\ n # 0
  BY PhyUartAssumption, CycleQueueAssumption
<1>2. ~PhyDeleting
  BY DEF HostReceive
<1>3. /\ hw \in {"handler", "host"} /\ q' = Insert(q, Burst(n))
      /\ came' = came + n
      /\ UNCHANGED <<context, readbuf, masked, reader>>
  BY DEF HostReceive, Burst
<1>4. Burst(n) \in Seq(Nat) /\ Burst(n) # <<>>
  BY <1>1, BurstType
<1>5. rxmsgs' = IF q.empty /\ Burst(n) # <<>> THEN Append(rxmsgs, owner) ELSE rxmsgs
  BY <1>4 DEF HostReceive
<1> QED
  BY <1>1, <1>2, <1>3, <1>4, <1>5, BurstInv

LEMMA OpenInv ==
    ASSUME PortInv, NEW i \in Ids, NEW mode \in Modes, Open(i, mode)
    PROVE  PortInv'
<1>1. /\ ~PhyDeleting /\ ~opened[i] /\ owner' = i
      /\ opened' = [opened EXCEPT ![i] = TRUE]
      /\ workmode' = [workmode EXCEPT ![i] = mode]
      /\ port' = port /\ q' = q /\ readbuf' = readbuf /\ masked' = masked /\ rxmsgs' = rxmsgs
      /\ upc' = upc /\ rid' = rid /\ inline' = inline /\ took' = took /\ came' = came
  BY DEF Open, reader
<1>2. /\ hw' \in {"poll", "handler", "host"}
      /\ hw' \in {"handler", "host"} => mode # 1
  BY DEF Open
<1>3. mode \in 0..2
  BY DEF Modes
<1>4. Ids' = Ids
  BY <1>1 DEF Ids, PortOf
<1>5. /\ opened \in [Ids -> BOOLEAN] /\ workmode \in [Ids -> 0..2]
      /\ rid \in Ids /\ rxmsgs \in Seq(Ids)
  BY PortType
<1>6. /\ opened' \in [Ids -> BOOLEAN] /\ workmode' \in [Ids -> 0..2]
      /\ opened'[i] = TRUE /\ workmode'[i] = mode
      /\ \A j \in Ids :
           opened[j] => opened'[j] /\ workmode'[j] = workmode[j]
  BY ONLY <1>1, <1>3, <1>5, i \in Ids
<1>7. PhyTypeOK'
  <2>1. /\ port \in Ports /\ masked \in BOOLEAN /\ inline \in BOOLEAN
        /\ upc \in {"wait", "read", "copy", "emptied", "end"}
        /\ came \in Nat /\ took \in Nat /\ readbuf \in Seq(Nat)
        /\ q \in [buf : [0..(Size - 1) -> Nat],
                  head : 0..(Size - 1), tail : 0..(Size - 1),
                  empty : BOOLEAN, full : BOOLEAN, overflow : BOOLEAN]
    BY DEF PortInv, PhyTypeOK
  <2> QED
    BY <1>1, <1>2, <1>4, <1>5, <1>6, <2>1 DEF PhyTypeOK
<1>8. ~PhyDeleting' /\ Told(q')
  BY <1>1 DEF PortInv, PhyDeleting
<1>9. ClosedIsEmpty' /\ CalledIsOpen'
  BY <1>1, <1>2, <1>6 DEF ClosedIsEmpty, CalledIsOpen, Buffered
<1>10. PhyNoLostWakeup'
  <2>1. \A j \in Ids : Buffered(j) => opened'[j] /\ workmode'[j] # 1
    BY <1>6 DEF Buffered
  <2>2. \A k \in 1..Len(rxmsgs) : rxmsgs[k] \in Ids
    BY <1>5
  <2> QED
    BY <1>1, <1>5, <2>1, <2>2 DEF PortInv, PhyNoLostWakeup, Buffered
<1>11. Deletion'
  BY <1>1 DEF PortInv, Deletion, PhyDeleting
<1> QED
  BY <1>7, <1>8, <1>9, <1>10, <1>11 DEF PortInv

LEMMA CleanIs ==
    ASSUME NEW c \in Queue
    PROVE  Told(Clean(c)) /\ Clean(c).empty
<1>1. 0 \in 0..(Size - 1)
  BY CycleQueueAssumption
<1> PICK d : d = Clean(c)
  OBVIOUS
<1>2. d = [c EXCEPT !.head = 0, !.tail = 0, !.empty = TRUE, !.full = FALSE,
                    !.overflow = FALSE]
  BY DEF Clean
<1>3. /\ d \in Queue /\ d.head = 0 /\ d.tail = 0 /\ d.empty = TRUE
      /\ d.full = FALSE /\ d.overflow = FALSE
  BY ONLY <1>1, <1>2, c \in Queue DEF Queue
<1> QED
  BY <1>3 DEF Told

LEMMA CloseInv ==
    ASSUME PortInv, NEW i \in Ids, Close(i)
    PROVE  PortInv'
<1>1. /\ ~PhyDeleting /\ hw' = "off" /\ opened' = [opened EXCEPT ![i] = FALSE]
      /\ q' = Clean(q) /\ readbuf' = <<>>
      /\ port' = port /\ workmode' = workmode /\ owner' = owner
      /\ masked' = masked /\ rxmsgs' = rxmsgs /\ upc' = upc /\ rid' = rid
      /\ inline' = inline /\ took' = took /\ came' = came
  BY DEF Close, reader
<1>2. Told(q') /\ q'.empty
  BY <1>1, CleanIs, PortType
<1>3. Ids' = Ids
  BY <1>1 DEF Ids, PortOf
<1>4. PhyTypeOK'
  <2>1. /\ port \in Ports /\ masked \in BOOLEAN /\ inline \in BOOLEAN
        /\ upc \in {"wait", "read", "copy", "emptied", "end"}
        /\ came \in Nat /\ took \in Nat
    BY DEF PortInv, PhyTypeOK
  <2>2. opened' \in [Ids -> BOOLEAN] /\ readbuf' \in Seq(Nat)
    BY <1>1, PortType
  <2> QED
    BY <1>1, <1>2, <1>3, <2>1, <2>2, PortType DEF PhyTypeOK, Told, Queue, Buffers
<1>5. ClosedIsEmpty' /\ CalledIsOpen' /\ PhyNoLostWakeup'
  BY <1>1, <1>2 DEF ClosedIsEmpty, CalledIsOpen, PhyNoLostWakeup
<1>6. Deletion'
  BY <1>1 DEF PortInv, Deletion, PhyDeleting
<1> QED
  BY <1>2, <1>4, <1>5, <1>6 DEF PortInv

(* The Lua task: the context and what the port has received are left alone.*)
LuaFrame == UNCHANGED <<context, came>>

LEMMA LuaType ==
    ASSUME PortInv, LuaFrame, q' \in Queue, readbuf' \in Seq(Nat),
           masked' \in BOOLEAN, rxmsgs' \in Seq(Ids), rid' \in Ids,
           upc' \in {"wait", "read", "copy", "emptied", "end"},
           inline' \in BOOLEAN, took' \in Nat
    PROVE  PhyTypeOK'
<1>1. came' \in Nat /\ UNCHANGED context
  BY DEF LuaFrame, PortInv, PhyTypeOK
<1> QED
  BY <1>1, TypeFrom

LEMMA LuaContext ==
    ASSUME PortInv, LuaFrame
    PROVE  /\ CalledIsOpen' /\ hw' = hw
           /\ \A i : (opened'[i] /\ workmode'[i] # 1) <=> Buffered(i)
<1>1. /\ opened' = opened /\ workmode' = workmode /\ hw' = hw /\ owner' = owner
  BY DEF LuaFrame, context
<1> QED
  BY <1>1 DEF PortInv, CalledIsOpen, Buffered

LEMMA TakeMessageInv == PortInv /\ PhyTakeMessage => PortInv'
<1> SUFFICES ASSUME PortInv, PhyTakeMessage PROVE PortInv'
  OBVIOUS
<1>1. /\ upc = "wait" /\ rxmsgs # <<>> /\ rid' = Head(rxmsgs) /\ rxmsgs' = Tail(rxmsgs)
      /\ upc' = "read" /\ q' = q /\ readbuf' = readbuf /\ masked' = masked
      /\ inline' = inline /\ came' = came /\ took' = took /\ LuaFrame
  BY DEF PhyTakeMessage, LuaFrame
<1>2. /\ rxmsgs \in Seq(Ids) /\ Head(rxmsgs) = rxmsgs[1] /\ rxmsgs[1] \in Ids
      /\ Tail(rxmsgs) \in Seq(Ids) /\ Len(rxmsgs) \in Nat /\ Len(rxmsgs) > 0
      /\ Len(Tail(rxmsgs)) = Len(rxmsgs) - 1
      /\ \A k \in 1..(Len(rxmsgs) - 1) : Tail(rxmsgs)[k] = rxmsgs[k + 1]
  BY <1>1, PortType
<1>3. /\ q \in Queue /\ readbuf \in Seq(Nat) /\ masked \in BOOLEAN
      /\ inline \in BOOLEAN /\ took \in Nat
  BY PortType DEF PortInv, PhyTypeOK
<1>4. PhyTypeOK'
  BY <1>1, <1>2, <1>3, LuaType
<1>5. ~PhyDeleting /\ ~PhyDeleting' /\ Told(q')
  BY <1>1 DEF PortInv, PhyDeleting
<1>6. PhyNoLostWakeup'
  <2> SUFFICES ASSUME ~q.empty \/ readbuf # <<>> PROVE PhyNoLostWakeup'
    BY <1>1 DEF PhyNoLostWakeup
  <2>1. PICK k \in 1..Len(rxmsgs) : Buffered(rxmsgs[k])
    BY <1>1 DEF PortInv, PhyNoLostWakeup
  <2>2. CASE k = 1
    <3>1. opened'[rid'] /\ workmode'[rid'] # 1
      BY <1>1, <1>2, <2>1, <2>2, LuaContext
    <3> QED
      BY <1>1, <3>1 DEF PhyNoLostWakeup, Buffered
  <2>3. CASE k # 1
    <3> PICK j : j = k - 1
      OBVIOUS
    <3>1. /\ j \in 1..Len(rxmsgs') /\ rxmsgs'[j] = rxmsgs[k]
      BY <1>1, <1>2, <2>3
    <3>2. opened'[rxmsgs'[j]] /\ workmode'[rxmsgs'[j]] # 1
      BY <1>1, <2>1, <3>1, LuaContext
    <3> QED
      BY <3>1, <3>2 DEF PhyNoLostWakeup, Buffered
  <2> QED
    BY <2>2, <2>3
<1>7. Deletion'
  BY <1>1, <1>5 DEF PortInv, Deletion, PhyDeleting
<1> QED
  BY <1>1, <1>4, <1>5, <1>6, <1>7, LuaContext DEF PortInv, ClosedIsEmpty

(* As long as the id that is read is open, bytes have a reader.            *)
LEMMA ReaderIsThere ==
    ASSUME PortInv, LuaFrame, rid' = rid, upc' # "wait", Buffered(rid)
    PROVE  PhyNoLostWakeup'
<1>1. opened'[rid'] /\ workmode'[rid'] # 1
  BY LuaContext
<1> QED
  BY <1>1 DEF PhyNoLostWakeup, Buffered

LEMMA ReadByteInv == PortInv /\ PhyReadByte => PortInv'
<1> SUFFICES ASSUME PortInv, PhyReadByte PROVE PortInv'
  OBVIOUS
<1>1. /\ upc = "read" /\ Buffered(rid) /\ readbuf # <<>> /\ took' = Head(readbuf)
      /\ readbuf' = Tail(readbuf) /\ inline' \in BOOLEAN /\ LuaFrame
      /\ q' = q /\ masked' = masked /\ rxmsgs' = rxmsgs /\ upc' = upc /\ rid' = rid
  BY DEF PhyReadByte, LuaFrame
<1>2. /\ q \in Queue /\ readbuf \in Seq(Nat) /\ masked \in BOOLEAN
      /\ rxmsgs \in Seq(Ids) /\ rid \in Ids
  BY PortType DEF PortInv, PhyTypeOK
<1>3. Tail(readbuf) \in Seq(Nat) /\ Head(readbuf) \in Nat
  BY <1>1, <1>2
<1>4. PhyTypeOK'
  BY <1>1, <1>2, <1>3, LuaType
<1>5. ~PhyDeleting /\ ~PhyDeleting' /\ Told(q')
  BY <1>1 DEF PortInv, PhyDeleting
<1>6. PhyNoLostWakeup'
  BY <1>1, ReaderIsThere
<1>7. Deletion' /\ hw # "off"
  BY <1>1, <1>5 DEF PortInv, Deletion, PhyDeleting, ClosedIsEmpty
<1> QED
  BY <1>1, <1>4, <1>5, <1>6, <1>7, LuaContext DEF PortInv, ClosedIsEmpty

LEMMA RefillInv == PortInv /\ PhyRefill => PortInv'
<1> SUFFICES ASSUME PortInv, PhyRefill PROVE PortInv'
  OBVIOUS
<1>1. /\ upc = "read" /\ Buffered(rid) /\ readbuf = <<>> /\ masked' = TRUE
      /\ upc' = (IF q.empty THEN "end" ELSE "copy") /\ LuaFrame
      /\ q' = q /\ readbuf' = readbuf /\ rxmsgs' = rxmsgs /\ rid' = rid
      /\ inline' = inline /\ took' = took
  BY DEF PhyRefill, LuaFrame
<1>2. /\ q \in Queue /\ readbuf \in Seq(Nat) /\ inline \in BOOLEAN /\ took \in Nat
      /\ rxmsgs \in Seq(Ids) /\ rid \in Ids
  BY PortType DEF PortInv, PhyTypeOK
<1>3. PhyTypeOK'
  BY <1>1, <1>2, LuaType
<1>4. ~PhyDeleting /\ PhyDeleting' /\ Told(q)
  BY <1>1 DEF PortInv, PhyDeleting
<1>5. PhyNoLostWakeup'
  BY <1>1, ReaderIsThere
<1>6. Buffered(rid)'
  BY <1>1, LuaContext DEF Buffered
<1>7. Deletion'
  BY <1>1, <1>4, <1>6 DEF Deletion, PhyDeleting, Told
<1> QED
  BY <1>1, <1>3, <1>4, <1>5, <1>7, LuaContext DEF PortInv, ClosedIsEmpty

(* A turn of QueueDelete: the fields of the buffer                         *)
LEMMA TakeFields ==
    ASSUME PortInv, PhyDeleteByte
    PROVE  /\ q' \in Queue /\ q'.tail = Succ(q.tail)
           /\ q'.buf = q.buf /\ q'.head = q.head /\ q'.empty = q.empty
           /\ q'.full = q.full /\ q'.overflow = q.overflow
           /\ upc' = IF Succ(q.tail) = q.head THEN "emptied"
                     ELSE IF Len(readbuf) + 1 = Chunk THEN "end" ELSE "copy"
<1>1. q \in Queue /\ Succ(q.tail) \in 0..(Size - 1)
  BY PortType, SuccInBuffer DEF Queue
<1>2. /\ q' = [q EXCEPT !.tail = Succ(q.tail)]
      /\ upc' = IF Succ(q.tail) = q.head THEN "emptied"
                ELSE IF Len(readbuf) + 1 = Chunk THEN "end" ELSE "copy"
  BY DEF PhyDeleteByte, Succ, Succ
<1> PICK t : t = Succ(q.tail)
  OBVIOUS
<1>3. q' = [q EXCEPT !.tail = t] /\ t \in 0..(Size - 1)
  BY <1>1, <1>2
<1>4. /\ q' \in Queue /\ q'.tail = t /\ q'.buf = q.buf /\ q'.head = q.head
      /\ q'.empty = q.empty /\ q'.full = q.full /\ q'.overflow = q.overflow
  BY ONLY <1>1, <1>3 DEF Queue
<1> QED
  BY <1>2, <1>4

LEMMA DeleteByteInv == PortInv /\ PhyDeleteByte => PortInv'
<1> SUFFICES ASSUME PortInv, PhyDeleteByte PROVE PortInv'
  OBVIOUS
<1>1. /\ upc = "copy" /\ readbuf' = Append(readbuf, q.buf[q.tail]) /\ LuaFrame
      /\ masked' = masked /\ rxmsgs' = rxmsgs /\ rid' = rid
      /\ inline' = inline /\ took' = took
  BY DEF PhyDeleteByte, LuaFrame
<1>2. /\ q \in Queue /\ readbuf \in Seq(Nat) /\ inline \in BOOLEAN /\ took \in Nat
      /\ rxmsgs \in Seq(Ids) /\ rid \in Ids /\ masked \in BOOLEAN
  BY PortType DEF PortInv, PhyTypeOK
<1>3. q.buf[q.tail] \in Nat
  BY <1>2 DEF Queue, Buffers
<1>4. readbuf' \in Seq(Nat) /\ readbuf' # <<>>
  BY <1>1, <1>2, <1>3, AppendProperties
<1>5. PhyDeleting /\ ~q.empty /\ Buffered(rid)
  BY <1>1 DEF PortInv, Deletion, PhyDeleting
<1>6. upc' \in {"copy", "emptied", "end"} /\ PhyDeleting'
  BY TakeFields DEF PhyDeleting
<1>7. PhyTypeOK'
  BY <1>1, <1>2, <1>4, <1>6, TakeFields, LuaType
<1>8. PhyNoLostWakeup'
  BY <1>1, <1>5, <1>6, ReaderIsThere
<1>9. hw # "off"
  BY <1>5 DEF PortInv, ClosedIsEmpty
<1>10. Buffered(rid)'
  BY <1>1, <1>5, LuaContext DEF Buffered
<1>11. Deletion'
  <2>1. (masked' <=> PhyDeleting') /\ (q'.overflow => q'.full)
    BY <1>1, <1>5, <1>6, TakeFields DEF PortInv, Deletion
  <2>2. /\ upc' = "copy" => ~q'.empty
        /\ upc' = "emptied" => ~q'.empty /\ q'.head = q'.tail
        /\ upc' = "end" => (q'.head = q'.tail <=> q'.empty)
    BY <1>5, TakeFields
  <2> QED
    BY <1>4, <1>10, <2>1, <2>2 DEF Deletion
<1> QED
  BY <1>6, <1>7, <1>8, <1>9, <1>11, LuaContext, <1>1 DEF PortInv, ClosedIsEmpty

LEMMA DeleteLastInv == PortInv /\ DeleteLast => PortInv'
<1> SUFFICES ASSUME PortInv, DeleteLast PROVE PortInv'
  OBVIOUS
<1>1. /\ upc = "emptied" /\ upc' = "end" /\ q' = [q EXCEPT !.empty = TRUE]
      /\ LuaFrame /\ readbuf' = readbuf /\ masked' = masked /\ rxmsgs' = rxmsgs
      /\ rid' = rid /\ inline' = inline /\ took' = took
  BY DEF DeleteLast, LuaFrame
<1>2. /\ q \in Queue /\ readbuf \in Seq(Nat) /\ inline \in BOOLEAN /\ took \in Nat
      /\ rxmsgs \in Seq(Ids) /\ rid \in Ids /\ masked \in BOOLEAN
  BY PortType DEF PortInv, PhyTypeOK
<1>3. /\ q' \in Queue /\ q'.empty = TRUE /\ q'.head = q.head /\ q'.tail = q.tail
      /\ q'.full = q.full /\ q'.overflow = q.overflow
  BY ONLY <1>1, <1>2 DEF Queue
<1>4. /\ PhyDeleting /\ PhyDeleting' /\ ~q.empty /\ Buffered(rid)
      /\ q.head = q.tail /\ readbuf # <<>> /\ (q.overflow => q.full) /\ masked
  BY <1>1 DEF PortInv, Deletion, PhyDeleting
<1>5. PhyTypeOK'
  BY <1>1, <1>2, <1>3, LuaType
<1>6. PhyNoLostWakeup'
  BY <1>1, <1>4, ReaderIsThere
<1>7. hw # "off"
  BY <1>4 DEF PortInv, ClosedIsEmpty
<1>8. Buffered(rid)'
  BY <1>1, <1>4, LuaContext DEF Buffered
<1>9. Deletion'
  BY <1>1, <1>3, <1>4, <1>8 DEF Deletion
<1> QED
  BY <1>1, <1>4, <1>5, <1>6, <1>7, <1>9, LuaContext DEF PortInv, ClosedIsEmpty

LEMMA DeleteEndInv == PortInv /\ PhyDeleteEnd => PortInv'
<1> SUFFICES ASSUME PortInv, PhyDeleteEnd PROVE PortInv'
  OBVIOUS
<1>1. /\ upc = "end" /\ masked' = FALSE
      /\ q' = (IF readbuf # <<>> /\ q.full
               THEN [q EXCEPT !.full = FALSE, !.overflow = FALSE] ELSE q)
      /\ upc' = (IF readbuf = <<>> /\ ~inline THEN "wait" ELSE "read")
      /\ inline' = (inline /\ readbuf # <<>>)
      /\ LuaFrame /\ readbuf' = readbuf /\ rxmsgs' = rxmsgs /\ rid' = rid /\ took' = took
  BY DEF PhyDeleteEnd, LuaFrame
<1>2. /\ q \in Queue /\ readbuf \in Seq(Nat) /\ inline \in BOOLEAN /\ took \in Nat
      /\ rxmsgs \in Seq(Ids) /\ rid \in Ids /\ masked \in BOOLEAN
  BY PortType DEF PortInv, PhyTypeOK
<1>3. /\ PhyDeleting /\ Buffered(rid) /\ (q.overflow => q.full)
      /\ readbuf = <<>> => q.empty /\ Told(q)
      /\ readbuf # <<>> => (q.head = q.tail <=> q.empty)
  BY <1>1 DEF PortInv, Deletion, PhyDeleting
<1>4. /\ q' \in Queue /\ q'.head = q.head /\ q'.tail = q.tail /\ q'.empty = q.empty
      /\ readbuf # <<>> => ~q'.full /\ ~q'.overflow
      /\ readbuf = <<>> => q' = q
  <2>1. CASE readbuf # <<>> /\ q.full
    <3>1. q' = [q EXCEPT !.full = FALSE, !.overflow = FALSE]
      BY <1>1, <2>1
    <3>2. /\ q' \in Queue /\ q'.head = q.head /\ q'.tail = q.tail
          /\ q'.empty = q.empty /\ q'.full = FALSE /\ q'.overflow = FALSE
      BY ONLY <1>2, <3>1 DEF Queue
    <3> QED
      BY <2>1, <3>2
  <2>2. CASE ~(readbuf # <<>> /\ q.full)
    BY <1>1, <1>2, <1>3, <2>2
  <2> QED
    BY <2>1, <2>2
<1>5. Told(q')
  BY <1>3, <1>4 DEF Told
<1>6. ~PhyDeleting'
  BY <1>1 DEF PhyDeleting
<1>7. PhyTypeOK'
  BY <1>1, <1>2, <1>4, LuaType
<1>8. PhyNoLostWakeup'
  <2>1. CASE readbuf # <<>> \/ inline
    BY <1>1, <1>3, <2>1, ReaderIsThere
  <2>2. CASE readbuf = <<>> /\ ~inline
    BY <1>1, <1>3, <1>4, <2>2 DEF PhyNoLostWakeup
  <2> QED
    BY <2>1, <2>2
<1>9. ClosedIsEmpty'
  BY <1>1, <1>4, LuaContext DEF PortInv, ClosedIsEmpty
<1>10. Deletion'
  BY <1>1, <1>6 DEF Deletion, PhyDeleting
<1> QED
  BY <1>1, <1>5, <1>7, <1>8, <1>9, <1>10, LuaContext DEF PortInv

LEMMA ReadElsewhereInv == PortInv /\ ReadElsewhere => PortInv'
<1> SUFFICES ASSUME PortInv, ReadElsewhere PROVE PortInv'
  OBVIOUS
<1>1. /\ upc = "read" /\ ~Buffered(rid) /\ upc' = "wait" /\ inline' = FALSE
      /\ LuaFrame /\ q' = q /\ readbuf' = readbuf /\ masked' = masked /\ rxmsgs' = rxmsgs
      /\ rid' = rid /\ took' = took
  BY DEF ReadElsewhere, LuaFrame
<1>2. /\ q \in Queue /\ readbuf \in Seq(Nat) /\ took \in Nat /\ masked \in BOOLEAN
      /\ rxmsgs \in Seq(Ids) /\ rid \in Ids
  BY PortType DEF PortInv, PhyTypeOK
<1>3. PhyTypeOK'
  BY <1>1, <1>2, LuaType
<1>4. ~PhyDeleting /\ ~PhyDeleting' /\ Told(q')
  BY <1>1 DEF PortInv, PhyDeleting
<1>5. PhyNoLostWakeup'
  <2> SUFFICES ASSUME ~q.empty \/ readbuf # <<>> PROVE PhyNoLostWakeup'
    BY <1>1 DEF PhyNoLostWakeup
  <2>1. PICK k \in 1..Len(rxmsgs) : Buffered(rxmsgs[k])
    BY <1>1 DEF PortInv, PhyNoLostWakeup
  <2>2. opened'[rxmsgs[k]] /\ workmode'[rxmsgs[k]] # 1
    BY <1>1, <2>1, LuaContext
  <2> QED
    BY <1>1, <2>2 DEF PhyNoLostWakeup, Buffered
<1>6. Deletion'
  BY <1>1, <1>4 DEF PortInv, Deletion, PhyDeleting
<1> QED
  BY <1>1, <1>3, <1>4, <1>5, <1>6, LuaContext DEF PortInv, ClosedIsEmpty

LEMMA PortStutterInv == PortInv /\ UNCHANGED phyvars => PortInv'
<1> SUFFICES ASSUME PortInv, UNCHANGED phyvars PROVE PortInv'
  OBVIOUS
<1>1. /\ LuaFrame /\ q' = q /\ readbuf' = readbuf /\ masked' = masked /\ rxmsgs' = rxmsgs
      /\ upc' = upc /\ rid' = rid /\ inline' = inline /\ took' = took
  BY DEF phyvars, reader, LuaFrame
<1>2. PhyTypeOK'
  <2>1. /\ q \in Queue /\ readbuf \in Seq(Nat) /\ took \in Nat /\ masked \in BOOLEAN
        /\ rxmsgs \in Seq(Ids) /\ rid \in Ids /\ inline \in BOOLEAN
        /\ upc \in {"wait", "read", "copy", "emptied", "end"}
    BY PortType DEF PortInv, PhyTypeOK
  <2> QED
    BY <1>1, <2>1, LuaType
<1>3. (~PhyDeleting' => Told(q')) /\ Deletion'
  <2>1. Buffered(rid)' <=> Buffered(rid)
    BY <1>1, LuaContext DEF Buffered
  <2> QED
    BY <1>1, <2>1 DEF PortInv, Deletion, PhyDeleting
<1>4. PhyNoLostWakeup'
  BY <1>1, LuaContext DEF PortInv, PhyNoLostWakeup, Buffered
<1> QED
  BY <1>1, <1>2, <1>3, <1>4, LuaContext DEF PortInv, ClosedIsEmpty

LEMMA PortStepInv ==
    ASSUME ~HostPreempts, PortInv, [PhyNext]_phyvars
    PROVE  PortInv'
<1>1. CASE \E i \in Ids : Close(i)
  BY <1>1, CloseInv
<1>2. CASE \E i \in Ids, mode \in Modes : Open(i, mode)
  BY <1>2, OpenInv
<1>3. CASE \E n \in 1..MaxBurst : Interrupt(n) \/ HostReceive(n)
  BY <1>3, InterruptInv, HostReceiveInv
<1>4. CASE PhyLua
  BY <1>4, TakeMessageInv, ReadByteInv, RefillInv, DeleteByteInv, DeleteLastInv,
     DeleteEndInv, ReadElsewhereInv DEF PhyLua
<1>5. CASE UNCHANGED phyvars
  BY <1>5, PortStutterInv
<1> QED
  BY <1>1, <1>2, <1>3, <1>4, <1>5 DEF PhyNext

LEMMA PortInvHolds ==
    ~HostPreempts => (PhySpec => []PortInv)
<1> SUFFICES ASSUME ~HostPreempts
             PROVE  PhySpec => []PortInv
  OBVIOUS
<1>1. PhyInit => PortInv
  BY PortInitInv
<1>2. PortInv /\ [PhyNext]_phyvars => PortInv'
  BY PortStepInv
<1> QED
  BY <1>1, <1>2, PTL DEF PhySpec

(* A physical UART is sound through opening and closing its ids and through*)
(* interrupts between any two turns of QueueDelete, if nothing lets the    *)
(* host's callback into one: the flags tell an empty buffer from a full    *)
(* one, a closed port holds nothing, interrupts go to an open id, and no   *)
(* byte waits without a reader (platform_uart.c 213-501).                  *)
THEOREM PortIsSound ==
    ~HostPreempts => (PhySpec => []PhyInv)
<1> SUFFICES ASSUME ~HostPreempts
             PROVE  PhySpec => []PhyInv
  OBVIOUS
<1>1. PhySpec => []PortInv
  BY PortInvHolds
<1> QED
  BY <1>1, PortInvIsInv, PTL

----------------------------------------------------------------------------
(* The refinement                                                          *)

LEMMA PortContents ==
    /\ upc # "emptied" => PhyContents = Holds(q)
    /\ upc' # "emptied" => PhyContents' = Holds(q')
    /\ PhyContents = Segment(q.buf, q.tail, PhyCount)
    /\ PhyContents' = Segment(q'.buf, q'.tail, PhyCount')
<1>1. upc # "emptied" => PhyCount = Number(q, q.tail)
  BY DEF PhyCount, Number, Gap
<1>2. upc' # "emptied" => PhyCount' = Number(q', q'.tail)
  BY DEF PhyCount, Number, Gap
<1>3. /\ PhyContents = Segment(q.buf, q.tail, PhyCount)
      /\ PhyContents' = Segment(q'.buf, q'.tail, PhyCount')
  BY DEF PhyContents, Segment
<1> QED
  BY <1>1, <1>2, <1>3 DEF Holds

LEMMA NoneIsEmpty ==
    ASSUME NEW b, NEW o
    PROVE  Segment(b, o, 0) = <<>>
BY DEF Segment

(* What is left of the old bytes comes first in the new queue.             *)
LEMMA GoesOnIsBurst ==
    ASSUME NEW s \in Seq(Nat), NEW u \in Seq(Nat), GoesOn(s, u),
           s = PhyContents, u = PhyContents', hw # "off", hw' = hw
    PROVE  Port!Burst
<1>1. PICK k \in 0..Len(s) : GaveUp(s, u, k) /\ Len(s) - k < Len(u)
  BY DEF GoesOn
<1> PICK m \in Nat : m = Len(s) - k
  OBVIOUS
<1>2. /\ Len(s) \in Nat /\ Len(u) \in Nat /\ k \in Nat /\ m < Len(u)
      /\ m + k = Len(s) /\ Size \in Nat
  BY <1>1, CycleQueueAssumption
<1>3. \A i \in 1..m : u[i] = s[i + k]
  BY <1>1 DEF GaveUp
<1>4. /\ SubSeq(u, 1, m) \in Seq(Nat) /\ Len(SubSeq(u, 1, m)) = m
      /\ \A i \in 1..m : SubSeq(u, 1, m)[i] = u[i]
  <2>1. 1 \in Int /\ m \in Int /\ \A i \in 1..m : u[i] \in Nat
    BY <1>2
  <2>2. /\ SubSeq(u, 1, m) \in Seq(Nat)
        /\ Len(SubSeq(u, 1, m)) = IF 1 <= m THEN m - 1 + 1 ELSE 0
        /\ \A i \in 1..(m - 1 + 1) : SubSeq(u, 1, m)[i] = u[1 + i - 1]
    BY ONLY <2>1, SubSeqProperties
  <2>3. m - 1 + 1 = m /\ \A i \in 1..m : 1 + i - 1 = i
    OBVIOUS
  <2> QED
    BY <2>2, <2>3
<1>5. /\ SubSeq(s, k + 1, Len(s)) \in Seq(Nat)
      /\ Len(SubSeq(s, k + 1, Len(s))) = m
      /\ \A i \in 1..m : SubSeq(s, k + 1, Len(s))[i] = s[i + k]
  BY <1>2
<1>6. SubSeq(u, 1, m) = SubSeq(s, k + 1, Len(s))
  BY <1>3, <1>4, <1>5, SeqEqual
<1>7. /\ k > 0 => Len(u) = Size
      /\ Len(u) > Len(s) - k /\ Len(u) <= Size
  BY <1>1, <1>2 DEF GaveUp
<1>8. /\ k > 0 => Len(PhyContents') = Size
      /\ Len(PhyContents') > Len(PhyContents) - k /\ Len(PhyContents') <= Size
      /\ SubSeq(PhyContents', 1, Len(PhyContents) - k) =
           Port!Suffix(PhyContents, k)
      /\ k \in 0..Len(PhyContents)
  BY <1>6, <1>7 DEF Port!Suffix
<1> QED
  BY <1>8 DEF Port!Burst

LEMMA HoldsType ==
    ASSUME NEW c, Told(c)
    PROVE  Holds(c) \in Seq(Nat)
BY ToldIsFilling, NumberIs DEF Holds

(* A burst that is not empty                                               *)
LEMMA BurstIs ==
    ASSUME PortInv, ~PhyDeleting, upc' = upc, NEW s \in Seq(Nat), s # <<>>,
           q' = Insert(q, s), hw # "off", hw' = hw
    PROVE  /\ Port!Burst
           /\ ~q'.empty /\ Last(PhyContents') = s[Len(s)]
<1>1. upc # "emptied" /\ upc' # "emptied" /\ Told(q)
  BY DEF PhyDeleting, PortInv
<1>2. /\ Told(q') /\ ~q'.empty /\ Holds(q')[Len(Holds(q'))] = s[Len(s)]
      /\ GoesOn(Holds(q), Holds(q'))
  BY <1>1, InsertIs
<1>3. PhyContents = Holds(q) /\ PhyContents' = Holds(q')
  BY <1>1, PortContents
<1>4. Holds(q) \in Seq(Nat) /\ Holds(q') \in Seq(Nat)
  BY <1>1, <1>2, HoldsType
<1>5. Port!Burst
  BY <1>2, <1>3, <1>4, GoesOnIsBurst
<1> QED
  BY <1>2, <1>3, <1>5 DEF Last

(* Nothing changes for the user of the port.                               *)
PortStutters == PhyContents' = PhyContents /\ (hw' # "off" <=> hw # "off")

LEMMA InterruptRefines ==
    ASSUME PortInv, NEW n \in 1..MaxBurst,
           Interrupt(n)
    PROVE  /\ Port!Burst \/ PortStutters
           /\ MaxBurst < Lengths =>
                ~q'.empty /\ Last(PhyContents') = came'
<1>1. Length(n) \in Nat /\ n \in Nat /\ n # 0
  BY PhyUartAssumption, CycleQueueAssumption DEF Length
<1> PICK m \in Nat : m = Length(n)
  BY <1>1
<1>2. /\ hw = "handler" /\ ~PhyDeleting /\ q' = Insert(q, Burst(m))
      /\ came' = came + n /\ hw' = hw /\ upc' = upc
  BY DEF Interrupt, PortInv, Deletion, Burst, context, reader
<1>3. /\ Burst(m) \in Seq(Nat) /\ (Burst(m) # <<>> <=> m # 0)
      /\ Len(Burst(m)) = m /\ (m # 0 => Burst(m)[m] = came + m)
  BY BurstType
<1>4. m # 0 => /\ Port!Burst
               /\ ~q'.empty /\ Last(PhyContents') = came + m
  BY <1>2, <1>3, BurstIs
<1>5. m = 0 => PortStutters
  <2> SUFFICES ASSUME m = 0 PROVE PortStutters
    OBVIOUS
  <2>1. q' = q
    BY <1>2, <1>3, InsertIs DEF PortInv
  <2>2. upc # "emptied" /\ upc' # "emptied"
    BY <1>2 DEF PhyDeleting
  <2> QED
    BY <1>2, <2>1, <2>2, PortContents DEF PortStutters
<1>6. MaxBurst < Lengths => m = n
  <2>1. Lengths \in Nat /\ Lengths > 0 /\ MaxBurst \in Nat
    BY PhyUartAssumption, CycleQueueAssumption
  <2> QED
    BY <1>1, <2>1 DEF Length
<1> QED
  BY <1>1, <1>2, <1>4, <1>5, <1>6

LEMMA HostReceiveRefines ==
    ASSUME ~HostPreempts, PortInv,
           NEW n \in 1..MaxBurst, HostReceive(n)
    PROVE  /\ Port!Burst
           /\ ~q'.empty /\ Last(PhyContents') = came'
<1>1. n \in Nat /\ n # 0
  BY PhyUartAssumption, CycleQueueAssumption
<1>2. /\ hw = "host" /\ ~PhyDeleting /\ q' = Insert(q, Burst(n))
      /\ came' = came + n /\ hw' = hw /\ upc' = upc
  BY DEF HostReceive, Burst, context, reader
<1>3. /\ Burst(n) \in Seq(Nat) /\ Burst(n) # <<>>
      /\ Len(Burst(n)) = n /\ Burst(n)[n] = came + n
  BY <1>1, BurstType
<1> QED
  BY <1>2, <1>3, BurstIs

LEMMA DeleteByteRefines ==
    ASSUME PortInv, PhyDeleteByte
    PROVE  Port!Take
<1> PICK h : h = q.head
  OBVIOUS
<1> PICK t : t = q.tail
  OBVIOUS
<1>1. upc = "copy" /\ ~q.empty /\ hw' = hw
  BY DEF PhyDeleteByte, PortInv, Deletion, context
<1>2. /\ q'.tail = Succ(t) /\ q'.buf = q.buf /\ q'.head = h /\ ~q'.empty
      /\ upc' = "emptied" <=> Succ(t) = h
  BY <1>1, TakeFields
<1>3. /\ Size \in Nat /\ Size > 0 /\ q.buf \in Buffers
      /\ h \in 0..(Size - 1) /\ t \in 0..(Size - 1) /\ Succ(t) \in 0..(Size - 1)
  BY PortType, SuccInBuffer, CycleQueueAssumption DEF Queue
<1> PICK n : n = PhyCount
  OBVIOUS
<1>4. n = IF h = t THEN Size ELSE Gap(h, t)
  BY <1>1 DEF PhyCount, Gap
<1>5. PhyCount' = IF Succ(t) = h THEN 0 ELSE Gap(h, Succ(t))
  BY <1>2 DEF PhyCount, Gap
<1>6. n \in 1..Size /\ PhyCount' = n - 1
  <2>1. /\ Gap(h, t) = IF t <= h THEN h - t ELSE h + Size - t
        /\ Gap(h, Succ(t)) =
             IF Succ(t) <= h THEN h - Succ(t) ELSE h + Size - Succ(t)
    BY <1>3, GapIs
  <2>2. Succ(t) = IF t = Size - 1 THEN 0 ELSE t + 1
    BY <1>3, SuccIs
  <2>3. CASE Succ(t) = h
    <3>1. n = 1
      BY <1>3, <1>4, <2>1, <2>2, <2>3
    <3> QED
      BY <1>3, <1>5, <2>3, <3>1
  <2>4. CASE Succ(t) # h
    BY <1>3, <1>4, <1>5, <2>1, <2>2, <2>4
  <2> QED
    BY <2>3, <2>4
<1>7. /\ Segment(q.buf, t, n) # <<>>
      /\ Tail(Segment(q.buf, t, n)) = Segment(q.buf, Succ(t), n - 1)
  BY <1>3, <1>6, SegmentTail
<1>8. PhyContents # <<>> /\ PhyContents' = Tail(PhyContents)
  BY <1>2, <1>6, <1>7, PortContents
<1> QED
  BY <1>1, <1>8 DEF Port!Take

LEMMA OpenRefines ==
    ASSUME PortInv, NEW i \in Ids, NEW mode \in Modes, Open(i, mode)
    PROVE  Port!SwitchOn \/ PortStutters
<1>1. hw' # "off" /\ q' = q /\ upc' = upc
  BY DEF Open, reader
<1>2. PhyContents' = PhyContents
  BY <1>1 DEF PhyContents, PhyCount
<1> QED
  BY <1>1, <1>2 DEF Port!SwitchOn, PortStutters

LEMMA CloseRefines ==
    ASSUME PortInv, NEW i \in Ids, Close(i)
    PROVE  Port!SwitchOff \/ PortStutters
<1>1. ~PhyDeleting /\ hw' = "off" /\ q' = Clean(q) /\ upc' = upc
  BY DEF Close, reader
<1>2. q'.empty
  BY <1>1, CleanIs, PortType
<1>3. PhyCount' = 0 /\ (q.empty => PhyCount = 0)
  BY <1>2 DEF PhyCount
<1>4. PhyContents' = <<>> /\ (q.empty => PhyContents = <<>>)
  BY <1>3, PortContents, NoneIsEmpty
<1>5. hw = "off" => q.empty
  BY DEF PortInv, ClosedIsEmpty
<1> QED
  BY <1>1, <1>4, <1>5 DEF Port!SwitchOff, PortStutters

LEMMA LuaRefines ==
    ASSUME PortInv, PhyLua
    PROVE  Port!Take \/ PortStutters
<1>1. CASE PhyTakeMessage \/ PhyReadByte \/ PhyRefill \/ ReadElsewhere
  <2>1. q' = q /\ hw' = hw /\ upc # "emptied" /\ upc' # "emptied"
    BY <1>1 DEF PhyTakeMessage, PhyReadByte, PhyRefill, ReadElsewhere,
       context
  <2> QED
    BY <2>1, PortContents DEF PortStutters
<1>2. CASE PhyDeleteByte
  BY <1>2, DeleteByteRefines
<1>3. CASE DeleteLast
  <2>1. /\ upc = "emptied" /\ q' = [q EXCEPT !.empty = TRUE] /\ hw' = hw
        /\ q \in Queue
    BY <1>3, PortType DEF DeleteLast, context
  <2>2. q'.empty = TRUE
    BY ONLY <2>1 DEF Queue
  <2>3. PhyCount = 0 /\ PhyCount' = 0
    BY <2>1, <2>2 DEF PhyCount
  <2>4. PhyContents = <<>> /\ PhyContents' = <<>>
    BY <2>3, PortContents, NoneIsEmpty
  <2> QED
    BY <2>1, <2>4 DEF PortStutters
<1>4. CASE PhyDeleteEnd
  <2>1. /\ upc = "end" /\ upc' \in {"wait", "read"} /\ hw' = hw /\ q \in Queue
        /\ \/ q' = [q EXCEPT !.full = FALSE, !.overflow = FALSE]
           \/ q' = q
    BY <1>4, PortType DEF PhyDeleteEnd, context
  <2>2. /\ q'.buf = q.buf /\ q'.head = q.head /\ q'.tail = q.tail
        /\ q'.empty = q.empty
    BY ONLY <2>1 DEF Queue
  <2>3. Holds(q') = Holds(q)
    BY <2>2 DEF Holds, Number
  <2>4. PhyContents' = PhyContents
    BY <2>1, <2>3, PortContents
  <2> QED
    BY <2>1, <2>4 DEF PortStutters
<1> QED
  BY <1>1, <1>2, <1>3, <1>4 DEF PhyLua

LEMMA PortStepRefines ==
    ASSUME ~HostPreempts, PortInv, [PhyNext]_phyvars
    PROVE  [Port!Next]_(Port!vars)
<1>1. CASE PhyNext
  <2>1. \/ Port!SwitchOn \/ Port!SwitchOff \/ Port!Burst
        \/ Port!Take \/ PortStutters
    BY <1>1, OpenRefines, CloseRefines, InterruptRefines, HostReceiveRefines,
       LuaRefines DEF PhyNext
  <2> QED
    BY <2>1 DEF Port!Next, Port!vars, PortStutters
<1>2. CASE UNCHANGED phyvars
  <2>1. q' = q /\ upc' = upc /\ hw' = hw
    BY <1>2 DEF phyvars, reader, context
  <2>2. PhyContents' = PhyContents
    BY <2>1 DEF PhyContents, PhyCount
  <2> QED
    BY <2>1, <2>2 DEF Port!vars
<1> QED
  BY <1>1, <1>2

(* The receive buffer of a physical UART implements PortFifo: a burst is   *)
(* appended, the oldest bytes go only when the buffer is full and only as  *)
(* many as must, a byte is taken from the front, and closing the port      *)
(* forgets what nobody has read (cycle_queue.c 52-125, platform_uart.c).   *)
THEOREM PortIsFifo ==
    ~HostPreempts => (PhySpec => ImplementsPort)
<1> SUFFICES ASSUME ~HostPreempts
             PROVE  PhySpec => ImplementsPort
  OBVIOUS
<1>1. PhyInit => Port!Init
  <2> SUFFICES ASSUME PhyInit PROVE Port!Init
    OBVIOUS
  <2>1. q.empty /\ hw = "off"
    BY DEF PhyInit
  <2>2. PhyCount = 0
    BY <2>1 DEF PhyCount
  <2>3. PhyContents = <<>>
    BY <2>2, PortContents, NoneIsEmpty
  <2> QED
    BY <2>1, <2>3 DEF Port!Init
<1>2. PortInv /\ [PhyNext]_phyvars => [Port!Next]_(Port!vars)
  BY PortStepRefines
<1>3. PhySpec => []PortInv
  BY PortInvHolds
<1> QED
  BY <1>1, <1>2, <1>3, PTL DEF PhySpec, ImplementsPort, Port!Spec

(* What the port receives gets into the buffer, up to its last byte, and   *)
(* the buffer is not empty then, for bursts whose length the uint8 of the  *)
(* interrupt handler holds (platform_uart.c 215).                          *)
THEOREM NewestGetsIn ==
    ~HostPreempts /\ MaxBurst < Lengths =>
        (PhySpec => NewestIsKept)
<1> SUFFICES ASSUME ~HostPreempts, MaxBurst < Lengths
             PROVE  PhySpec => NewestIsKept
  OBVIOUS
<1>1. ASSUME PortInv, [PhyNext]_phyvars, came' # came
      PROVE  ~q'.empty /\ Last(PhyContents') = came'
  <2>1. \E n \in 1..MaxBurst : Interrupt(n) \/ HostReceive(n)
    BY <1>1 DEF PhyNext, PhyLua, Open, Close, PhyTakeMessage,
       PhyReadByte, PhyRefill, PhyDeleteByte, DeleteLast, PhyDeleteEnd,
       ReadElsewhere, phyvars
  <2> QED
    BY <1>1, <2>1, InterruptRefines, HostReceiveRefines
<1>2. PortInv /\ [PhyNext]_phyvars =>
        [came' # came => ~q'.empty /\ Last(PhyContents') = came']_phyvars
  BY <1>1
<1>3. PhySpec => []PortInv
  BY PortInvHolds
<1> QED
  BY <1>2, <1>3, PTL DEF PhySpec, NewestIsKept
=============================================================================
