------------------------------- MODULE PhyUart ------------------------------
(***************************************************************************)
(* One physical UART of the platform (platform_uart.c) and the programs    *)
(* that use it: uart.setup and uart.close, the interrupt handler that puts *)
(* what the port received into the port's cyclic buffer, and uart.read.    *)
(* Several ids may name the same port (uartmap: 0 and 2 are both           *)
(* OPENAT_UART_2); whether an id is open is kept by id, the buffer and     *)
(* the hardware by port.                                                   *)
(*                                                                         *)
(* An interrupt runs to its end before the Lua task goes on; uart_phy_read *)
(* masks it around QueueDelete, of which every turn is a step here.  What  *)
(* keeps the callback of the host UART (work mode 2) out of QueueDelete is *)
(* not in the code: HostPreempts says whether anything does.  Bytes are    *)
(* numbered in the order of their arrival.                                 *)
(***************************************************************************)
EXTENDS CycleQueue, SequencesExt

CONSTANTS
    Ports,     \* the ports to explore: n for OPENAT_UART_n
    Console,   \* the id of the console (platform_get_console_port)
    HostPreempts, \* the host UART's callback comes in the middle of QueueDelete
    Lengths    \* 2^8: the length of a burst is a uint8

ASSUME PhyUartAssumption ==
    /\ Ports \subseteq 1..3 /\ HostPreempts \in BOOLEAN
    /\ Lengths \in Nat \ {0}

VARIABLES
    port,    \* the port, which never changes
    opened, workmode, \* uartContext
    hw,      \* the hardware: "off", "poll" (no handler), "handler" or "host"
    owner,   \* the id whose handler was configured last
    q,       \* the rxqueue of the port
    readbuf, \* its readbuf from readindex on
    masked,  \* the receive interrupt is disabled
    rxmsgs,  \* the ids of the RTOS_MSG_UART_RX_DATA messages on their way
    upc,     \* the Lua task: "wait", "read", or in QueueDelete: "copy",
             \* "emptied", "end"
    rid,     \* the id it reads
    inline,  \* it has read some bytes of a line
    came,    \* bytes that the port has received
    took     \* the last byte that the Lua task has read

(* uartmap *)
PortOf == [i \in 0..3 |-> IF i \in {1, 3} THEN i ELSE 2]

Ids == {i \in DOMAIN PortOf : PortOf[i] = port}

IsHost == port = 3

context == <<port, opened, workmode, hw, owner>>
reader == <<upc, rid, inline, took>>
phyvars == <<context, q, readbuf, masked, rxmsgs, reader, came>>

----------------------------------------------------------------------------
(* The cyclic buffer *)

Clean(c) ==
    [c EXCEPT !.head = 0, !.tail = 0, !.empty = TRUE, !.full = FALSE,
              !.overflow = FALSE]

(* One turn of the loop of QueueInsert *)
PutByte(c, b) ==
    LET h == Succ(c.head) IN
    [c EXCEPT !.buf[c.head] = b, !.head = h, !.empty = FALSE,
              !.overflow = @ \/ (c.full /\ c.head = c.tail),
              !.full = @ \/ h = c.tail]

(* The loop of QueueInsert *)
PutBytes(c, bytes) ==
    LET put[n \in 0..Len(bytes)] ==
            IF n = 0 THEN c ELSE PutByte(put[n - 1], bytes[n])
    IN  put[Len(bytes)]

(* slip: the oldest bytes are not given up *)
InsertKeepsTail(c, bytes) == PutBytes(c, bytes)

GiveUpOldest(c) == [c EXCEPT !.tail = IF c.overflow THEN c.head ELSE @]

Insert(c, bytes) == GiveUpOldest(PutBytes(c, bytes))

----------------------------------------------------------------------------
(* The Lua task is inside QueueDelete. *)
PhyDeleting == upc \in {"copy", "emptied", "end"}

PhyInit ==
    /\ port \in Ports
    /\ opened = [i \in Ids |-> FALSE] /\ workmode = [i \in Ids |-> 0]
    /\ hw = "off" /\ owner \in Ids
    /\ q = [buf |-> [i \in 0..(Size - 1) |-> 0], head |-> 0, tail |-> 0,
            empty |-> TRUE, full |-> FALSE, overflow |-> FALSE]
    /\ readbuf = <<>> /\ masked = FALSE /\ rxmsgs = <<>>
    /\ upc = "wait" /\ rid \in Ids /\ inline = FALSE
    /\ came = 0 /\ took = 0

(* uart.setup, by a handler or by the program that reads.  A port has one  *)
(* handler, that of the id that was opened last.  A set-up that the base   *)
(* firmware refuses changes nothing.                                       *)
Open(i, mode) ==
    /\ ~PhyDeleting /\ ~opened[i]
    /\ opened' = [opened EXCEPT ![i] = TRUE]
    /\ workmode' = [workmode EXCEPT ![i] = mode]
    /\ hw' = IF IsHost /\ mode = 2 THEN "host"
             ELSE IF mode = 1 \/ i = Console THEN "poll" ELSE "handler"
    /\ owner' = i
    /\ UNCHANGED <<port, q, readbuf, masked, rxmsgs, reader, came>>

(* uart.close: the hardware is switched off whoever else has the port      *)
(* open.  The host UART in work mode 2 is not closed.                      *)
Close(i) ==
    /\ ~PhyDeleting /\ opened[i] /\ ~(IsHost /\ workmode[i] = 2)
    /\ hw' = "off"
    /\ opened' = [opened EXCEPT ![i] = FALSE]
    /\ q' = Clean(q) /\ readbuf' = <<>>
    /\ UNCHANGED <<port, workmode, owner, masked, rxmsgs, reader, came>>

(* slip: a length that is one narrower *)
LengthNarrow(n) == n % (Lengths - 1)

(* What uint8 keeps of the number of bytes read *)
Length(n) == n % Lengths

(* slip: the buffer is asked whether it is empty when the bytes are in *)
InterruptAsksLate(n) ==
    /\ hw = "handler" /\ ~masked /\ came + n <= MaxBytes
    /\ q' = Insert(q, [k \in 1..Length(n) |-> came + k])
    /\ rxmsgs' = IF q'.empty THEN Append(rxmsgs, owner) ELSE rxmsgs
    /\ came' = came + n
    /\ UNCHANGED <<context, readbuf, masked, reader>>

(* uart_message_handle: bytes beyond the length are lost, and the message  *)
(* goes to the id whose handler it is.                                     *)
Interrupt(n) ==
    /\ hw = "handler" /\ ~masked /\ came + n <= MaxBytes
    /\ q' = Insert(q, [k \in 1..Length(n) |-> came + k])
    /\ rxmsgs' = IF q.empty /\ Length(n) # 0 THEN Append(rxmsgs, owner)
                 ELSE rxmsgs
    /\ came' = came + n
    /\ UNCHANGED <<context, readbuf, masked, reader>>

(* host_uart_recv: the mask is that of the UART, not of the host's frames *)
HostReceive(n) ==
    /\ hw = "host" /\ (HostPreempts \/ ~PhyDeleting) /\ came + n <= MaxBytes
    /\ q' = Insert(q, [k \in 1..n |-> came + k])
    /\ rxmsgs' = IF q.empty THEN Append(rxmsgs, owner) ELSE rxmsgs
    /\ came' = came + n
    /\ UNCHANGED <<context, readbuf, masked, reader>>

----------------------------------------------------------------------------
(* The Lua task: a message of an id makes its program call uart.read until *)
(* it gets nothing                                                         *)

PhyTakeMessage ==
    /\ upc = "wait" /\ rxmsgs # <<>>
    /\ rid' = Head(rxmsgs) /\ rxmsgs' = Tail(rxmsgs) /\ upc' = "read"
    /\ UNCHANGED <<context, q, readbuf, masked, inline, came, took>>

(* The id reads from the buffer. *)
Buffered(i) == opened[i] /\ workmode[i] # 1

(* The byte may end a line. *)
PhyReadByte ==
    /\ upc = "read" /\ Buffered(rid) /\ readbuf # <<>>
    /\ took' = Head(readbuf) /\ readbuf' = Tail(readbuf) /\ inline' \in BOOLEAN
    /\ UNCHANGED <<context, q, masked, rxmsgs, upc, rid, came>>

(* The read buffer is used up. *)
PhyRefill ==
    /\ upc = "read" /\ Buffered(rid) /\ readbuf = <<>>
    /\ masked' = TRUE /\ upc' = IF q.empty THEN "end" ELSE "copy"
    /\ UNCHANGED <<context, q, readbuf, rxmsgs, rid, inline, came, took>>

(* One turn of the loop of QueueDelete, to the comparison at its end ... *)
PhyDeleteByte ==
    /\ upc = "copy"
    /\ readbuf' = Append(readbuf, q.buf[q.tail])
    /\ q' = [q EXCEPT !.tail = Succ(@)]
    /\ upc' = IF Succ(q.tail) = q.head THEN "emptied"
              ELSE IF Len(readbuf) + 1 = Chunk THEN "end" ELSE "copy"
    /\ UNCHANGED <<context, masked, rxmsgs, rid, inline, came, took>>

(* ... and what the comparison decided *)
DeleteLast ==
    /\ upc = "emptied" /\ upc' = "end"
    /\ q' = [q EXCEPT !.empty = TRUE]
    /\ UNCHANGED <<context, readbuf, masked, rxmsgs, rid, inline, came, took>>

(* slip: a line that ends with the buffer ends the reading *)
PhyDeleteEndStops ==
    /\ upc = "end"
    /\ q' = IF readbuf # <<>> /\ q.full
              THEN [q EXCEPT !.full = FALSE, !.overflow = FALSE] ELSE q
    /\ masked' = FALSE
    /\ upc' = IF ~inline THEN "wait" ELSE "read"
    /\ inline' = (inline /\ readbuf # <<>>)
    /\ UNCHANGED <<context, readbuf, rxmsgs, rid, came, took>>

(* The end of QueueDelete.  Without a byte, uart.read returns what it has  *)
(* of the line, and the program asks once more unless that is nothing.     *)
PhyDeleteEnd ==
    /\ upc = "end"
    /\ q' = IF readbuf # <<>> /\ q.full
              THEN [q EXCEPT !.full = FALSE, !.overflow = FALSE] ELSE q
    /\ masked' = FALSE
    /\ upc' = IF readbuf = <<>> /\ ~inline THEN "wait" ELSE "read"
    /\ inline' = (inline /\ readbuf # <<>>)
    /\ UNCHANGED <<context, readbuf, rxmsgs, rid, came, took>>

(* The id was closed since, or is polled now: what the base firmware has   *)
(* received for a polled id is not in the port's buffer.                   *)
ReadElsewhere ==
    /\ upc = "read" /\ ~Buffered(rid)
    /\ upc' = "wait" /\ inline' = FALSE
    /\ UNCHANGED <<context, q, readbuf, masked, rxmsgs, rid, came, took>>

Modes == IF IsHost THEN 0..2 ELSE 0..1

PhyLua ==
    \/ PhyTakeMessage \/ PhyReadByte \/ PhyRefill
    \/ PhyDeleteByte \/ DeleteLast \/ PhyDeleteEnd \/ ReadElsewhere

PhyNext ==
    \/ \E i \in Ids : Close(i) \/ \E mode \in Modes : Open(i, mode)
    \/ \E n \in 1..MaxBurst : Interrupt(n) \/ HostReceive(n)
    \/ PhyLua

PhySpec == PhyInit /\ [][PhyNext]_phyvars

(* The Lua task runs. *)
PhyFairSpec == PhySpec /\ WF_phyvars(PhyLua)

----------------------------------------------------------------------------
(* Properties *)

(* The indices stay inside the buffer, and every message is for an id of   *)
(* this port.                                                              *)
PhyTypeOK ==
    /\ port \in Ports
    /\ opened \in [Ids -> BOOLEAN] /\ workmode \in [Ids -> 0..2]
    /\ hw \in {"off", "poll", "handler", "host"} /\ owner \in Ids
    /\ q \in [buf : [0..(Size - 1) -> Nat],
              head : 0..(Size - 1), tail : 0..(Size - 1),
              empty : BOOLEAN, full : BOOLEAN, overflow : BOOLEAN]
    /\ readbuf \in Seq(Nat) /\ masked \in BOOLEAN /\ rxmsgs \in Seq(Ids)
    /\ upc \in {"wait", "read", "copy", "emptied", "end"}
    /\ rid \in Ids /\ inline \in BOOLEAN
    /\ came \in Nat /\ took \in Nat

(* Between two calls on the buffer its flags tell an empty buffer from a   *)
(* full one, also after it was closed full: a stale overflow would make    *)
(* the first burst after the next opening look like no byte at all.        *)
PhyFlagsTell ==
    ~PhyDeleting =>
        /\ q.head = q.tail <=> q.empty \/ q.full
        /\ ~(q.empty /\ q.full)
        /\ q.overflow => q.full

(* What was received before the port was closed is not read by whoever     *)
(* opens it next: uart_phy_open cleans nothing, so closing must leave      *)
(* neither the buffer nor the bytes already taken out of it.               *)
ClosedIsEmpty == hw = "off" => q.empty /\ readbuf = <<>>

(* The hardware never calls the handler of an id that is closed: its       *)
(* messages would wake a program that may not read, and the bytes of the   *)
(* other ids of the port would wait for ever.                              *)
HandlerIsOpen == hw = "handler" => Buffered(owner)

(* The bytes in the buffer, oldest first *)
PhyCount ==
    IF q.empty \/ upc = "emptied" THEN 0
    ELSE IF q.head = q.tail THEN Size ELSE (q.head + Size - q.tail) % Size

PhyContents == [k \in 1..PhyCount |-> q.buf[(q.tail + k - 1) % Size]]

(* Bytes in the buffer are read: the Lua task is reading, or a message is  *)
(* on its way to an id of the port that reads from the buffer, whichever   *)
(* ids were opened and closed since the bytes came.                        *)
PhyNoLostWakeup ==
    (~q.empty \/ readbuf # <<>>) =>
        \/ upc # "wait" /\ Buffered(rid)
        \/ \E k \in 1..Len(rxmsgs) : Buffered(rxmsgs[k])

(* A port is sound through opening and closing: its buffer agrees with its *)
(* flags, a closed one holds nothing, interrupts go to an open id, and no  *)
(* byte waits without a reader.                                            *)
PhyInv ==
    /\ PhyTypeOK /\ PhyFlagsTell /\ ClosedIsEmpty /\ HandlerIsOpen
    /\ PhyNoLostWakeup

(* The buffer gives up its oldest bytes only when it is full, and forgets  *)
(* them all only when the port is switched off.                            *)
Port == INSTANCE PortFifo WITH fifo <- PhyContents, on <- hw # "off"
ImplementsPort == Port!Spec

(* What the port receives gets into the buffer, up to its last byte, for   *)
(* bursts whose length a uint8 holds: one of Lengths bytes would count as  *)
(* none, be lost and wake nobody.                                          *)
NewestIsKept ==
    [][came' # came => ~q'.empty /\ Last(PhyContents') = came']_phyvars

(* Every byte in the buffer, or a later one if it was given up for that,   *)
(* is read in the end, unless the port is switched off.                    *)
PhyBytesAreRead ==
    \A k \in 1..MaxBytes :
        (k \in ToSet(PhyContents \o readbuf)) ~> (took >= k \/ hw = "off")
=============================================================================
