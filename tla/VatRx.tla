-------------------------------- MODULE VatRx -------------------------------
(***************************************************************************)
(* The receive side of the virtual AT port: the modem's task puts bytes    *)
(* into the cyclic buffer vatcRx_Q (RILAPI_ReceiveData, cycle_queue.c) and *)
(* posts a message when the buffer was empty; the Lua task, woken by the   *)
(* message, reads bytes (vatc_read) until there are none.  The semaphore   *)
(* hAtcReadSem excludes the two loops over the buffer from each other, and *)
(* nothing else.  An action is one step of a loop, so that everything else *)
(* may happen between any two bytes.                                       *)
(*                                                                         *)
(* Bytes are numbered in the order of their arrival: the k-th byte is k.   *)
(***************************************************************************)
EXTENDS CycleQueue

VARIABLES
    buf, head, tail, empty, full, overflow, \* the CycleQueue vatcRx_Q
    sem,     \* who holds hAtcReadSem: "free", "modem" or "lua"
    mpc,     \* the modem's task: "idle", "insert" or "send"
    left,    \* bytes that QueueInsert has not inserted yet
    needMsg, \* a local of RILAPI_ReceiveData
    msgs,    \* RTOS_MSG_UART_RX_DATA messages for the Lua task
    lpc,     \* the Lua task: "wait", "read" or "delete"
    part,    \* it has read some bytes of a line
    rbuf,    \* vatc_read_buffer from vatc_read_buf_index on
    sent,    \* bytes that the modem has sent
    got      \* the last byte that the Lua task has read

queue == <<buf, head, tail, empty, full, overflow>>
modem == <<mpc, left, needMsg, sent>>
lua == <<lpc, part, rbuf, got>>
vars == <<queue, modem, lua, sem, msgs>>

Init ==
    /\ buf = [i \in 0..(Size - 1) |-> 0] /\ head = 0 /\ tail = 0
    /\ empty = TRUE /\ full = FALSE /\ overflow = FALSE
    /\ sem = "free" /\ msgs = 0
    /\ mpc = "idle" /\ left = 0 /\ needMsg = FALSE /\ sent = 0
    /\ lpc = "wait" /\ part = FALSE /\ rbuf = <<>> /\ got = 0

----------------------------------------------------------------------------
(* The modem's task: RILAPI_ReceiveData *)

Receive ==
    /\ mpc = "idle" /\ sem = "free"
    /\ \E n \in 1..MaxBurst :
         sent + n <= MaxBytes /\ left' = n /\ sent' = sent + n
    /\ sem' = "modem" /\ needMsg' = empty /\ mpc' = "insert"
    /\ UNCHANGED <<queue, lua, msgs>>

(* One turn of the loop of QueueInsert *)
InsertByte ==
    /\ mpc = "insert" /\ left > 0
    /\ left' = left - 1
    /\ buf' = [buf EXCEPT ![head] = sent - left + 1]
    /\ overflow' = (overflow \/ (full /\ head = tail))
    /\ head' = Succ(head)
    /\ full' = (full \/ head' = tail)
    /\ empty' = FALSE
    /\ UNCHANGED <<tail, sem, mpc, needMsg, sent, msgs, lua>>

(* slips: the flag is asked when the bytes are in; the oldest bytes are    *)
(* not given up                                                            *)
InsertEndAsksLate ==
    /\ mpc = "insert" /\ left = 0
    /\ tail' = IF overflow THEN head ELSE tail
    /\ sem' = "free"
    /\ mpc' = IF empty THEN "send" ELSE "idle"
    /\ UNCHANGED <<buf, head, empty, full, overflow, left, needMsg, sent,
                   msgs, lua>>
InsertEndKeepsTail ==
    /\ mpc = "insert" /\ left = 0
    /\ sem' = "free"
    /\ mpc' = IF needMsg THEN "send" ELSE "idle"
    /\ UNCHANGED <<queue, left, needMsg, sent, msgs, lua>>

(* The end of QueueInsert and the release of the semaphore *)
InsertEnd ==
    /\ mpc = "insert" /\ left = 0
    /\ tail' = IF overflow THEN head ELSE tail
    /\ sem' = "free"
    /\ mpc' = IF needMsg THEN "send" ELSE "idle"
    /\ UNCHANGED <<buf, head, empty, full, overflow, left, needMsg, sent,
                   msgs, lua>>

SendMessage ==
    /\ mpc = "send" /\ mpc' = "idle" /\ msgs' = msgs + 1
    /\ UNCHANGED <<queue, sem, left, needMsg, sent, lua>>

----------------------------------------------------------------------------
(* The Lua task: atcreader calls uart.read for a line at a time, until it  *)
(* gets nothing                                                            *)

TakeMessage ==
    /\ lpc = "wait" /\ msgs > 0
    /\ msgs' = msgs - 1 /\ lpc' = "read"
    /\ UNCHANGED <<queue, modem, sem, part, rbuf, got>>

(* The byte may end a line. *)
ReadByte ==
    /\ lpc = "read" /\ rbuf # <<>>
    /\ got' = Head(rbuf) /\ rbuf' = Tail(rbuf)
    /\ part' \in BOOLEAN
    /\ UNCHANGED <<queue, modem, sem, msgs, lpc>>

(* The read buffer is used up. *)
Refill ==
    /\ lpc = "read" /\ rbuf = <<>> /\ sem = "free"
    /\ sem' = "lua" /\ lpc' = "delete"
    /\ UNCHANGED <<queue, modem, msgs, part, rbuf, got>>

(* One turn of the loop of QueueDelete *)
DeleteByte ==
    /\ lpc = "delete" /\ ~empty /\ Len(rbuf) < Chunk
    /\ rbuf' = Append(rbuf, buf[tail])
    /\ tail' = Succ(tail)
    /\ empty' = (tail' = head)
    /\ UNCHANGED <<buf, head, full, overflow, modem, sem, msgs, lpc, part, got>>

(* slip: the flags of a full buffer are not taken back *)
DeleteEndStaysFull ==
    /\ lpc = "delete" /\ (empty \/ Len(rbuf) = Chunk)
    /\ sem' = "free"
    /\ lpc' = IF rbuf = <<>> /\ ~part THEN "wait" ELSE "read"
    /\ part' = (part /\ rbuf # <<>>)
    /\ UNCHANGED <<queue, modem, msgs, rbuf, got>>

(* slip: a line that ends with the buffer ends the reading *)
DeleteEndStops ==
    /\ lpc = "delete" /\ (empty \/ Len(rbuf) = Chunk)
    /\ full' = (full /\ rbuf = <<>>)
    /\ overflow' = (overflow /\ ~(full /\ rbuf # <<>>))
    /\ sem' = "free"
    /\ lpc' = IF ~part THEN "wait" ELSE "read"
    /\ part' = (part /\ rbuf # <<>>)
    /\ UNCHANGED <<buf, head, tail, empty, modem, msgs, rbuf, got>>

(* The end of QueueDelete.  Without a byte, uart.read returns what it has  *)
(* of the line, and atcreader asks once more unless that is nothing.       *)
DeleteEnd ==
    /\ lpc = "delete" /\ (empty \/ Len(rbuf) = Chunk)
    /\ full' = (full /\ rbuf = <<>>)
    /\ overflow' = (overflow /\ ~(full /\ rbuf # <<>>))
    /\ sem' = "free"
    /\ lpc' = IF rbuf = <<>> /\ ~part THEN "wait" ELSE "read"
    /\ part' = (part /\ rbuf # <<>>)
    /\ UNCHANGED <<buf, head, tail, empty, modem, msgs, rbuf, got>>

Modem == Receive \/ InsertByte \/ InsertEnd \/ SendMessage
Lua == TakeMessage \/ ReadByte \/ Refill \/ DeleteByte \/ DeleteEnd
Next == Modem \/ Lua

Spec == Init /\ [][Next]_vars

(* Both tasks run, and a call of RILAPI_ReceiveData, once made, ends.  The *)
(* Lua task gets the semaphore in the end because the modem pauses.        *)
FairSpec ==
    Spec /\ WF_vars(InsertByte \/ InsertEnd \/ SendMessage) /\ WF_vars(Lua)

----------------------------------------------------------------------------
(* Properties *)

(* The indices stay inside the buffer and each task is at one of its steps.*)
TypeOK ==
    /\ buf \in [0..(Size - 1) -> Nat]
    /\ head \in 0..(Size - 1) /\ tail \in 0..(Size - 1)
    /\ empty \in BOOLEAN /\ full \in BOOLEAN /\ overflow \in BOOLEAN
    /\ sem \in {"free", "modem", "lua"} /\ msgs \in Nat
    /\ mpc \in {"idle", "insert", "send"} /\ needMsg \in BOOLEAN
    /\ left \in Nat /\ sent \in Nat /\ left <= sent
    /\ lpc \in {"wait", "read", "delete"} /\ part \in BOOLEAN
    /\ rbuf \in Seq(Nat) /\ got \in Nat

(* QueueDelete has taken bytes and not yet taken back the flags. *)
Deleting == lpc = "delete" /\ rbuf # <<>>

(* The flags of the CycleQueue tell what the indices cannot: whether a     *)
(* buffer with head = tail is empty or full.  A flag that is stale would   *)
(* make QueueDelete return old bytes, or hide new ones.                    *)
FlagsTell ==
    /\ empty => head = tail
    /\ overflow => full
    /\ Deleting /\ head = tail => empty
    /\ ~Deleting => /\ head = tail => empty \/ full
                    /\ empty => ~full
                    /\ full => overflow \/ head = tail
                    /\ overflow /\ mpc # "insert" => head = tail

(* The semaphore is held by the loop that is under way: an invariant for   *)
(* the proofs                                                              *)
Exclusion ==
    /\ mpc = "insert" <=> sem = "modem"
    /\ lpc = "delete" <=> sem = "lua"

(* The buffer is sound: its indices and flags agree, and one loop at a     *)
(* time works on it.                                                       *)
Inv == TypeOK /\ FlagsTell /\ Exclusion

(* The bytes in the buffer, oldest first, as the next reader will see them:*)
(* an insertion that has overrun the tail is going to move it.             *)
Oldest == IF overflow /\ mpc = "insert" THEN head ELSE tail

Count ==
    CASE empty -> 0
      [] ~empty /\ head = Oldest -> Size
      [] ~empty /\ head # Oldest -> (head + Size - tail) % Size

Contents == [k \in 1..Count |-> buf[(Oldest + k - 1) % Size]]

(* Bytes in the buffer are read: the Lua task is reading, or a message is  *)
(* there or will be sent for them.  The flag empty is read in one critical *)
(* section and the message sent after it.                                  *)
NoLostWakeup ==
    ~empty \/ rbuf # <<>> =>
        \/ lpc # "wait" \/ msgs > 0 \/ mpc = "send"
        \/ mpc = "insert" /\ needMsg

(* The buffer loses a byte only when it is full, and then the oldest.      *)
Fifo == INSTANCE DropFifo WITH fifo <- Contents
ImplementsFifo == Fifo!Spec

(* Every byte, or a later one if it was dropped, is read in the end.       *)
BytesAreRead ==
    \A k \in 1..MaxBytes : (sent - left >= k) ~> (got >= k)
=============================================================================
