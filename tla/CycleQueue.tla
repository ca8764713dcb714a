------------------------------ MODULE CycleQueue -----------------------------
(***************************************************************************)
(* What the receive buffers of the platform have in common: the cyclic     *)
(* buffer of cycle_queue.c, from which the Lua side takes a read buffer of *)
(* bytes at a time.                                                        *)
(***************************************************************************)
EXTENDS Naturals, Sequences

CONSTANTS
    Size,     \* bytes of the buffer: VATC_RX_BUF_SIZE, UART_RX_BUF_SIZE
    Chunk,    \* of the read buffer: VATC_READ_BUF_SIZE, READ_BUFFER_SIZE
    MaxBurst, \* bound: bytes that come in one call
    MaxBytes  \* bound: bytes in all

ASSUME CycleQueueAssumption ==
    /\ Size \in Nat \ {0} /\ Chunk \in Nat \ {0}
    /\ MaxBurst \in Nat /\ MaxBytes \in Nat

(* The next index *)
Succ(i) == (i + 1) % Size
=============================================================================
