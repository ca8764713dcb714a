------------------------------ MODULE PortFifo ------------------------------
(***************************************************************************)
(* What the receive buffer of a physical UART promises: while the port is  *)
(* on, bursts of bytes are appended to a first-in first-out queue of at    *)
(* most Size bytes, which gives up its oldest bytes, and only as many as   *)
(* it must; a port that is switched off forgets what nobody has read, so   *)
(* that its next user sees none of it.                                     *)
(***************************************************************************)
EXTENDS Naturals, Sequences

CONSTANT Size

VARIABLES fifo, on

vars == <<fifo, on>>

Init == fifo = <<>> /\ on = FALSE

SwitchOn == ~on /\ on' = TRUE /\ UNCHANGED fifo

SwitchOff == on /\ on' = FALSE /\ fifo' = <<>>

Suffix(s, d) == SubSeq(s, d + 1, Len(s))

(* d of the old bytes go, and then the queue is full. *)
Burst ==
    /\ on /\ UNCHANGED on
    /\ \E d \in 0..Len(fifo) :
         /\ d > 0 => Len(fifo') = Size
         /\ Len(fifo') > Len(fifo) - d /\ Len(fifo') <= Size
         /\ SubSeq(fifo', 1, Len(fifo) - d) = Suffix(fifo, d)

Take == fifo # <<>> /\ fifo' = Tail(fifo) /\ UNCHANGED on

Next == SwitchOn \/ SwitchOff \/ Burst \/ Take

Spec == Init /\ [][Next]_vars
=============================================================================
