------------------------------ MODULE DropFifo ------------------------------
(***************************************************************************)
(* What the receive buffer of the virtual AT port promises: a first-in     *)
(* first-out queue of at most Size bytes that, when it is full, drops its  *)
(* oldest byte for the new one, and only then.                             *)
(***************************************************************************)
EXTENDS Naturals, Sequences

CONSTANT Size

VARIABLE fifo

Init == fifo = <<>>

Room(s) == IF Len(s) = Size THEN Tail(s) ELSE s

(* Any byte may come; TLC finds it at the end of the new queue. *)
Put == fifo' # <<>> /\ fifo' = Append(Room(fifo), fifo'[Len(fifo')])

Take == fifo # <<>> /\ fifo' = Tail(fifo)

Next == Put \/ Take

Spec == Init /\ [][Next]_fifo
=============================================================================
