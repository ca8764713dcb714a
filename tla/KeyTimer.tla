------------------------------ MODULE KeyTimer ------------------------------
(***************************************************************************)
(* What sys.lua promises of its timers: a timer is named by its callback   *)
(* and arguments; started, it elapses once, and only then its callback     *)
(* runs; stopped, it does not run any more, even if it has elapsed.        *)
(***************************************************************************)
CONSTANT Keys

VARIABLE timer  \* the state of the timer of each key

Init == timer = [k \in Keys |-> "off"]

Move(k, from, to) == timer[k] = from /\ timer' = [timer EXCEPT ![k] = to]

Start(k) == Move(k, "off", "armed")
Elapse(k) == Move(k, "armed", "due")

(* The callback of a timer that has elapsed: a timer that runs once is off *)
(* before its callback is called, a loop starts again after it.            *)
RunOnce(k) == Move(k, "due", "off")
Run(k) == Move(k, "due", "run")
Again(k) == Move(k, "run", "armed")

(* Timers are stopped, one or those of a callback. *)
Stop(K) == timer' = [k \in Keys |-> IF k \in K THEN "off" ELSE timer[k]]

Next ==
    \/ \E k \in Keys : Start(k) \/ Elapse(k) \/ RunOnce(k) \/ Run(k) \/ Again(k)
    \/ \E K \in SUBSET Keys : Stop(K)

Spec == Init /\ [][Next]_timer
=============================================================================
