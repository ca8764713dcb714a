------------------------------- MODULE SysTimer ------------------------------
(***************************************************************************)
(* Timers, from Lua to the operating system: the tables tpool, para and    *)
(* loop of sys.lua, timerfnc, and the table luaTimerParam of               *)
(* platform_rtos.c with the callback that the operating system runs when a *)
(* timer expires.  The Lua task and the callbacks interleave; the          *)
(* semaphore hLuaTimerSem makes one step of what is done under it.         *)
(*                                                                         *)
(* A callback of sys.lua runs inside timerfnc and may start and stop       *)
(* timers, also its own; so may any other handler of the Lua task.         *)
(***************************************************************************)
EXTENDS Naturals, FiniteSets, Sequences, SequencesExt

CONSTANTS
    Fncs,          \* callback functions
    Args,          \* arguments besides NoArg
    NoArg,         \* no argument
    MaxLuaTimers,  \* MAX_LUA_TIMERS
    Handles,       \* handles of timers of the operating system
    HandlesReused, \* whether a handle that a callback still has is given out
    MaxTid,        \* bound: timers started
    MaxCalls       \* bound: calls of timer_start and timer_stop

ASSUME SysTimerAssumption ==
    /\ NoArg \notin Args /\ IsFiniteSet(Handles) /\ HandlesReused \in BOOLEAN
    /\ MaxLuaTimers \in Nat /\ MaxTid \in Nat /\ MaxCalls \in Nat

VARIABLES
    tpool, para, loop, \* the tables of sys.lua, by timer id
    uniquetid,
    running,  \* the timer id whose callback timerfnc is calling, or 0
    arming,   \* the call of rtos.timer_start that the Lua task is inside
    slots,    \* luaTimerParam: handle, id, and whether it is still to expire
    msgs,     \* RTOS_MSG_TIMER messages for the Lua task
    expired,  \* callbacks of the operating system that have posted theirs
    failed,   \* the timer ids that rtos.timer_start has refused
    calls

sysvars == <<tpool, para, loop, uniquetid, running, failed, calls>>
vars == <<sysvars, arming, slots, msgs, expired>>

Tids == 1..MaxTid
Keys == Fncs \X (Args \union {NoArg})

(* A timer longer than MAXMS is split: total steps, times of them done. *)
Entry == [cb : Fncs, total : 1..2, times : 0..2]

(* The timers in a table, and the table without those of T *)
In(table) == DOMAIN table
Without(table, T) == [t \in DOMAIN table \ T |-> table[t]]
With(table, t, v) == [u \in DOMAIN table \union {t} |-> IF u = t THEN v ELSE table[u]]

Idle == [tid |-> 0, key |-> <<>>, kind |-> "none"]

Init ==
    /\ tpool = <<>> /\ para = <<>> /\ loop = {}
    /\ uniquetid = 0 /\ running = 0 /\ arming = Idle
    /\ slots = {} /\ msgs = <<>> /\ expired = {}
    /\ failed = {} /\ calls = 0

----------------------------------------------------------------------------
(* platform_rtos.c *)

(* platform_rtos_stop_timer of each id in T *)
StopSlots(T) == slots' = {s \in slots : s.id \notin T}

(* Handles that create_timer may return *)
NewHandles ==
    Handles \ ({s.h : s \in slots} \union
               IF HandlesReused THEN {} ELSE {e.h : e \in expired})

(* The timer expires: platform_rtos_timer_callback posts its message ... *)
Expire(t) ==
    \E s \in slots :
       /\ s.id = t /\ s.armed
       /\ slots' = (slots \ {s}) \union {[s EXCEPT !.armed = FALSE]}
       /\ msgs' = Append(msgs, t)
       /\ expired' = expired \union {[h |-> s.h, id |-> t]}
       /\ UNCHANGED <<sysvars, arming>>

(* slip: the slot is found by the timer id, which may have started again *)
CallbackEndById(e) ==
    /\ e \in expired /\ expired' = expired \ {e}
    /\ slots' = {s \in slots : s.id # e.id}
    /\ UNCHANGED <<sysvars, arming, msgs>>

(* ... and deletes the timer, if its handle is still in the table. *)
CallbackEnd(e) ==
    /\ e \in expired /\ expired' = expired \ {e}
    /\ slots' = {s \in slots : s.h # e.h}
    /\ UNCHANGED <<sysvars, arming, msgs>>

(* The critical section of platform_rtos_start_timer, and what its caller  *)
(* does with the result: a new timer gets its arguments, and its loop flag *)
Armed ==
    /\ arming # Idle /\ arming' = Idle
    /\ Cardinality(slots) < MaxLuaTimers
    /\ \E h \in NewHandles :
         slots' = slots \union {[h |-> h, id |-> arming.tid, armed |-> TRUE]}
    /\ para' = IF arming.kind = "again" \/ arming.key[2] = NoArg THEN para
               ELSE With(para, arming.tid, arming.key[2])
    /\ loop' = IF arming.kind = "loop" THEN loop \union {arming.tid} ELSE loop
    /\ UNCHANGED <<tpool, uniquetid, running, failed, calls, msgs, expired>>

(* No slot is free, or the operating system has no timer. *)
Refused ==
    /\ arming # Idle /\ arming' = Idle
    /\ Cardinality(slots) >= MaxLuaTimers \/ NewHandles = {}
    /\ failed' = failed \union {arming.tid}
    /\ UNCHANGED <<tpool, para, loop, uniquetid, running, calls, slots, msgs,
                   expired>>

----------------------------------------------------------------------------
(* sys.lua: what handlers call *)

Arg(t) == IF t \in In(para) THEN para[t] ELSE NoArg

(* timer_stop(fnc,...) finds a timer of this callback and these arguments. *)
Matches(k) == {t \in In(tpool) : tpool[t].cb = k[1] /\ Arg(t) = k[2]}

Forget(T) ==
    /\ tpool' = Without(tpool, T) /\ para' = Without(para, T)
    /\ loop' = loop \ T

(* One of the matching timers, if any *)
OneOf(T) == IF T = {} THEN {{}} ELSE {{t} : t \in T}

CanCall == arming = Idle /\ calls < MaxCalls /\ calls' = calls + 1

NextTid == uniquetid + 1

(* timer_start, and with kind = "loop" timer_loop_start: the timer with    *)
(* the same name is stopped, and rtos.timer_start called with a new id.    *)
TimerStart(k, kind) ==
    /\ CanCall /\ NextTid \in Tids
    /\ \E T \in OneOf(Matches(k)) :
         /\ tpool' = With(Without(tpool, T), NextTid,
                          [cb |-> k[1], times |-> 0,
                           total |-> IF kind = "long" THEN 2 ELSE 1])
         /\ para' = Without(para, T) /\ loop' = loop \ T
         /\ StopSlots(T)
    /\ uniquetid' = NextTid
    /\ arming' = [tid |-> NextTid, key |-> k, kind |-> kind]
    /\ UNCHANGED <<running, failed, msgs, expired>>

(* slip: only the timer below is stopped *)
TimerStopBelow(k) ==
    /\ CanCall
    /\ \E T \in OneOf(Matches(k)) : StopSlots(T)
    /\ UNCHANGED <<tpool, para, loop, uniquetid, running, failed, arming, msgs,
                   expired>>

(* timer_stop(fnc,...) *)
TimerStop(k) ==
    /\ CanCall
    /\ \E T \in OneOf(Matches(k)) : Forget(T) /\ StopSlots(T)
    /\ UNCHANGED <<uniquetid, running, failed, arming, msgs, expired>>

(* timer_stop(id): the timer below goes on. *)
TimerStopId(t) ==
    /\ CanCall /\ Forget({t})
    /\ UNCHANGED <<uniquetid, running, failed, arming, slots, msgs, expired>>

TimerStopAll(f) ==
    /\ CanCall
    /\ LET T == {t \in In(tpool) : tpool[t].cb = f} IN Forget(T) /\ StopSlots(T)
    /\ UNCHANGED <<uniquetid, running, failed, arming, msgs, expired>>

Handler ==
    \/ \E k \in Keys, kind \in {"once", "loop", "long"} : TimerStart(k, kind)
    \/ \E k \in Keys : TimerStop(k)
    \/ \E t \in 1..uniquetid : TimerStopId(t)
    \/ \E f \in Fncs : TimerStopAll(f)

----------------------------------------------------------------------------
(* sys.lua: timerfnc *)

(* rtos.timer_start of a timer id that exists: the old timer is stopped. *)
StartAgain(t) ==
    StopSlots({t}) /\ arming' = [tid |-> t, key |-> <<>>, kind |-> "again"]

Take(t) ==
    /\ running = 0 /\ arming = Idle
    /\ msgs # <<>> /\ t = Head(msgs) /\ msgs' = Tail(msgs)

(* The timer has been stopped. *)
Ignore(t) ==
    /\ Take(t) /\ t \notin In(tpool)
    /\ UNCHANGED <<sysvars, arming, slots, expired>>

(* slip: the next step is not started *)
NextStepIdle(t) ==
    /\ Take(t) /\ t \in In(tpool)
    /\ tpool[t].times + 1 < tpool[t].total
    /\ tpool' = [tpool EXCEPT ![t].times = @ + 1]
    /\ UNCHANGED <<para, loop, uniquetid, running, failed, calls, expired,
                   arming, slots>>

(* A step of a long timer, not the last *)
NextStep(t) ==
    /\ Take(t) /\ t \in In(tpool)
    /\ tpool[t].times + 1 < tpool[t].total
    /\ tpool' = [tpool EXCEPT ![t].times = @ + 1]
    /\ StartAgain(t)
    /\ UNCHANGED <<para, loop, uniquetid, running, failed, calls, expired>>

(* The callback is called. *)
Call(t) ==
    /\ Take(t) /\ t \in In(tpool)
    /\ tpool[t].times + 1 >= tpool[t].total
    /\ IF t \in loop THEN UNCHANGED <<tpool, para, loop>> ELSE Forget({t})
    /\ running' = t
    /\ UNCHANGED <<uniquetid, failed, calls, arming, slots, expired>>

(* It returns, and a loop that it has not stopped starts again. *)
Return ==
    /\ running # 0 /\ arming = Idle /\ running' = 0
    /\ IF running \in loop THEN StartAgain(running)
       ELSE UNCHANGED <<arming, slots>>
    /\ UNCHANGED <<tpool, para, loop, uniquetid, failed, calls, msgs, expired>>

TimerFnc == Return \/ \E t \in Tids : Ignore(t) \/ NextStep(t) \/ Call(t)

Next ==
    \/ Handler \/ TimerFnc \/ Armed \/ Refused
    \/ \E t \in Tids : Expire(t)
    \/ \E e \in expired : CallbackEnd(e)

Spec == Init /\ [][Next]_vars

(* Time passes for every timer, the callbacks of the operating system end, *)
(* and the Lua task handles its messages.                                  *)
FairSpec ==
    /\ Spec /\ WF_vars(TimerFnc \/ Armed \/ Refused)
    /\ \A t \in Tids : WF_vars(Expire(t))
    /\ WF_vars(\E e \in expired : CallbackEnd(e))

----------------------------------------------------------------------------
(* Properties *)

TypeOK ==
    /\ In(tpool) \subseteq 1..uniquetid /\ uniquetid \in 0..MaxTid
    /\ \A t \in In(tpool) : tpool[t] \in Entry
    /\ In(para) \subseteq In(tpool) /\ loop \subseteq In(tpool)
    /\ \A t \in In(para) : para[t] \in Args
    /\ running \in 0..uniquetid /\ arming.tid \in 0..uniquetid
    /\ slots \subseteq [h : Handles, id : 1..uniquetid, armed : BOOLEAN]
    /\ Cardinality(slots) <= MaxLuaTimers
    /\ msgs \in Seq(1..uniquetid) /\ failed \subseteq 1..uniquetid
    /\ expired \subseteq [h : Handles, id : 1..uniquetid]

Runs(t) == \E s \in slots : s.id = t /\ s.armed
Elapsed(t) == t \in ToSet(msgs)
InHand(t) == running = t \/ arming.tid = t

(* A timer id stands for one time-out: it runs in one slot, or has one     *)
(* message on the way, or is being handled, never two of these.  A second  *)
(* would call a callback before its time.                                  *)
OnePending ==
    \A t \in Tids :
        /\ Cardinality({s \in slots : s.id = t}) <= 1
        /\ Cardinality({i \in 1..Len(msgs) : msgs[i] = t}) <= 1
        /\ ~(Runs(t) /\ Elapsed(t)) /\ ~(InHand(t) /\ (Runs(t) \/ Elapsed(t)))

(* Timers that have started stay in time: an id in tpool that no start has *)
(* been refused runs, has elapsed or is being handled, however the         *)
(* callback of the operating system and the Lua task interleave.           *)
ActiveIsPending ==
    \A t \in In(tpool) \ failed : Runs(t) \/ Elapsed(t) \/ InHand(t)

(* The table of Lua and the slots below it agree: every id has exactly one *)
(* time-out to come, or was refused.                                       *)
Inv == TypeOK /\ OnePending /\ ActiveIsPending

(* The state of the timer of a key, to which a start in progress does not  *)
(* count yet.                                                              *)
Starting == IF arming.kind = "again" THEN {} ELSE {arming.tid}

State(k) ==
    LET T == Matches(k) \ Starting
    IN  CASE T = {} -> "off"
          [] \E t \in T : Runs(t) -> "armed"
          [] \E t \in T : Elapsed(t) -> "due"
          [] OTHER -> "run"

(* Until a start is refused, the timers of sys.lua are those of KeyTimer:  *)
(* one for each callback and arguments, that runs its callback once per    *)
(* time-out and never after it is stopped.  A refused start breaks this:   *)
(* what it leaves in tpool has no arguments, so that timer_stop can take   *)
(* it for the timer of the callback alone.                                 *)
Abstract == INSTANCE KeyTimer
    WITH timer <- [k \in Keys |-> IF failed = {} THEN State(k) ELSE "off"]
ImplementsTimers == Abstract!Spec

(* A timer that is not stopped, nor refused, has its callback called. *)
TimersFire ==
    \A t \in Tids :
        t \in In(tpool) \ failed ~> running = t \/ t \notin In(tpool) \ failed
=============================================================================
