--------------------------- MODULE SysTimerProofs ---------------------------
(***************************************************************************)
(* The tables of Lua and the slots below them agree, for any number of     *)
(* timers, slots and handles, if the operating system gives out no handle  *)
(* whose callback still runs.                                              *)
(*                                                                         *)
(* A callback of the operating system deletes a timer by its handle, after *)
(* the Lua task may have stopped it and started another; that it never     *)
(* meets a timer that is still to expire (HandleIsOwn) is what keeps       *)
(* ActiveIsPending.                                                        *)
(***************************************************************************)
EXTENDS SysTimer, FiniteSetTheorems, TLAPS

Slot == [h : Handles, id : 1..uniquetid, armed : BOOLEAN]

OneSlot == \A s, r \in slots : s.id = r.id \/ s.h = r.h => s = r

HandleIsOwn == \A e \in expired, s \in slots : s.h = e.h => ~s.armed

Occurs(q, t) == \E i \in 1..Len(q) : q[i] = t
Distinct(q) == \A i, j \in 1..Len(q) : q[i] = q[j] => i = j

(* A start in progress is that of an id in tpool which has no slot yet. *)
StartIsNew ==
    arming # Idle =>
        /\ arming.tid \in DOMAIN tpool
        /\ arming.kind # "again" => arming.key \in Keys
        /\ \A s \in slots : s.id # arming.tid

(* A callback that is running belongs to a loop, or to no timer any more,  *)
(* and a start made inside it is that of another timer.                    *)
RunningLoops ==
    /\ running \in DOMAIN tpool => running \in loop
    /\ arming # Idle => arming.tid # running

(* A timer runs, has elapsed or is being handled, one of these at a time. *)
OnePlace ==
    \A t \in 1..uniquetid :
        /\ ~(Runs(t) /\ Occurs(msgs, t))
        /\ ~(InHand(t) /\ (Runs(t) \/ Occurs(msgs, t)))

Pending ==
    \A t \in DOMAIN tpool \ failed : Runs(t) \/ Occurs(msgs, t) \/ InHand(t)

IInv ==
    /\ TypeOK /\ IsFiniteSet(slots) /\ OneSlot /\ HandleIsOwn /\ Distinct(msgs)
    /\ StartIsNew /\ RunningLoops /\ OnePlace /\ Pending

----------------------------------------------------------------------------
(* Messages *)

LEMMA OccursAppend ==
    ASSUME NEW S, NEW q \in Seq(S), NEW t \in S
    PROVE  /\ \A u : Occurs(Append(q, t), u) <=> Occurs(q, u) \/ u = t
           /\ Distinct(q) /\ ~Occurs(q, t) => Distinct(Append(q, t))
BY DEF Occurs, Distinct

LEMMA OccursTail ==
    ASSUME NEW S, NEW q \in Seq(S), q # <<>>, Distinct(q)
    PROVE  /\ Head(q) \in S /\ Tail(q) \in Seq(S) /\ Distinct(Tail(q))
           /\ \A u : Occurs(q, u) => u \in S
           /\ Occurs(q, Head(q)) /\ ~Occurs(Tail(q), Head(q))
           /\ \A u : Occurs(Tail(q), u) <=> Occurs(q, u) /\ u # Head(q)
<1>1. Len(q) \in Nat \ {0} /\ Len(Tail(q)) = Len(q) - 1
  OBVIOUS
<1>2. \A i \in 1..Len(Tail(q)) : Tail(q)[i] = q[i + 1] /\ i + 1 \in 1..Len(q) /\ i + 1 # 1
  BY <1>1
<1>3. \A i \in 1..Len(q) : i # 1 => i - 1 \in 1..Len(Tail(q)) /\ Tail(q)[i - 1] = q[i]
  BY <1>1
<1>4. Head(q) = q[1] /\ 1 \in 1..Len(q)
  BY <1>1
<1>5. Head(q) \in S /\ Tail(q) \in Seq(S)
  OBVIOUS
<1>6. \A u : Occurs(q, u) => u \in S
  BY DEF Occurs
<1>7. Occurs(q, Head(q)) /\ ~Occurs(Tail(q), Head(q))
  BY <1>2, <1>4 DEF Occurs, Distinct
<1>8. Distinct(Tail(q))
  <2> SUFFICES ASSUME NEW i \in 1..Len(Tail(q)), NEW j \in 1..Len(Tail(q)),
                      Tail(q)[i] = Tail(q)[j]
               PROVE  i = j
    BY DEF Distinct
  <2>1. i + 1 = j + 1
    BY <1>2 DEF Distinct
  <2> QED
    BY <2>1, <1>1
<1>9. \A u : Occurs(Tail(q), u) <=> Occurs(q, u) /\ u # Head(q)
  <2> TAKE u
  <2>1. ASSUME Occurs(Tail(q), u) PROVE Occurs(q, u) /\ u # Head(q)
    BY <2>1, <1>2, <1>7 DEF Occurs
  <2>2. ASSUME Occurs(q, u), u # Head(q) PROVE Occurs(Tail(q), u)
    BY <2>2, <1>3, <1>4 DEF Occurs
  <2> QED
    BY <2>1, <2>2
<1> QED
  BY <1>5, <1>6, <1>7, <1>8, <1>9

LEMMA SeqGrows ==
    ASSUME NEW m \in Nat, NEW n \in Nat, m <= n, NEW q \in Seq(1..m)
    PROVE  q \in Seq(1..n)
<1>1. 1..m \subseteq 1..n
  OBVIOUS
<1> QED
  BY <1>1

(* At most one element *)
LEMMA AtMostOne ==
    ASSUME NEW S, \A x, y \in S : x = y
    PROVE  Cardinality(S) <= 1
<1>1. CASE S = {}
  BY <1>1, FS_EmptySet
<1>2. CASE S # {}
  <2>1. PICK x \in S : S = {x}
    BY <1>2
  <2> QED
    BY <2>1, FS_Singleton
<1> QED
  BY <1>1, <1>2

LEMMA InvHolds == IInv => Inv
<1> SUFFICES ASSUME IInv PROVE OnePending /\ ActiveIsPending
  BY DEF IInv, Inv
<1>1. \A t : Elapsed(t) <=> Occurs(msgs, t)
  BY DEF IInv, TypeOK, Elapsed, Occurs, ToSet
<1>2. ActiveIsPending
  BY <1>1 DEF IInv, Pending, ActiveIsPending, In
<1>3. ASSUME NEW t \in Tids
      PROVE  /\ Cardinality({s \in slots : s.id = t}) <= 1
             /\ Cardinality({i \in 1..Len(msgs) : msgs[i] = t}) <= 1
  <2>1. \A x, y \in {s \in slots : s.id = t} : x = y
    BY DEF IInv, OneSlot
  <2>2. \A x, y \in {i \in 1..Len(msgs) : msgs[i] = t} : x = y
    BY DEF IInv, Distinct
  <2> QED
    BY <2>1, <2>2, AtMostOne
<1>4. ASSUME NEW t \in Tids
      PROVE  ~(Runs(t) /\ Elapsed(t)) /\ ~(InHand(t) /\ (Runs(t) \/ Elapsed(t)))
  <2>1. CASE t \in 1..uniquetid
    BY <2>1, <1>1 DEF IInv, OnePlace
  <2>2. CASE t \notin 1..uniquetid
    <3>1. ~Runs(t)
      BY <2>2 DEF IInv, TypeOK, Runs
    <3>2. ~Occurs(msgs, t)
      BY <2>2 DEF IInv, TypeOK, Occurs
    <3> QED
      BY <3>1, <3>2, <1>1
  <2> QED
    BY <2>1, <2>2
<1> QED
  BY <1>2, <1>3, <1>4 DEF OnePending

----------------------------------------------------------------------------
(* Slots *)

LEMMA FewerSlots ==
    ASSUME IInv, NEW S \in SUBSET slots
    PROVE  IsFiniteSet(S) /\ Cardinality(S) <= MaxLuaTimers
<1>1. IsFiniteSet(slots) /\ Cardinality(slots) <= MaxLuaTimers
  BY DEF IInv, TypeOK
<1>2. IsFiniteSet(S) /\ Cardinality(S) <= Cardinality(slots)
  BY <1>1, FS_Subset
<1>3. Cardinality(S) \in Nat /\ Cardinality(slots) \in Nat
  BY <1>1, <1>2, FS_CardinalityType
<1> QED
  BY <1>1, <1>2, <1>3, SysTimerAssumption

LEMMA InitInv == Init => IInv
<1> SUFFICES ASSUME Init PROVE IInv
  OBVIOUS
<1>1. IsFiniteSet(slots) /\ Cardinality(slots) <= MaxLuaTimers
  BY FS_EmptySet, SysTimerAssumption DEF Init
<1>2. DOMAIN tpool = {} /\ DOMAIN para = {}
  BY DEF Init
<1>3. TypeOK
  BY <1>1, <1>2, SysTimerAssumption DEF Init, TypeOK, In, Idle
<1>4. OneSlot /\ HandleIsOwn /\ Distinct(msgs)
  BY DEF Init, OneSlot, HandleIsOwn, Distinct
<1>5. StartIsNew /\ RunningLoops /\ OnePlace /\ Pending
  BY <1>2 DEF Init, StartIsNew, RunningLoops, OnePlace, Pending
<1> QED
  BY <1>1, <1>3, <1>4, <1>5 DEF IInv

LEMMA ExpireInv == ASSUME IInv, NEW t \in Tids, Expire(t) PROVE IInv'
<1>1. PICK s \in slots :
          /\ s.id = t /\ s.armed
          /\ slots' = (slots \ {s}) \union {[s EXCEPT !.armed = FALSE]}
          /\ msgs' = Append(msgs, t)
          /\ expired' = expired \union {[h |-> s.h, id |-> t]}
          /\ UNCHANGED <<sysvars, arming>>
  BY DEF Expire
<1> DEFINE r == [s EXCEPT !.armed = FALSE]
<1>2. s \in Slot /\ slots \subseteq Slot
  BY DEF IInv, TypeOK, Slot
<1>3. r \in Slot /\ r.h = s.h /\ r.id = t /\ r.armed = FALSE
  BY <1>1, <1>2 DEF Slot
<1> HIDE DEF r
<1>4. slots' = (slots \ {s}) \union {r} /\ slots' \subseteq Slot
  BY <1>1, <1>2, <1>3 DEF r
<1>5. t \in 1..uniquetid /\ s.h \in Handles
  BY <1>1, <1>2 DEF Slot
<1>6. IsFiniteSet(slots') /\ Cardinality(slots') <= MaxLuaTimers
  <2>1. IsFiniteSet(slots) /\ Cardinality(slots) <= MaxLuaTimers
    BY FewerSlots
  <2>2. IsFiniteSet(slots \ {s}) /\ Cardinality(slots \ {s}) = Cardinality(slots) - 1
    BY <2>1, FS_RemoveElement
  <2>3. /\ IsFiniteSet(slots')
        /\ Cardinality(slots') \in {Cardinality(slots \ {s}), Cardinality(slots \ {s}) + 1}
    BY <2>2, <1>4, FS_AddElement
  <2>4. Cardinality(slots) \in Nat
    BY <2>1, FS_CardinalityType
  <2> QED
    BY <2>1, <2>2, <2>3, <2>4, SysTimerAssumption
<1>7. ~Occurs(msgs, t) /\ ~InHand(t)
  BY <1>1, <1>5 DEF IInv, OnePlace, Runs
<1>8. /\ msgs' \in Seq(1..uniquetid) /\ Distinct(msgs)'
      /\ \A u : Occurs(msgs, u)' <=> Occurs(msgs, u) \/ u = t
  <2>1. msgs \in Seq(1..uniquetid) /\ Distinct(msgs)
    BY DEF IInv, TypeOK
  <2>2. \A u : Occurs(Append(msgs, t), u) <=> Occurs(msgs, u) \/ u = t
    BY <2>1, <1>5, OccursAppend
  <2>3. Distinct(Append(msgs, t))
    BY <2>1, <1>5, <1>7, OccursAppend
  <2> QED
    BY <2>1, <2>2, <2>3, <1>1, <1>5 DEF Occurs, Distinct
<1>9. /\ UNCHANGED <<tpool, para, loop, uniquetid, running, failed, arming>>
      /\ expired' = expired \union {[h |-> s.h, id |-> t]}
  BY <1>1 DEF sysvars
<1>10. TypeOK'
  BY <1>4, <1>5, <1>6, <1>8, <1>9 DEF IInv, TypeOK, Slot
<1>11. OneSlot' /\ HandleIsOwn'
  BY <1>1, <1>3, <1>4, <1>9 DEF IInv, OneSlot, HandleIsOwn
<1>12. StartIsNew' /\ RunningLoops'
  BY <1>1, <1>3, <1>4, <1>9 DEF IInv, StartIsNew, RunningLoops
<1>13. \A u : Runs(u)' <=> Runs(u) /\ u # t
  BY <1>1, <1>3, <1>4 DEF IInv, OneSlot, Runs
<1>14. OnePlace' /\ Pending'
  BY <1>7, <1>8, <1>9, <1>13 DEF IInv, OnePlace, Pending, InHand
<1> QED
  BY <1>6, <1>8, <1>10, <1>11, <1>12, <1>14 DEF IInv

LEMMA CallbackEndInv ==
    ASSUME IInv, NEW e \in expired, CallbackEnd(e) PROVE IInv'
<1>1. /\ expired' = expired \ {e} /\ slots' = {s \in slots : s.h # e.h}
      /\ UNCHANGED <<tpool, para, loop, uniquetid, running, failed, arming, msgs>>
  BY DEF CallbackEnd, sysvars
<1>2. slots' \subseteq slots
  BY <1>1
<1>3. IsFiniteSet(slots') /\ Cardinality(slots') <= MaxLuaTimers
  BY <1>2, FewerSlots
<1>4. TypeOK'
  BY <1>1, <1>2, <1>3 DEF IInv, TypeOK
<1>5. \A u : Runs(u)' <=> Runs(u)
  BY <1>1 DEF IInv, HandleIsOwn, Runs
<1>6. OnePlace' /\ Pending' /\ Distinct(msgs)'
  BY <1>1, <1>5 DEF IInv, OnePlace, Pending, InHand, Occurs, Distinct
<1>7. OneSlot' /\ HandleIsOwn' /\ StartIsNew' /\ RunningLoops'
  BY <1>1, <1>2 DEF IInv, OneSlot, HandleIsOwn, StartIsNew, RunningLoops
<1> QED
  BY <1>3, <1>4, <1>6, <1>7 DEF IInv

LEMMA ArmedInv == ASSUME IInv, ~HandlesReused, Armed PROVE IInv'
<1>1. PICK h \in NewHandles :
          slots' = slots \union {[h |-> h, id |-> arming.tid, armed |-> TRUE]}
  BY DEF Armed
<1> DEFINE r == [h |-> h, id |-> arming.tid, armed |-> TRUE]
<1>2. /\ arming # Idle /\ arming' = Idle /\ Cardinality(slots) < MaxLuaTimers
      /\ UNCHANGED <<tpool, uniquetid, running, failed, msgs, expired>>
  BY DEF Armed
<1>3. arming.tid \in DOMAIN tpool /\ arming.tid \in 1..uniquetid
  BY <1>2 DEF IInv, StartIsNew, TypeOK, In
<1>4. /\ h \in Handles /\ \A s \in slots : s.h # h /\ s.id # arming.tid
      /\ \A e \in expired : e.h # h
  BY <1>2 DEF NewHandles, IInv, StartIsNew
<1>5. r.h = h /\ r.id = arming.tid /\ r.armed = TRUE /\ r \in Slot
  BY <1>3, <1>4 DEF Slot
<1> HIDE DEF r
<1>6. slots' = slots \union {r} /\ slots' \subseteq Slot
  BY <1>1, <1>5 DEF r, IInv, TypeOK, Slot
<1>7. IsFiniteSet(slots') /\ Cardinality(slots') <= MaxLuaTimers
  <2>1. IsFiniteSet(slots) /\ Cardinality(slots) \in Nat
    BY FS_CardinalityType DEF IInv
  <2>2. /\ IsFiniteSet(slots')
        /\ Cardinality(slots') \in {Cardinality(slots), Cardinality(slots) + 1}
    BY <2>1, <1>6, FS_AddElement
  <2> QED
    BY <2>1, <2>2, <1>2, SysTimerAssumption
<1>8. /\ DOMAIN para' \subseteq DOMAIN tpool
      /\ \A u \in DOMAIN para' : para'[u] \in Args
  <2>1. CASE arming.kind = "again" \/ arming.key[2] = NoArg
    BY <2>1 DEF Armed, IInv, TypeOK, In
  <2>2. CASE arming.kind # "again" /\ arming.key[2] # NoArg
    <3>1. arming.key[2] \in Args
      BY <2>2, <1>2 DEF IInv, StartIsNew, Keys
    <3>2. para' = With(para, arming.tid, arming.key[2])
      BY <2>2 DEF Armed
    <3> QED
      BY <3>1, <3>2, <1>3 DEF With, IInv, TypeOK, In
  <2> QED
    BY <2>1, <2>2
<1>9. loop' \subseteq DOMAIN tpool /\ loop \subseteq loop'
  BY <1>3 DEF Armed, IInv, TypeOK, In
<1>10. TypeOK'
  BY <1>2, <1>6, <1>7, <1>8, <1>9 DEF IInv, TypeOK, In, Slot, Idle
<1>11. OneSlot' /\ HandleIsOwn'
  BY <1>2, <1>4, <1>5, <1>6 DEF IInv, OneSlot, HandleIsOwn
<1>12. StartIsNew' /\ RunningLoops' /\ Distinct(msgs)'
  BY <1>2, <1>9 DEF IInv, StartIsNew, RunningLoops, Distinct
<1>13. \A u : Runs(u)' <=> Runs(u) \/ u = arming.tid
  BY <1>5, <1>6 DEF Runs
<1>14. ~Occurs(msgs, arming.tid)
  BY <1>3 DEF IInv, OnePlace, InHand
<1>15. running # arming.tid
  BY <1>2 DEF IInv, RunningLoops
<1>16. OnePlace' /\ Pending'
  BY <1>2, <1>3, <1>13, <1>14, <1>15 DEF IInv, OnePlace, Pending, InHand, Occurs, Idle
<1> QED
  BY <1>7, <1>10, <1>11, <1>12, <1>16 DEF IInv

LEMMA RefusedInv == ASSUME IInv, Refused PROVE IInv'
<1>1. /\ arming # Idle /\ arming' = Idle /\ failed' = failed \union {arming.tid}
      /\ UNCHANGED <<tpool, para, loop, uniquetid, running, slots, msgs, expired>>
  BY DEF Refused
<1>2. arming.tid \in 1..uniquetid
  BY <1>1 DEF IInv, StartIsNew, TypeOK, In
<1>3. TypeOK'
  <2>1. arming'.tid = 0 /\ uniquetid \in Nat
    BY <1>1 DEF Idle, IInv, TypeOK
  <2>2. failed' \subseteq 1..uniquetid
    BY <1>1, <1>2 DEF IInv, TypeOK
  <2> QED
    BY <2>1, <2>2, <1>1 DEF IInv, TypeOK
<1>4. OnePlace' /\ Pending'
  BY <1>1, <1>2 DEF IInv, OnePlace, Pending, InHand, Occurs, Runs, Idle
<1>5. OneSlot' /\ HandleIsOwn' /\ StartIsNew' /\ RunningLoops' /\ Distinct(msgs)'
  BY <1>1 DEF IInv, OneSlot, HandleIsOwn, StartIsNew, RunningLoops, Distinct
<1> QED
  BY <1>1, <1>3, <1>4, <1>5 DEF IInv

----------------------------------------------------------------------------
(* The calls of sys.lua *)

(* Timers T are forgotten, and some of their slots freed. *)
LEMMA ForgetInv ==
    ASSUME IInv, arming = Idle, NEW T, Forget(T), slots' \subseteq slots,
           \A s \in slots \ slots' : s.id \in T,
           UNCHANGED <<uniquetid, running, failed, arming, msgs, expired>>
    PROVE  IInv'
<1>1. /\ DOMAIN tpool' = DOMAIN tpool \ T /\ DOMAIN para' = DOMAIN para \ T
      /\ \A u \in DOMAIN tpool' : tpool'[u] = tpool[u]
      /\ \A u \in DOMAIN para' : para'[u] = para[u]
      /\ loop' = loop \ T
  BY DEF Forget, Without
<1>2. IsFiniteSet(slots') /\ Cardinality(slots') <= MaxLuaTimers
  BY FewerSlots
<1>3. TypeOK'
  BY <1>1, <1>2 DEF IInv, TypeOK, In
<1>4. OneSlot' /\ HandleIsOwn' /\ StartIsNew' /\ RunningLoops' /\ Distinct(msgs)'
  BY <1>1 DEF IInv, OneSlot, HandleIsOwn, StartIsNew, RunningLoops, Distinct
<1>5. /\ \A u : Runs(u)' => Runs(u)
      /\ \A u \in DOMAIN tpool' : Runs(u) => Runs(u)'
  BY <1>1 DEF Runs
<1>6. OnePlace'
  BY <1>5 DEF IInv, OnePlace, InHand, Occurs
<1>7. Pending'
  BY <1>1, <1>5 DEF IInv, Pending, InHand, Occurs
<1> QED
  BY <1>2, <1>3, <1>4, <1>6, <1>7 DEF IInv

LEMMA StopInv ==
    ASSUME IInv,
           \/ \E k \in Keys : TimerStop(k)
           \/ \E t \in 1..uniquetid : TimerStopId(t)
           \/ \E f \in Fncs : TimerStopAll(f)
    PROVE  IInv'
<1>1. PICK T :
        /\ arming = Idle /\ Forget(T)
        /\ StopSlots(T) \/ slots' = slots
        /\ UNCHANGED <<uniquetid, running, failed, arming, msgs, expired>>
  BY DEF TimerStop, TimerStopId, TimerStopAll, CanCall
<1>2. slots' \subseteq slots /\ \A s \in slots \ slots' : s.id \in T
  BY <1>1 DEF StopSlots
<1> QED
  BY <1>1, <1>2, ForgetInv

LEMMA TimerStartInv ==
    ASSUME IInv, NEW k \in Keys, NEW kind \in {"once", "loop", "long"},
           TimerStart(k, kind)
    PROVE  IInv'
<1> DEFINE n == uniquetid + 1
           v == [cb |-> k[1], times |-> 0,
                 total |-> IF kind = "long" THEN 2 ELSE 1]
<1>1. PICK T \in OneOf(Matches(k)) :
        /\ tpool' = With(Without(tpool, T), n, v)
        /\ para' = Without(para, T) /\ loop' = loop \ T
        /\ StopSlots(T)
  BY DEF TimerStart, NextTid
<1>2. /\ arming = Idle /\ uniquetid' = n /\ n \in 1..MaxTid
      /\ arming' = [tid |-> n, key |-> k, kind |-> kind]
      /\ UNCHANGED <<running, failed, msgs, expired>>
  BY DEF TimerStart, NextTid, CanCall, Tids
<1>3. v \in Entry
  BY DEF Entry, Keys
<1>4. uniquetid \in Nat /\ n = uniquetid + 1
  BY DEF IInv, TypeOK
<1> HIDE DEF n, v
<1>5. 1..uniquetid \subseteq 1..n /\ n \in 1..n /\ n \notin 1..uniquetid /\ n # 0
  BY <1>4
<1>6. /\ DOMAIN tpool' = (DOMAIN tpool \ T) \union {n} /\ tpool'[n] = v
      /\ \A u \in DOMAIN tpool \ T : u # n => tpool'[u] = tpool[u]
  BY <1>1 DEF With, Without
<1>7. DOMAIN para' = DOMAIN para \ T /\ \A u \in DOMAIN para' : para'[u] = para[u]
  BY <1>1 DEF Without
<1>8. slots' \subseteq slots /\ \A s \in slots \ slots' : s.id \in T
  BY <1>1 DEF StopSlots
<1>9. IsFiniteSet(slots') /\ Cardinality(slots') <= MaxLuaTimers
  BY <1>8, FewerSlots
<1>10. arming' # Idle /\ arming'.tid = n /\ arming'.key = k /\ arming'.kind = kind
  BY <1>2, <1>5 DEF Idle
<1>11. TypeOK'
  <2>1. In(tpool)' \subseteq 1..n /\ In(para)' \subseteq In(tpool)' /\ loop' \subseteq In(tpool)'
    BY <1>1, <1>5, <1>6, <1>7 DEF IInv, TypeOK, In
  <2>2. \A t \in In(tpool)' : tpool'[t] \in Entry
    BY <1>3, <1>6 DEF IInv, TypeOK, In
  <2>3. \A t \in In(para)' : para'[t] \in Args
    BY <1>7 DEF IInv, TypeOK, In
  <2>4. running' \in 0..n /\ arming'.tid \in 0..n /\ n \in 0..MaxTid
    BY <1>2, <1>4, <1>10 DEF IInv, TypeOK
  <2>5. slots' \subseteq [h : Handles, id : 1..n, armed : BOOLEAN]
    BY <1>5, <1>8 DEF IInv, TypeOK
  <2>6. msgs' \in Seq(1..n)
    BY <1>2, <1>4, SeqGrows DEF IInv, TypeOK
  <2>7. failed' \subseteq 1..n /\ expired' \subseteq [h : Handles, id : 1..n]
    BY <1>2, <1>5 DEF IInv, TypeOK
  <2> QED
    BY <2>1, <2>2, <2>3, <2>4, <2>5, <2>6, <2>7, <1>2, <1>9 DEF TypeOK
<1>12. OneSlot' /\ HandleIsOwn' /\ Distinct(msgs)'
  BY <1>2, <1>8 DEF IInv, OneSlot, HandleIsOwn, Distinct
<1>13. StartIsNew'
  <2>1. \A s \in slots' : s.id # n
    BY <1>5, <1>8 DEF IInv, TypeOK
  <2> QED
    BY <2>1, <1>6, <1>10 DEF StartIsNew
<1>14. RunningLoops'
  <2>1. running # n
    BY <1>5, <1>4 DEF IInv, TypeOK
  <2> QED
    BY <2>1, <1>1, <1>2, <1>6, <1>10 DEF IInv, RunningLoops
<1>15. /\ \A u : Runs(u)' => Runs(u)
       /\ \A u \in DOMAIN tpool \ T : Runs(u) => Runs(u)'
       /\ \A u : Occurs(msgs, u)' <=> Occurs(msgs, u)
  BY <1>2, <1>8 DEF Runs, Occurs
<1>16. ~Runs(n) /\ ~Occurs(msgs, n)
  BY <1>5 DEF IInv, TypeOK, Runs, Occurs
<1>17. OnePlace'
  <2> SUFFICES ASSUME NEW u \in 1..n
               PROVE  (/\ ~(Runs(u) /\ Occurs(msgs, u))
                       /\ ~(InHand(u) /\ (Runs(u) \/ Occurs(msgs, u))))'
    BY <1>2 DEF OnePlace
  <2>1. CASE u = n
    BY <2>1, <1>15, <1>16
  <2>2. CASE u # n
    <3>1. u \in 1..uniquetid
      BY <2>2, <1>4
    <3>2. InHand(u)' => InHand(u)
      BY <2>2, <1>2, <1>10 DEF InHand
    <3> QED
      BY <3>1, <3>2, <1>15 DEF IInv, OnePlace
  <2> QED
    BY <2>1, <2>2
<1>18. Pending'
  <2> SUFFICES ASSUME NEW u \in DOMAIN tpool' \ failed'
               PROVE  (Runs(u) \/ Occurs(msgs, u) \/ InHand(u))'
    BY DEF Pending
  <2>1. CASE u = n
    BY <2>1, <1>10 DEF InHand
  <2>2. CASE u # n
    <3>1. u \in DOMAIN tpool \ T /\ u \notin failed /\ u # 0
      BY <2>2, <1>2, <1>6 DEF IInv, TypeOK, In
    <3>2. InHand(u) => InHand(u)'
      BY <3>1, <1>2 DEF InHand, Idle
    <3> QED
      BY <3>1, <3>2, <1>15 DEF IInv, Pending
  <2> QED
    BY <2>1, <2>2
<1> QED
  BY <1>9, <1>11, <1>12, <1>13, <1>14, <1>17, <1>18 DEF IInv

----------------------------------------------------------------------------
(* timerfnc *)

(* A message is taken: its timer is in hand now, or forgotten. *)
LEMMA TakeFacts ==
    ASSUME IInv, NEW t, Take(t)
    PROVE  /\ t \in 1..uniquetid /\ arming = Idle /\ running = 0
           /\ msgs' \in Seq(1..uniquetid) /\ Distinct(msgs)'
           /\ \A u : Occurs(msgs, u)' <=> Occurs(msgs, u) /\ u # t
           /\ ~Runs(t)
<1>1. /\ running = 0 /\ arming = Idle /\ msgs # <<>>
      /\ t = Head(msgs) /\ msgs' = Tail(msgs)
  BY DEF Take
<1>2. msgs \in Seq(1..uniquetid) /\ Distinct(msgs)
  BY DEF IInv, TypeOK
<1>3. /\ Head(msgs) \in 1..uniquetid /\ Tail(msgs) \in Seq(1..uniquetid)
      /\ Distinct(Tail(msgs)) /\ Occurs(msgs, Head(msgs))
      /\ \A u : Occurs(Tail(msgs), u) <=> Occurs(msgs, u) /\ u # Head(msgs)
  BY <1>1, <1>2, OccursTail
<1>4. Distinct(msgs)' /\ \A u : Occurs(msgs, u)' <=> Occurs(Tail(msgs), u)
  BY <1>1, <1>3 DEF Distinct, Occurs
<1>5. ~Runs(t)
  BY <1>1, <1>3 DEF IInv, OnePlace
<1> QED
  BY <1>1, <1>3, <1>4, <1>5

LEMMA IgnoreInv == ASSUME IInv, NEW t \in Tids, Ignore(t) PROVE IInv'
<1>1. /\ Take(t) /\ t \notin DOMAIN tpool
      /\ UNCHANGED <<tpool, para, loop, uniquetid, running, failed, arming,
                     slots, expired>>
  BY DEF Ignore, In, sysvars
<1>2. /\ msgs' \in Seq(1..uniquetid) /\ Distinct(msgs)'
      /\ \A u : Occurs(msgs, u)' <=> Occurs(msgs, u) /\ u # t
  BY <1>1, TakeFacts
<1>3. TypeOK'
  BY <1>1, <1>2 DEF IInv, TypeOK
<1>4. OnePlace' /\ Pending'
  BY <1>1, <1>2 DEF IInv, OnePlace, Pending, InHand, Runs
<1>5. OneSlot' /\ HandleIsOwn' /\ StartIsNew' /\ RunningLoops'
  BY <1>1 DEF IInv, OneSlot, HandleIsOwn, StartIsNew, RunningLoops
<1> QED
  BY <1>1, <1>2, <1>3, <1>4, <1>5 DEF IInv

LEMMA CallInv == ASSUME IInv, NEW t \in Tids, Call(t) PROVE IInv'
<1>1. /\ Take(t) /\ t \in DOMAIN tpool /\ running' = t
      /\ UNCHANGED <<uniquetid, failed, arming, slots, expired>>
  BY DEF Call, In
<1>2. /\ t \in 1..uniquetid /\ arming = Idle /\ running = 0
      /\ msgs' \in Seq(1..uniquetid) /\ Distinct(msgs)'
      /\ \A u : Occurs(msgs, u)' <=> Occurs(msgs, u) /\ u # t
      /\ ~Runs(t)
  BY <1>1, TakeFacts
<1>3. /\ DOMAIN tpool' \subseteq DOMAIN tpool /\ DOMAIN para' \subseteq DOMAIN tpool'
      /\ loop' \subseteq DOMAIN tpool' /\ (t \in DOMAIN tpool' => t \in loop')
      /\ \A u \in DOMAIN tpool' : tpool'[u] = tpool[u]
      /\ \A u \in DOMAIN para' : u \in DOMAIN para /\ para'[u] = para[u]
  <2>1. CASE t \in loop
    <3>1. UNCHANGED <<tpool, para, loop>>
      BY <2>1 DEF Call
    <3> QED
      BY <2>1, <3>1 DEF IInv, TypeOK, In
  <2>2. CASE t \notin loop
    <3>1. Forget({t})
      BY <2>2 DEF Call
    <3> QED
      BY <3>1 DEF Forget, Without, IInv, TypeOK, In
  <2> QED
    BY <2>1, <2>2
<1>4. TypeOK'
  BY <1>1, <1>2, <1>3 DEF IInv, TypeOK, In
<1>5. OnePlace'
  BY <1>1, <1>2 DEF IInv, OnePlace, InHand, Runs, Idle
<1>6. Pending'
  <2> SUFFICES ASSUME NEW u \in DOMAIN tpool' \ failed'
               PROVE  (Runs(u) \/ Occurs(msgs, u) \/ InHand(u))'
    BY DEF Pending
  <2>1. CASE u = t
    BY <2>1, <1>1 DEF InHand
  <2>2. CASE u # t
    <3>1. u \in DOMAIN tpool \ failed /\ u # 0
      BY <1>1, <1>3 DEF IInv, TypeOK, In
    <3>2. Runs(u) \/ Occurs(msgs, u)
      BY <3>1, <1>2 DEF IInv, Pending, InHand, Idle
    <3> QED
      BY <3>2, <2>2, <1>1, <1>2 DEF Runs
  <2> QED
    BY <2>1, <2>2
<1>7. OneSlot' /\ HandleIsOwn' /\ StartIsNew' /\ RunningLoops'
  BY <1>1, <1>2, <1>3 DEF IInv, OneSlot, HandleIsOwn, StartIsNew, RunningLoops
<1> QED
  BY <1>1, <1>2, <1>4, <1>5, <1>6, <1>7 DEF IInv

(* The timer below is stopped, and started again for the same id: the next *)
(* step of a long timer, or of a loop whose callback has returned.         *)
LEMMA AgainInv ==
    ASSUME IInv, NEW t \in DOMAIN tpool, arming = Idle, StartAgain(t), running' = 0,
           ~Occurs(msgs, t)', ~Runs(t), running \in {0, t},
           msgs' \in Seq(1..uniquetid), Distinct(msgs)',
           \A u : u # t => (Occurs(msgs, u)' <=> Occurs(msgs, u)),
           DOMAIN tpool' = DOMAIN tpool, \A u \in DOMAIN tpool : tpool'[u] \in Entry,
           UNCHANGED <<para, loop, uniquetid, failed, expired>>
    PROVE  IInv'
<1>1. t \in 1..uniquetid /\ uniquetid \in Nat
  BY DEF IInv, TypeOK, In
<1>2. arming' # Idle /\ arming'.tid = t /\ arming'.kind = "again"
  BY <1>1 DEF StartAgain, Idle
<1>3. /\ slots' \subseteq slots /\ \A s \in slots : s.id # t => s \in slots'
      /\ \A s \in slots' : s.id # t
  BY DEF StartAgain, StopSlots
<1>4. IsFiniteSet(slots') /\ Cardinality(slots') <= MaxLuaTimers
  BY <1>3, FewerSlots
<1>5. TypeOK'
  BY <1>1, <1>2, <1>3, <1>4 DEF IInv, TypeOK, In
<1>6. /\ \A u : Runs(u)' => Runs(u)
      /\ \A u : u # t => (Runs(u) => Runs(u)')
  BY <1>3 DEF Runs
<1>7. OnePlace'
  <2> SUFFICES ASSUME NEW u \in 1..uniquetid
               PROVE  (/\ ~(Runs(u) /\ Occurs(msgs, u))
                       /\ ~(InHand(u) /\ (Runs(u) \/ Occurs(msgs, u))))'
    BY DEF OnePlace
  <2>1. CASE u = t
    BY <2>1, <1>6
  <2>2. CASE u # t
    BY <2>2, <1>1, <1>2, <1>6 DEF IInv, OnePlace, InHand
  <2> QED
    BY <2>1, <2>2
<1>8. Pending'
  <2> SUFFICES ASSUME NEW u \in DOMAIN tpool \ failed
               PROVE  (Runs(u) \/ Occurs(msgs, u) \/ InHand(u))'
    BY DEF Pending
  <2>1. CASE u = t
    BY <2>1, <1>2 DEF InHand
  <2>2. CASE u # t
    <3>1. u # 0
      BY DEF IInv, TypeOK, In
    <3> QED
      BY <2>2, <3>1, <1>6 DEF IInv, Pending, InHand, Idle
  <2> QED
    BY <2>1, <2>2
<1>9. OneSlot' /\ HandleIsOwn'
  BY <1>3 DEF IInv, OneSlot, HandleIsOwn
<1>10. StartIsNew' /\ RunningLoops'
  BY <1>1, <1>2, <1>3 DEF StartIsNew, RunningLoops, IInv, TypeOK, In
<1> QED
  BY <1>4, <1>5, <1>7, <1>8, <1>9, <1>10 DEF IInv

LEMMA NextStepInv == ASSUME IInv, NEW t \in Tids, NextStep(t) PROVE IInv'
<1>1. /\ Take(t) /\ t \in DOMAIN tpool /\ StartAgain(t)
      /\ tpool[t].times + 1 < tpool[t].total
      /\ tpool' = [tpool EXCEPT ![t].times = @ + 1]
      /\ UNCHANGED <<para, loop, uniquetid, running, failed, expired>>
  BY DEF NextStep, In
<1>2. /\ arming = Idle /\ running = 0 /\ ~Runs(t)
      /\ msgs' \in Seq(1..uniquetid) /\ Distinct(msgs)'
      /\ \A u : Occurs(msgs, u)' <=> Occurs(msgs, u) /\ u # t
  BY <1>1, TakeFacts
<1>3. /\ DOMAIN tpool' = DOMAIN tpool
      /\ \A u \in DOMAIN tpool : tpool'[u] \in Entry
  <2>1. tpool[t] \in Entry /\ \A u \in DOMAIN tpool : tpool[u] \in Entry
    BY <1>1 DEF IInv, TypeOK, In
  <2>2. tpool[t].times + 1 \in 0..2
    BY <2>1, <1>1 DEF Entry
  <2>3. tpool'[t] = [tpool[t] EXCEPT !.times = @ + 1]
    BY <1>1
  <2>4. tpool'[t] \in Entry
    BY <2>1, <2>2, <2>3 DEF Entry
  <2> QED
    BY <2>1, <2>4, <1>1
<1> QED
  BY <1>1, <1>2, <1>3, AgainInv

LEMMA ReturnInv == ASSUME IInv, Return PROVE IInv'
<1>1. /\ running # 0 /\ arming = Idle /\ running' = 0
      /\ UNCHANGED <<tpool, para, loop, uniquetid, failed, msgs, expired>>
  BY DEF Return
<1>2. /\ \A u : Occurs(msgs, u)' <=> Occurs(msgs, u)
      /\ Distinct(msgs)' /\ msgs' \in Seq(1..uniquetid)
  BY <1>1 DEF IInv, TypeOK, Distinct, Occurs
<1>3. CASE running \in loop
  <2>1. StartAgain(running) /\ running \in DOMAIN tpool
    BY <1>3 DEF Return, IInv, TypeOK, In
  <2>2. running \in 1..uniquetid
    BY <2>1 DEF IInv, TypeOK, In
  <2>3. ~Runs(running) /\ ~Occurs(msgs, running)
    BY <2>2 DEF IInv, OnePlace, InHand
  <2>4. /\ DOMAIN tpool' = DOMAIN tpool
        /\ \A u \in DOMAIN tpool : tpool'[u] \in Entry
    BY <1>1 DEF IInv, TypeOK, In
  <2> QED
    BY <1>1, <1>2, <2>1, <2>3, <2>4, AgainInv
<1>4. CASE running \notin loop
  <2>1. UNCHANGED <<arming, slots>>
    BY <1>4 DEF Return
  <2>2. running \notin DOMAIN tpool
    BY <1>4 DEF IInv, RunningLoops
  <2>3. TypeOK'
    BY <1>1, <2>1 DEF IInv, TypeOK
  <2>4. OnePlace' /\ Pending'
    BY <1>1, <1>2, <2>1, <2>2 DEF IInv, OnePlace, Pending, InHand, Runs, Idle, TypeOK, In
  <2>5. OneSlot' /\ HandleIsOwn' /\ StartIsNew' /\ RunningLoops'
    BY <1>1, <2>1 DEF IInv, OneSlot, HandleIsOwn, StartIsNew, RunningLoops, TypeOK, In
  <2> QED
    BY <1>1, <1>2, <2>1, <2>3, <2>4, <2>5 DEF IInv
<1> QED
  BY <1>3, <1>4

LEMMA Stutter == IInv /\ UNCHANGED vars => IInv'
BY DEF vars, sysvars, IInv, TypeOK, OneSlot, HandleIsOwn, Distinct, StartIsNew,
       RunningLoops, OnePlace, Pending, InHand, Runs, Occurs, In

(* sys.lua and platform_rtos.c: a timer of Lua that runs has exactly one   *)
(* slot, message or handler, and each slot and message belongs to one id,  *)
(* for any number of timers, slots and handles; the operating system must  *)
(* not give out a handle whose callback still runs.                        *)
THEOREM TimersAreSound == ~HandlesReused => (Spec => []Inv)
<1> SUFFICES ASSUME ~HandlesReused PROVE Spec => []Inv
  OBVIOUS
<1>1. IInv /\ [Next]_vars => IInv'
  BY ExpireInv, CallbackEndInv, ArmedInv, RefusedInv, TimerStartInv, StopInv,
     IgnoreInv, NextStepInv, CallInv, ReturnInv, Stutter
     DEF Next, Handler, TimerFnc
<1> QED
  BY <1>1, InitInv, InvHolds, PTL DEF Spec

----------------------------------------------------------------------------
(* The timers of sys.lua as those of KeyTimer *)

(* A timer is held by the id that tpool has for its callback and its       *)
(* arguments; the id of a start in progress does not hold it yet.          *)
Held(k, t) ==
    t \in DOMAIN tpool /\ t \notin Starting /\ tpool[t].cb = k[1] /\ Arg(t) = k[2]

(* No two ids hold the same timer, and a start in progress is that of a    *)
(* timer which none holds: timer_start has stopped it before.              *)
OneName ==
    /\ \A k \in Keys : \A t, u : Held(k, t) /\ Held(k, u) => t = u
    /\ arming # Idle /\ arming.kind # "again" =>
           /\ arming.tid \notin DOMAIN para
           /\ tpool[arming.tid].cb = arming.key[1]
           /\ \A t : ~Held(arming.key, t)

(* A refused start leaves an id without its arguments, which may hold the  *)
(* timer of another.                                                       *)
NameInv == failed = {} => OneName

Phase(t) ==
    IF Runs(t) THEN "armed" ELSE IF Occurs(msgs, t) THEN "due" ELSE "run"

Timer == [k \in Keys |-> IF failed = {} THEN State(k) ELSE "off"]

LEMMA NameIsKey ==
    ASSUME IInv, NEW t \in DOMAIN tpool
    PROVE  <<tpool[t].cb, Arg(t)>> \in Keys
BY DEF IInv, TypeOK, Entry, In, Arg, Keys

LEMMA OneKey ==
    ASSUME NEW j \in Keys, NEW k \in Keys, NEW t, Held(j, t), Held(k, t)
    PROVE  j = k
<1>1. j = <<j[1], j[2]>> /\ k = <<k[1], k[2]>>
  BY DEF Keys
<1> QED
  BY <1>1 DEF Held

LEMMA StateOff == \A k \in Keys : (\A t : ~Held(k, t)) => State(k) = "off"
BY DEF State, Matches, Held, In

LEMMA StateHeld ==
    IInv /\ OneName => \A k \in Keys : \A t : Held(k, t) => State(k) = Phase(t)
<1> SUFFICES ASSUME IInv, OneName, NEW k \in Keys, NEW t, Held(k, t)
             PROVE  State(k) = Phase(t)
  OBVIOUS
<1>1. Matches(k) \ Starting = {t}
  BY DEF OneName, Matches, Held, In
<1>2. t \in 1..uniquetid
  BY DEF Held, IInv, TypeOK, In
<1>3. ~(Runs(t) /\ Occurs(msgs, t))
  BY <1>2 DEF IInv, OnePlace
<1>4. Elapsed(t) <=> Occurs(msgs, t)
  BY DEF IInv, TypeOK, Elapsed, Occurs, ToSet
<1> QED
  BY <1>1, <1>3, <1>4 DEF State, Phase

LEMMA StateNext ==
    /\ (\A k \in Keys : (\A t : ~Held(k, t)) => State(k) = "off")'
    /\ (IInv /\ OneName =>
            \A k \in Keys : \A t : Held(k, t) => State(k) = Phase(t))'
BY StateOff, StateHeld, PTL

(* No id changes its phase. *)
LEMMA Unmoved ==
    ASSUME IInv, IInv', OneName, OneName', UNCHANGED failed,
           \A k \in Keys : \A t : Held(k, t)' <=> Held(k, t),
           \A k \in Keys : \A t : Held(k, t) => Phase(t)' = Phase(t)
    PROVE  Timer' = Timer
<1>1. ASSUME NEW k \in Keys PROVE State(k)' = State(k)
  <2>1. CASE \E t : Held(k, t)
    <3>1. PICK t : Held(k, t)
      BY <2>1
    <3>2. State(k) = Phase(t)
      BY <3>1, StateHeld
    <3>3. Held(k, t)'
      BY <3>1
    <3>4. State(k)' = Phase(t)'
      BY <3>3, StateNext
    <3> QED
      BY <3>1, <3>2, <3>4
  <2>2. CASE \A t : ~Held(k, t)
    <3>1. State(k) = "off"
      BY <2>2, StateOff
    <3>2. State(k)' = "off"
      BY <2>2, StateNext
    <3> QED
      BY <3>1, <3>2
  <2> QED
    BY <2>1, <2>2
<1> QED
  BY <1>1 DEF Timer

(* The id of one timer does. *)
LEMMA Moved ==
    ASSUME IInv, IInv', OneName, OneName', failed = {}, failed' = {},
           NEW k \in Keys, NEW t, Held(k, t),
           \A j \in Keys : \A u : Held(j, u)' <=> Held(j, u),
           \A j \in Keys : \A u : u # t /\ Held(j, u) => Phase(u)' = Phase(u)
    PROVE  Timer[k] = Phase(t) /\ Timer' = [Timer EXCEPT ![k] = Phase(t)']
<1>1. State(k) = Phase(t)
  BY StateHeld
<1>2. Held(k, t)'
  OBVIOUS
<1>3. State(k)' = Phase(t)'
  BY <1>2, StateNext
<1>4. ASSUME NEW j \in Keys, j # k PROVE State(j)' = State(j)
  <2>1. CASE \E u : Held(j, u)
    <3>1. PICK u : Held(j, u)
      BY <2>1
    <3>2. State(j) = Phase(u)
      BY <3>1, StateHeld
    <3>3. Held(j, u)'
      BY <3>1
    <3>4. State(j)' = Phase(u)'
      BY <3>3, StateNext
    <3>5. u # t
      BY <3>1, <1>4, OneKey
    <3> QED
      BY <3>1, <3>2, <3>4, <3>5
  <2>2. CASE \A u : ~Held(j, u)
    <3>1. State(j) = "off"
      BY <2>2, StateOff
    <3>2. State(j)' = "off"
      BY <2>2, StateNext
    <3> QED
      BY <3>1, <3>2
  <2> QED
    BY <2>1, <2>2
<1> QED
  BY <1>1, <1>3, <1>4 DEF Timer

Drop(T) ==
    Timer' = [k \in Keys |-> IF k \in T THEN "off" ELSE Timer[k]]

(* Some ids hold their timers no more. *)
LEMMA Dropped ==
    ASSUME IInv, IInv', OneName, OneName', failed = {}, failed' = {}, NEW T,
           \A k \in Keys : \A t : Held(k, t)' <=> Held(k, t) /\ t \notin T,
           \A k \in Keys : \A t : Held(k, t) /\ t \notin T => Phase(t)' = Phase(t)
    PROVE  \E K \in SUBSET Keys : Drop(K)
<1> DEFINE K == {k \in Keys : \E t \in T : Held(k, t)}
<1>1. ASSUME NEW k \in Keys, k \in K PROVE State(k)' = "off"
  <2>1. \A t : ~Held(k, t)'
    BY <1>1 DEF OneName
  <2>2. State(k)' = "off"
    BY <2>1, StateNext
  <2> QED
    BY <2>2
<1>2. ASSUME NEW k \in Keys, k \notin K PROVE State(k)' = State(k)
  <2>1. CASE \E t : Held(k, t)
    <3>1. PICK t : Held(k, t)
      BY <2>1
    <3>2. State(k) = Phase(t)
      BY <3>1, StateHeld
    <3>3. t \notin T
      BY <3>1, <1>2
    <3>4. Held(k, t)'
      BY <3>1, <3>3
    <3>5. State(k)' = Phase(t)'
      BY <3>4, StateNext
    <3> QED
      BY <3>1, <3>2, <3>3, <3>5
  <2>2. CASE \A t : ~Held(k, t)
    <3>1. State(k) = "off"
      BY <2>2, StateOff
    <3>2. State(k)' = "off"
      BY <2>2, StateNext
    <3> QED
      BY <3>1, <3>2
  <2> QED
    BY <2>1, <2>2
<1> HIDE DEF K
<1>3. Drop(K)
  BY <1>1, <1>2 DEF Drop, Timer
<1>4. K \in SUBSET Keys
  BY DEF K
<1> QED
  BY <1>3, <1>4

LEMMA MoveIsStep ==
    ASSUME NEW k \in Keys,
           \/ Timer[k] = "off" /\ Timer' = [Timer EXCEPT ![k] = "armed"]
           \/ Timer[k] = "armed" /\ Timer' = [Timer EXCEPT ![k] = "due"]
           \/ Timer[k] = "due" /\ Timer' = [Timer EXCEPT ![k] = "run"]
           \/ Timer[k] = "run" /\ Timer' = [Timer EXCEPT ![k] = "armed"]
    PROVE  Abstract!Next
BY DEF Timer, Abstract!Next, Abstract!Move, Abstract!Start, Abstract!Elapse,
       Abstract!Run, Abstract!Again

LEMMA DropIsStep == ASSUME NEW K \in SUBSET Keys, Drop(K) PROVE Abstract!Next
BY DEF Drop, Timer, Abstract!Next, Abstract!Stop

Simulated == OneName' /\ (Abstract!Next \/ Timer' = Timer)

LEMMA ExpireStep ==
    ASSUME IInv, IInv', OneName, failed = {}, NEW t \in Tids, Expire(t)
    PROVE  Simulated
<1>1. PICK s \in slots :
          /\ s.id = t /\ s.armed
          /\ slots' = (slots \ {s}) \union {[s EXCEPT !.armed = FALSE]}
          /\ msgs' = Append(msgs, t)
          /\ UNCHANGED <<tpool, para, failed, arming>>
  BY DEF Expire, sysvars
<1> DEFINE r == [s EXCEPT !.armed = FALSE]
<1>2. s \in Slot /\ t \in 1..uniquetid /\ msgs \in Seq(1..uniquetid)
  BY <1>1 DEF IInv, TypeOK, Slot
<1>3. r.id = t /\ r.armed = FALSE
  BY <1>1, <1>2 DEF Slot
<1> HIDE DEF r
<1>4. slots' = (slots \ {s}) \union {r}
  BY <1>1 DEF r
<1>5. \A u : Runs(u)' <=> Runs(u) /\ u # t
  BY <1>1, <1>3, <1>4 DEF IInv, OneSlot, Runs
<1>6. \A u : Occurs(msgs, u)' <=> Occurs(msgs, u) \/ u = t
  <2>1. \A u : Occurs(Append(msgs, t), u) <=> Occurs(msgs, u) \/ u = t
    BY <1>2, OccursAppend
  <2> QED
    BY <2>1, <1>1 DEF Occurs
<1>7. Phase(t) = "armed" /\ Phase(t)' = "due" /\ \A u : u # t => Phase(u)' = Phase(u)
  BY <1>1, <1>5, <1>6 DEF Phase, Runs
<1>8. \A j \in Keys : \A u : Held(j, u)' <=> Held(j, u)
  BY <1>1 DEF Held, Starting, Arg, In
<1>9. OneName'
  BY <1>1, <1>8 DEF OneName, Held, IInv, StartIsNew, Starting, Arg, In
<1>10. CASE \E k \in Keys : Held(k, t)
  <2>1. PICK k \in Keys : Held(k, t)
    BY <1>10
  <2>2. Timer[k] = "armed" /\ Timer' = [Timer EXCEPT ![k] = "due"]
    BY <2>1, <1>1, <1>7, <1>8, <1>9, Moved
  <2> QED
    BY <2>2, <1>9, MoveIsStep DEF Simulated
<1>11. CASE \A k \in Keys : ~Held(k, t)
  <2>1. Timer' = Timer
    BY <1>1, <1>7, <1>8, <1>9, <1>11, Unmoved
  <2> QED
    BY <2>1, <1>9 DEF Simulated
<1> QED
  BY <1>10, <1>11

LEMMA CallbackEndStep ==
    ASSUME IInv, IInv', OneName, failed = {}, NEW e \in expired, CallbackEnd(e)
    PROVE  Simulated
<1>1. /\ slots' = {s \in slots : s.h # e.h}
      /\ UNCHANGED <<tpool, para, failed, arming, msgs>>
  BY DEF CallbackEnd, sysvars
<1>2. \A u : Runs(u)' <=> Runs(u)
  BY <1>1 DEF IInv, HandleIsOwn, Runs
<1>3. \A u : Phase(u)' = Phase(u)
  BY <1>1, <1>2 DEF Phase, Occurs
<1>4. \A j \in Keys : \A u : Held(j, u)' <=> Held(j, u)
  BY <1>1 DEF Held, Starting, Arg, In
<1>5. OneName'
  BY <1>1, <1>4 DEF OneName, Held, IInv, StartIsNew, Starting, Arg, In
<1> QED
  BY <1>1, <1>3, <1>4, <1>5, Unmoved DEF Simulated

LEMMA ArmedStep ==
    ASSUME IInv, IInv', OneName, failed = {}, Armed
    PROVE  Simulated
<1>0. PICK n, a : n = arming.tid /\ a = arming.key
  OBVIOUS
<1>1. PICK r : slots' = slots \union {r} /\ r.id = n /\ r.armed
  <2>1. PICK h : slots' = slots \union {[h |-> h, id |-> n, armed |-> TRUE]}
    BY <1>0 DEF Armed
  <2> DEFINE r == [h |-> h, id |-> n, armed |-> TRUE]
  <2>2. slots' = slots \union {r} /\ r.id = n /\ r.armed = TRUE
    BY <2>1
  <2> HIDE DEF r
  <2> QED
    BY <2>2
<1>2. /\ arming # Idle /\ arming' = Idle
      /\ para' = IF arming.kind = "again" \/ a[2] = NoArg THEN para
                 ELSE With(para, n, a[2])
      /\ UNCHANGED <<tpool, running, failed, msgs>>
  BY <1>0 DEF Armed
<1>3. /\ n \in DOMAIN tpool /\ n \in 1..uniquetid /\ n # running /\ n # 0
      /\ 0 \notin DOMAIN tpool /\ \A s \in slots : s.id # n
  BY <1>0, <1>2 DEF IInv, StartIsNew, RunningLoops, TypeOK, In
<1>4. ~Runs(n) /\ ~Occurs(msgs, n)
  BY <1>0, <1>3 DEF IInv, OnePlace, InHand
<1>5. \A u : Runs(u)' <=> Runs(u) \/ u = n
  BY <1>1 DEF Runs
<1>6. Phase(n) = "run" /\ Phase(n)' = "armed" /\ \A u : u # n => Phase(u)' = Phase(u)
  BY <1>2, <1>4, <1>5 DEF Phase, Occurs
<1>7. arming'.kind = "none" /\ Starting' = {0}
  BY <1>2 DEF Starting, Idle
<1>8. CASE arming.kind = "again"
  <2>1. \A j \in Keys : \A u : Held(j, u)' <=> Held(j, u)
    BY <1>2, <1>3, <1>7, <1>8 DEF Held, Starting, Arg, In
  <2>2. OneName'
    BY <1>2, <2>1 DEF OneName
  <2>3. PICK k \in Keys : k = <<tpool[n].cb, Arg(n)>>
    BY <1>3, NameIsKey
  <2>4. Held(k, n)
    BY <1>3, <1>8, <2>3 DEF Held, Starting
  <2>5. Timer[k] = "run" /\ Timer' = [Timer EXCEPT ![k] = "armed"]
    BY <1>2, <1>6, <2>1, <2>2, <2>3, <2>4, Moved
  <2> QED
    BY <2>2, <2>3, <2>5, MoveIsStep DEF Simulated
<1>9. CASE arming.kind # "again"
  <2>1. /\ n \notin DOMAIN para /\ tpool[n].cb = a[1]
        /\ \A t : ~Held(a, t)
        /\ a \in Keys /\ Starting = {n}
    BY <1>0, <1>2, <1>9 DEF OneName, Starting, IInv, StartIsNew
  <2>2. a[2] \in Args \union {NoArg} /\ a = <<a[1], a[2]>>
    BY <2>1 DEF Keys
  <2>3. Arg(n)' = a[2] /\ \A u : u # n => Arg(u)' = Arg(u)
    <3>1. CASE a[2] = NoArg
      BY <3>1, <2>1, <1>2 DEF Arg, In
    <3>2. CASE a[2] # NoArg
      <4>1. para' = With(para, n, a[2])
        BY <3>2, <1>2, <1>9
      <4> QED
        BY <4>1 DEF With, Arg, In
    <3> QED
      BY <3>1, <3>2
  <2>4. \A j \in Keys : \A u : Held(j, u)' <=> Held(j, u) \/ (u = n /\ j = a)
    <3> SUFFICES ASSUME NEW j \in Keys, NEW u
                 PROVE  Held(j, u)' <=> Held(j, u) \/ (u = n /\ j = a)
      OBVIOUS
    <3>1. j = <<j[1], j[2]>>
      BY DEF Keys
    <3>2. CASE u = n
      BY <3>1, <3>2, <1>2, <1>3, <1>7, <2>1, <2>2, <2>3 DEF Held
    <3>3. CASE u # n
      BY <3>3, <1>2, <1>3, <1>7, <2>1, <2>3 DEF Held
    <3> QED
      BY <3>2, <3>3
  <2>5. OneName'
    BY <1>2, <2>1, <2>4 DEF OneName
  <2>6. Timer[a] = "off"
    BY <2>1, StateOff DEF Timer
  <2>7. State(a)' = "armed"
    BY <2>1, <2>4, <2>5, <1>6, StateNext
  <2>8. ASSUME NEW j \in Keys, j # a PROVE State(j)' = State(j)
    <3>1. CASE \E u : Held(j, u)
      <4>1. PICK u : Held(j, u)
        BY <3>1
      <4>2. u # n /\ Held(j, u)'
        BY <4>1, <2>1, <2>4 DEF Held
      <4>3. State(j) = Phase(u)
        BY <4>1, StateHeld
      <4>4. State(j)' = Phase(u)'
        BY <4>2, <2>5, StateNext
      <4> QED
        BY <4>2, <4>3, <4>4, <1>6
    <3>2. CASE \A u : ~Held(j, u)
      <4>1. State(j) = "off"
        BY <3>2, StateOff
      <4>2. State(j)' = "off"
        BY <3>2, <2>4, <2>8, StateNext
      <4> QED
        BY <4>1, <4>2
    <3> QED
      BY <3>1, <3>2
  <2>9. Timer' = [Timer EXCEPT ![a] = "armed"]
    BY <2>7, <2>8, <1>2 DEF Timer
  <2>10. Abstract!Next
    <3>1. a \in Keys
      BY <2>1
    <3> QED
      BY <3>1, <2>6, <2>9, MoveIsStep
  <2> QED
    BY <2>5, <2>10 DEF Simulated
<1> QED
  BY <1>8, <1>9

(* Timers T are forgotten. *)
LEMMA ForgetStep ==
    ASSUME IInv, IInv', OneName, failed = {}, arming = Idle, NEW T, Forget(T),
           slots' \subseteq slots, \A s \in slots \ slots' : s.id \in T,
           \A u : u \notin T => (Occurs(msgs, u)' <=> Occurs(msgs, u)),
           UNCHANGED <<failed, arming>>
    PROVE  Simulated
<1>1. /\ DOMAIN tpool' = DOMAIN tpool \ T /\ DOMAIN para' = DOMAIN para \ T
      /\ \A u \in DOMAIN tpool' : tpool'[u] = tpool[u]
      /\ \A u \in DOMAIN para' : para'[u] = para[u]
  BY DEF Forget, Without
<1>2. \A j \in Keys : \A u : Held(j, u)' <=> Held(j, u) /\ u \notin T
  BY <1>1 DEF Held, Starting, Arg, In
<1>3. \A u : u \notin T => Phase(u)' = Phase(u)
  BY DEF Phase, Runs
<1>4. OneName'
  BY <1>2 DEF OneName
<1>5. \E K \in SUBSET Keys : Drop(K)
  BY <1>2, <1>3, <1>4, Dropped
<1> QED
  BY <1>4, <1>5, DropIsStep DEF Simulated

LEMMA StopStep ==
    ASSUME IInv, IInv', OneName, failed = {},
           \/ \E k \in Keys : TimerStop(k)
           \/ \E t \in 1..uniquetid : TimerStopId(t)
           \/ \E f \in Fncs : TimerStopAll(f)
    PROVE  Simulated
<1>1. PICK T :
        /\ arming = Idle /\ Forget(T)
        /\ StopSlots(T) \/ slots' = slots
        /\ UNCHANGED <<failed, arming, msgs>>
  BY DEF TimerStop, TimerStopId, TimerStopAll, CanCall
<1>2. slots' \subseteq slots /\ \A s \in slots \ slots' : s.id \in T
  BY <1>1 DEF StopSlots
<1>3. \A u : Occurs(msgs, u)' <=> Occurs(msgs, u)
  BY <1>1 DEF Occurs
<1> QED
  BY <1>1, <1>2, <1>3, ForgetStep

LEMMA TimerStartStep ==
    ASSUME IInv, IInv', OneName, failed = {}, NEW k \in Keys,
           NEW kind \in {"once", "loop", "long"}, TimerStart(k, kind)
    PROVE  Simulated
<1> DEFINE v == [cb |-> k[1], times |-> 0,
                 total |-> IF kind = "long" THEN 2 ELSE 1]
<1>1. PICK n : n = uniquetid + 1
  OBVIOUS
<1>2. PICK T \in OneOf(Matches(k)) :
        /\ tpool' = With(Without(tpool, T), n, v)
        /\ para' = Without(para, T) /\ StopSlots(T)
  BY <1>1 DEF TimerStart, NextTid
<1>3. /\ arming = Idle /\ arming' = [tid |-> n, key |-> k, kind |-> kind]
      /\ UNCHANGED <<failed, msgs>>
  BY <1>1 DEF TimerStart, NextTid, CanCall
<1>4. v.cb = k[1]
  OBVIOUS
<1> HIDE DEF v
<1>5. /\ n \notin DOMAIN tpool /\ n \notin DOMAIN para
      /\ 0 \notin DOMAIN tpool
  BY <1>1 DEF IInv, TypeOK, In
<1>6. arming'.tid = n /\ arming'.key = k /\ arming'.kind = kind /\ arming' # Idle
  BY <1>3 DEF Idle
<1>7. Starting = {0} /\ Starting' = {n}
  BY <1>3, <1>6 DEF Starting, Idle
<1>8. /\ DOMAIN tpool' = (DOMAIN tpool \ T) \union {n} /\ tpool'[n] = v
      /\ \A u \in DOMAIN tpool \ T : u # n => tpool'[u] = tpool[u]
  BY <1>2 DEF With, Without
<1>9. DOMAIN para' = DOMAIN para \ T /\ \A u \in DOMAIN para' : para'[u] = para[u]
  BY <1>2 DEF Without
<1>10. \A j \in Keys : \A u : Held(j, u)' <=> Held(j, u) /\ u \notin T
  BY <1>5, <1>7, <1>8, <1>9 DEF Held, Arg, In
<1>11. \A u : u \notin T => Phase(u)' = Phase(u)
  BY <1>2, <1>3 DEF Phase, Runs, StopSlots, Occurs
<1>12. \A u : Held(k, u) => u \in T
  <2>1. \A u : Held(k, u) <=> u \in Matches(k)
    BY <1>5, <1>7 DEF Held, Matches, In
  <2>2. CASE Matches(k) = {}
    BY <2>1, <2>2
  <2>3. CASE Matches(k) # {}
    <3>1. PICK t \in Matches(k) : T = {t}
      BY <2>3 DEF OneOf
    <3> QED
      BY <2>1, <3>1 DEF OneName
  <2> QED
    BY <2>2, <2>3
<1>13. OneName'
  <2>1. \A t : ~Held(k, t)'
    BY <1>10, <1>12
  <2>2. (\A t : ~Held(arming.key, t))'
    BY <2>1, <1>6 DEF Held
  <2>3. (\A j \in Keys : \A t, u : Held(j, t) /\ Held(j, u) => t = u)'
    BY <1>10 DEF OneName
  <2>4. (arming.tid \notin DOMAIN para /\ tpool[arming.tid].cb = arming.key[1])'
    BY <1>4, <1>5, <1>6, <1>8, <1>9
  <2> QED
    BY <2>2, <2>3, <2>4 DEF OneName, Held
<1>14. \E K \in SUBSET Keys : Drop(K)
  <2>1. failed' = {}
    BY <1>3
  <2>2. \A j \in Keys : \A u : Held(j, u) /\ u \notin T => Phase(u)' = Phase(u)
    BY <1>11
  <2> QED
    BY <1>10, <1>13, <2>1, <2>2, Dropped
<1> QED
  BY <1>13, <1>14, DropIsStep DEF Simulated

LEMMA IgnoreStep ==
    ASSUME IInv, IInv', OneName, failed = {}, NEW t \in Tids, Ignore(t)
    PROVE  Simulated
<1>1. /\ Take(t) /\ t \notin DOMAIN tpool
      /\ UNCHANGED <<tpool, para, failed, arming, slots>>
  BY DEF Ignore, In, sysvars
<1>2. \A u : Occurs(msgs, u)' <=> Occurs(msgs, u) /\ u # t
  BY <1>1, TakeFacts
<1>3. \A j \in Keys : \A u : Held(j, u)' <=> Held(j, u)
  BY <1>1 DEF Held, Starting, Arg, In
<1>4. \A j \in Keys : \A u : Held(j, u) => Phase(u)' = Phase(u)
  BY <1>1, <1>2 DEF Held, Phase, Runs
<1>5. OneName'
  BY <1>1, <1>3 DEF OneName, IInv, StartIsNew
<1> QED
  BY <1>1, <1>3, <1>4, <1>5, Unmoved DEF Simulated

(* A message is handled, and its timer goes on. *)
LEMMA HandledStep ==
    ASSUME IInv, IInv', OneName, failed = {}, NEW t \in DOMAIN tpool, Take(t),
           DOMAIN tpool' = DOMAIN tpool,
           \A u \in DOMAIN tpool : tpool'[u].cb = tpool[u].cb,
           slots' \subseteq slots, \A s \in slots \ slots' : s.id = t,
           arming' = arming \/ arming'.kind = "again",
           UNCHANGED <<para, failed>>
    PROVE  Simulated
<1>1. /\ arming = Idle /\ ~Runs(t) /\ Occurs(msgs, t) /\ 0 \notin DOMAIN tpool
      /\ \A u : Occurs(msgs, u)' <=> Occurs(msgs, u) /\ u # t
  <2>1. Occurs(msgs, t)
    BY DEF Take, Occurs, IInv, TypeOK
  <2> QED
    BY <2>1, TakeFacts DEF IInv, TypeOK, In
<1>2. \A j \in Keys : \A u : Held(j, u)' <=> Held(j, u)
  BY <1>1 DEF Held, Starting, Arg, In, Idle
<1>3. \A u : u # t => Phase(u)' = Phase(u)
  BY <1>1 DEF Phase, Runs
<1>4. Phase(t) = "due" /\ Phase(t)' = "run"
  BY <1>1 DEF Phase, Runs
<1>5. OneName'
  BY <1>1, <1>2 DEF OneName
<1>6. PICK k \in Keys : k = <<tpool[t].cb, Arg(t)>>
  BY NameIsKey
<1>7. Held(k, t)
  BY <1>1, <1>6 DEF Held, Starting, Idle
<1>8. Timer[k] = "due" /\ Timer' = [Timer EXCEPT ![k] = "run"]
  BY <1>2, <1>3, <1>4, <1>5, <1>7, Moved
<1> QED
  BY <1>5, <1>8, MoveIsStep DEF Simulated

LEMMA NextStepStep ==
    ASSUME IInv, IInv', OneName, failed = {}, NEW t \in Tids, NextStep(t)
    PROVE  Simulated
<1>1. /\ Take(t) /\ t \in DOMAIN tpool /\ StartAgain(t)
      /\ tpool' = [tpool EXCEPT ![t].times = @ + 1]
      /\ UNCHANGED <<para, failed>>
  BY DEF NextStep, In
<1>2. arming'.kind = "again"
  BY <1>1 DEF StartAgain
<1>3. slots' \subseteq slots /\ \A s \in slots \ slots' : s.id = t
  BY <1>1 DEF StartAgain, StopSlots
<1>4. /\ DOMAIN tpool' = DOMAIN tpool
      /\ \A u \in DOMAIN tpool : tpool'[u].cb = tpool[u].cb
  <2>1. tpool[t] \in Entry
    BY <1>1 DEF IInv, TypeOK, In
  <2>2. tpool'[t] = [tpool[t] EXCEPT !.times = @ + 1]
    BY <1>1
  <2>3. tpool'[t].cb = tpool[t].cb
    BY <2>1, <2>2 DEF Entry
  <2> QED
    BY <1>1, <2>3
<1> QED
  BY <1>1, <1>2, <1>3, <1>4, HandledStep

LEMMA CallStep ==
    ASSUME IInv, IInv', OneName, failed = {}, NEW t \in Tids, Call(t)
    PROVE  Simulated
<1>1. /\ Take(t) /\ t \in DOMAIN tpool
      /\ UNCHANGED <<failed, arming, slots>>
  BY DEF Call, In
<1>2. arming = Idle /\ \A u : u # t => (Occurs(msgs, u)' <=> Occurs(msgs, u))
  BY <1>1, TakeFacts
<1>3. CASE t \in loop
  <2>1. UNCHANGED <<tpool, para>>
    BY <1>3 DEF Call
  <2> QED
    BY <1>1, <2>1, HandledStep
<1>4. CASE t \notin loop
  <2>1. Forget({t})
    BY <1>4 DEF Call
  <2> QED
    BY <1>1, <1>2, <2>1, ForgetStep
<1> QED
  BY <1>3, <1>4

LEMMA ReturnStep ==
    ASSUME IInv, IInv', OneName, failed = {}, Return
    PROVE  Simulated
<1>1. /\ running # 0 /\ arming = Idle
      /\ UNCHANGED <<tpool, para, failed, msgs>>
      /\ arming' = Idle \/ arming'.kind = "again"
      /\ slots' \subseteq slots /\ \A s \in slots \ slots' : s.id = running
  BY DEF Return, StartAgain, StopSlots
<1>2. running \in 1..uniquetid /\ 0 \notin DOMAIN tpool
  BY <1>1 DEF IInv, TypeOK, In
<1>3. ~Runs(running)
  BY <1>2 DEF IInv, OnePlace, InHand
<1>4. \A u : Runs(u)' <=> Runs(u)
  BY <1>1, <1>3 DEF Runs
<1>5. \A u : Phase(u)' = Phase(u)
  BY <1>1, <1>4 DEF Phase, Occurs
<1>6. \A j \in Keys : \A u : Held(j, u)' <=> Held(j, u)
  BY <1>1, <1>2 DEF Held, Starting, Arg, In, Idle
<1>7. OneName'
  BY <1>1, <1>6 DEF OneName
<1> QED
  BY <1>1, <1>5, <1>6, <1>7, Unmoved DEF Simulated

LEMMA NoneStep ==
    ASSUME IInv, IInv', OneName, failed = {}, UNCHANGED vars
    PROVE  Simulated
<1>1. UNCHANGED <<tpool, para, failed, arming, slots, msgs>>
  BY DEF vars, sysvars
<1>2. \A u : Phase(u)' = Phase(u)
  BY <1>1 DEF Phase, Runs, Occurs
<1>3. \A j \in Keys : \A u : Held(j, u)' <=> Held(j, u)
  BY <1>1 DEF Held, Starting, Arg, In
<1>4. OneName'
  BY <1>1, <1>3 DEF OneName, IInv, StartIsNew
<1> QED
  BY <1>1, <1>2, <1>3, <1>4, Unmoved DEF Simulated

(* Refusals are not forgotten, and the timers stop with the first. *)
LEMMA RefusedStep ==
    ASSUME [Next]_vars
    PROVE  /\ failed \subseteq failed'
           /\ failed # {} => Timer' = Timer
           /\ failed' # {} => Timer' = Timer \/ Abstract!Next
<1>1. failed \subseteq failed'
  BY DEF Next, Handler, TimerStart, TimerStop, TimerStopId, TimerStopAll,
         TimerFnc, Return, Ignore, NextStep, Call, Armed, Refused, Expire,
         CallbackEnd, sysvars, vars
<1>2. failed # {} => Timer' = Timer
  BY <1>1 DEF Timer
<1>3. failed' # {} => Drop(Keys)
  BY DEF Drop, Timer
<1> QED
  BY <1>1, <1>2, <1>3, DropIsStep

LEMMA NextStutters ==
    ASSUME ~HandlesReused, IInv, IInv', NameInv, [Next]_vars
    PROVE  NameInv' /\ (Abstract!Next \/ Timer' = Timer)
<1>1. CASE failed' = {}
  <2>1. failed = {} /\ OneName
    BY <1>1, RefusedStep DEF NameInv
  <2>2. ~Refused
    BY <1>1 DEF Refused
  <2>3. Simulated
    BY <2>1, <2>2, ExpireStep, CallbackEndStep, ArmedStep, TimerStartStep, StopStep,
       IgnoreStep, NextStepStep, CallStep, ReturnStep, NoneStep
       DEF Next, Handler, TimerFnc
  <2> QED
    BY <2>3 DEF Simulated, NameInv
<1>2. CASE failed' # {}
  BY <1>2, RefusedStep DEF NameInv
<1> QED
  BY <1>1, <1>2

(* sys.lua: until a start is refused, there is one timer for a callback    *)
(* and its arguments, and its callback runs when it has elapsed, once per  *)
(* time-out and never after it was stopped, for any callbacks, arguments   *)
(* and numbers of timers, slots and handles.                               *)
THEOREM TimersImplementKeyTimer == ~HandlesReused => (Spec => ImplementsTimers)
<1> SUFFICES ASSUME ~HandlesReused PROVE Spec => ImplementsTimers
  OBVIOUS
<1>1. IInv /\ [Next]_vars => IInv'
  BY ExpireInv, CallbackEndInv, ArmedInv, RefusedInv, TimerStartInv, StopInv,
     IgnoreInv, NextStepInv, CallInv, ReturnInv, Stutter
     DEF Next, Handler, TimerFnc
<1>2. Init => NameInv /\ Abstract!Init
  <2> SUFFICES ASSUME Init PROVE NameInv /\ Abstract!Init
    OBVIOUS
  <2>1. DOMAIN tpool = {} /\ arming = Idle
    BY DEF Init
  <2>2. \A k \in Keys : \A t : ~Held(k, t)
    BY <2>1 DEF Held
  <2>3. NameInv
    BY <2>1, <2>2 DEF NameInv, OneName
  <2>4. \A k \in Keys : State(k) = "off"
    BY <2>2, StateOff
  <2> QED
    BY <2>3, <2>4 DEF Abstract!Init
<1>3. IInv /\ IInv' /\ NameInv /\ [Next]_vars => NameInv' /\ [Abstract!Next]_Timer
  BY NextStutters
<1>4. (Abstract!Init /\ [][Abstract!Next]_Timer) => ImplementsTimers
  BY DEF ImplementsTimers, Abstract!Spec, Timer
<1> QED
  BY <1>1, <1>2, <1>3, <1>4, InitInv, PTL DEF Spec
=============================================================================
