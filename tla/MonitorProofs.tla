--------------------------- MODULE MonitorProofs ---------------------------
(***************************************************************************)
(* First the scheduler on its own: safety of SlotScheduler for every       *)
(* interval, every clock and every number of starts, stops and clock       *)
(* settings.  Then Monitor implements Schedule, for every interval, every  *)
(* number of runs, crashes and restarts: whoever asks for a slot, it is    *)
(* recorded once and not before it begins.                                 *)
(***************************************************************************)
EXTENDS Monitor, FiniteSetTheorems, TLAPS

(* The slot of a time is the last boundary not after it; the next boundary *)
(* is one interval on and lies in the future.                              *)
LEMMA SlotArithmetic ==
    ASSUME NEW at \in Nat
    PROVE  /\ SlotStartFor(at) \in Nat /\ NextSlotAfter(at) \in Nat
           /\ SlotStartFor(at) <= at /\ at < NextSlotAfter(at)
           /\ NextSlotAfter(at) = SlotStartFor(at) + Interval
<1> DEFINE q == at \div Interval
<1>1. q \in Nat
  BY IntervalAssumption
<1>2. q * Interval <= at /\ at < (q + 1) * Interval
  BY IntervalAssumption
<1>3. (q + 1) * Interval = q * Interval + Interval /\ q * Interval \in Nat
  BY <1>1, IntervalAssumption
<1>4. QED
  BY <1>2, <1>3, IntervalAssumption DEF SlotStartFor, NextSlotAfter

Boundary(at) == at % Interval = 0

(* Boundaries lie an interval apart, and are what the slot functions give. *)
LEMMA BoundariesApart ==
    ASSUME NEW x \in Nat, NEW y \in Nat, Boundary(x), Boundary(y), x < y
    PROVE  x + Interval <= y
<1> DEFINE p == x \div Interval
           q == y \div Interval
<1>1. p \in Nat /\ q \in Nat /\ x = p * Interval /\ y = q * Interval
  BY IntervalAssumption DEF Boundary
<1>2. p < q
  BY <1>1, IntervalAssumption
<1>3. p + 1 <= q
  BY <1>1, <1>2
<1>4. QED
  BY <1>1, <1>3, IntervalAssumption

LEMMA MultipleIsBoundary ==
    ASSUME NEW q \in Nat
    PROVE  Boundary(q * Interval)
  BY IntervalAssumption DEF Boundary

LEMMA BoundariesOfSlots ==
    ASSUME NEW x \in Nat
    PROVE  /\ Boundary(SlotStartFor(x)) /\ Boundary(NextSlotAfter(x))
           /\ Boundary(x) => Boundary(x + Interval)
<1> DEFINE q == x \div Interval
<1>1. q \in Nat
  BY IntervalAssumption
<1>2. Boundary(SlotStartFor(x)) /\ Boundary(NextSlotAfter(x))
  BY <1>1, MultipleIsBoundary DEF SlotStartFor, NextSlotAfter
<1>3. ASSUME Boundary(x) PROVE Boundary(x + Interval)
  <2>1. x = q * Interval
    BY <1>3, IntervalAssumption DEF Boundary
  <2>2. (q + 1) * Interval = x + Interval
    BY <1>1, <2>1, IntervalAssumption
  <2>3. Boundary((q + 1) * Interval)
    BY <1>1, MultipleIsBoundary
  <2>4. QED
    BY <2>2, <2>3
<1>4. QED
  BY <1>2, <1>3

(* The slot that is armed lies in the future, one interval or more after   *)
(* the last one, and setTimeout is given a delay.                          *)
LEMMA NextMsType ==
    ASSUME now \in Nat, lastScheduledSlot \in Nat
    PROVE  /\ NextMs \in Nat /\ now < NextMs /\ lastScheduledSlot + Interval <= NextMs
           /\ Delay(NextMs) \in Nat
  BY IntervalAssumption, BoundsAssumption, SlotArithmetic DEF NextMs, Later, Delay
-----------------------------------------------------------------------------
(* The Boolean variables and the rest of TypeOK, which take different      *)
(* provers.                                                                *)
Flags ==
    /\ running \in BOOLEAN /\ stopped \in BOOLEAN
    /\ crossed \in BOOLEAN /\ premature \in BOOLEAN

Data ==
    /\ now \in Nat /\ steps \in 0..MaxSteps
    /\ timer \in Nat /\ armed \in Nat /\ starts \in Nat
    /\ timeouts \in SUBSET Timeout
    /\ lastScheduledSlot \in Nat /\ nextRunAt \in Nat
    /\ fired \in Seq(Firing)
    /\ active \in SUBSET Calls /\ inFlight \in SUBSET Calls /\ awaiting \in SUBSET Calls

LEMMA FlagsPreserved == Flags /\ [Next]_vars => Flags'
<1> SUFFICES ASSUME Flags, [Next]_vars PROVE Flags'
  OBVIOUS
<1> USE DEF Flags, Fire, callVars, lifeVars
<1>1. CASE Start
  BY <1>1, Zenon DEF Start
<1>2. CASE StopCall
  BY <1>2, Zenon DEF StopCall
<1>3. CASE StopReturns
  BY <1>3, Zenon DEF StopReturns
<1>4. ASSUME NEW t \in timeouts, TimeoutFires(t)
      PROVE  Flags'
  BY <1>4, Zenon DEF TimeoutFires
<1>5. ASSUME NEW i \in active, JobSettles(i)
      PROVE  Flags'
  BY <1>5, Zenon DEF JobSettles
<1>6. CASE Tick
  BY <1>6, Zenon DEF Tick
<1>7. ASSUME NEW to \in 1..MaxNow, ClockIsSet(to)
      PROVE  Flags'
  BY <1>7, Zenon DEF ClockIsSet
<1>8. CASE UNCHANGED vars
  BY <1>8, Zenon DEF vars
<1>9. QED
  BY <1>1, <1>2, <1>3, <1>4, <1>5, <1>6, <1>7, <1>8
  DEF Next, SomeTimeoutFires, SomeJobSettles

(* What arming a timeout and calling the job leave behind.                 *)
LEMMA ScheduleNextType ==
    ASSUME Data, ScheduleNext
    PROVE  /\ timeouts' \in SUBSET Timeout /\ armed' \in Nat /\ timer' \in Nat
           /\ lastScheduledSlot' \in Nat /\ nextRunAt' \in Nat
  BY NextMsType DEF ScheduleNext, Cleared, Timeout, Data

LEMMA FireType ==
    ASSUME Data, NEW due \in Nat, NEW chain \in BOOLEAN, NEW life \in Nat,
           Fire(due, chain, life)
    PROVE  /\ fired' \in Seq(Firing) /\ Len(fired') = Len(fired) + 1
           /\ \A i \in Calls : fired'[i] = fired[i]
           /\ fired'[Len(fired) + 1] = [slot |-> due, chain |-> chain, life |-> life]
           /\ active' \in SUBSET Calls' /\ inFlight' \in SUBSET Calls'
           /\ Calls' = Calls \cup {Len(fired) + 1}
           /\ Len(fired) \in Nat
<1>1. [slot |-> due, chain |-> chain, life |-> life] \in Firing
  BY DEF Firing
<1>2. /\ fired' \in Seq(Firing) /\ Len(fired') = Len(fired) + 1
      /\ \A i \in Calls : fired'[i] = fired[i]
      /\ fired'[Len(fired) + 1] = [slot |-> due, chain |-> chain, life |-> life]
      /\ Len(fired) \in Nat
  BY <1>1 DEF Fire, Data, Calls
<1>3. Calls' = Calls \cup {Len(fired) + 1}
  BY <1>2 DEF Calls
<1>4. QED
  BY <1>2, <1>3 DEF Fire, Tracked, Data

LEMMA DataPreserved == Data /\ [Next]_vars => Data'
<1> SUFFICES ASSUME Data, [Next]_vars PROVE Data'
  OBVIOUS
<1> USE IntervalAssumption, BoundsAssumption DEF Data
<1>1. CASE Start
  <2>1. starts' = starts + 1 /\ ScheduleNext /\ UNCHANGED <<now, steps, awaiting>>
    BY <1>1, Zenon DEF Start, clockVars
  <2>2. CASE RunOnStart
    <3>1. SlotStartFor(now) \in Nat /\ starts' \in Nat
      <4>1. now \in Nat /\ starts \in Nat
        OBVIOUS
      <4> HIDE DEF Data
      <4>2. SlotStartFor(now) \in Nat
        BY <4>1, SlotArithmetic
      <4>3. QED
        BY <2>1, <4>1, <4>2
    <3>2. Fire(SlotStartFor(now), FALSE, starts')
      BY <1>1, <2>2 DEF Start
    <3>3. /\ fired' \in Seq(Firing)
          /\ active' \in SUBSET Calls' /\ inFlight' \in SUBSET Calls'
          /\ Calls \subseteq Calls'
      <4> HIDE DEF Data
      <4>1. QED
        BY <3>1, <3>2, FireType
    <3>4. QED
      BY <2>1, <3>1, <3>3, ScheduleNextType
  <2>3. CASE ~RunOnStart
    <3>1. UNCHANGED callVars
      BY <1>1, <2>3, Zenon DEF Start
    <3>2. QED
      BY <2>1, <3>1, ScheduleNextType DEF callVars, Calls
  <2>4. QED
    BY <2>2, <2>3
<1>2. CASE StopCall
  <2>1. /\ UNCHANGED <<armed, starts, now, steps, fired, active, inFlight>>
        /\ timeouts' = Cleared /\ awaiting' = inFlight
        /\ timer' = 0 /\ nextRunAt' = 0 /\ lastScheduledSlot' = 0
    BY <1>2 DEF StopCall, NoSlotYet, clockVars, callVars
  <2>2. QED
    BY <2>1 DEF Cleared, Calls
<1>3. CASE StopReturns
  BY <1>3 DEF StopReturns, clockVars, chainVars, callVars, Calls
<1>4. ASSUME NEW t \in timeouts, TimeoutFires(t)
      PROVE  Data'
  <2>1. t.slot \in Nat
    BY DEF Timeout
  <2>2. CASE running
    <3>1. Fire(t.slot, TRUE, starts)
      BY <1>4, <2>2 DEF TimeoutFires
    <3>2. timeouts' \subseteq timeouts
      BY <1>4 DEF TimeoutFires
    <3>3. UNCHANGED <<now, steps, timer, armed, lastScheduledSlot, nextRunAt,
                      starts, awaiting>>
      BY <1>4 DEF TimeoutFires, clockVars, lifeVars
    <3>4. QED
      BY <2>1, <3>1, <3>2, <3>3, FireType
  <2>3. CASE ~running
    BY <1>4, <2>3 DEF TimeoutFires, clockVars, callVars, lifeVars, Calls
  <2>4. QED
    BY <2>2, <2>3
<1>5. ASSUME NEW i \in active, JobSettles(i)
      PROVE  Data'
  BY <1>5, ScheduleNextType DEF JobSettles, clockVars, chainVars, Calls
<1>6. CASE Tick
  <2>1. ASSUME NEW t \in timeouts
        PROVE  [t EXCEPT !.left = Later(@ - 1, 0)] \in Timeout
    <3>1. t.left \in Nat /\ Later(t.left - 1, 0) \in Nat /\ t \in Timeout
      BY DEF Timeout, Later
    <3> HIDE DEF Data
    <3>2. QED
      BY <3>1 DEF Timeout
  <2>2. /\ now' = now + 1
        /\ timeouts' = {[t EXCEPT !.left = Later(@ - 1, 0)] : t \in timeouts}
        /\ UNCHANGED <<steps, timer, armed, lastScheduledSlot, nextRunAt, starts, fired,
                      active, inFlight, awaiting>>
    BY <1>6, Zenon DEF Tick, callVars, lifeVars
  <2>3. timeouts' \in SUBSET Timeout
    <3> HIDE DEF Data
    <3>1. QED
      BY <2>1, <2>2, Zenon
  <2>4. Calls' = Calls
    BY <2>2, Zenon DEF Calls
  <2>5. QED
    BY <2>2, <2>3, <2>4
<1>7. ASSUME NEW to \in 1..MaxNow, ClockIsSet(to)
      PROVE  Data'
  BY <1>7 DEF ClockIsSet, chainVars, callVars, lifeVars, Calls
<1>8. CASE UNCHANGED vars
  BY <1>8 DEF vars, Calls
<1>9. QED
  BY <1>1, <1>2, <1>3, <1>4, <1>5, <1>6, <1>7, <1>8
  DEF Next, SomeTimeoutFires, SomeJobSettles

(* Type correctness of the scheduler: no slot and no delay is negative.    *)
THEOREM TypeCorrect == Spec => []TypeOK
<1>1. Init => Flags
  BY Zenon DEF Init, Flags
<1>2. Init => Data
  BY IntervalAssumption, BoundsAssumption DEF Init, Data, Calls
<1>3. Flags /\ Data <=> TypeOK
  BY DEF Flags, Data, TypeOK
<1>4. QED
  BY <1>1, <1>2, <1>3, FlagsPreserved, DataPreserved, PTL DEF Spec
-----------------------------------------------------------------------------
(* At most one timeout, the one this.timer, nextRunAt and lastScheduledSlot*)
(* tell of; none, and all three reset, when the scheduler does not run.    *)
OneTimer ==
    /\ \A t \in timeouts : /\ t.handle = timer
                           /\ nextRunAt = t.slot /\ lastScheduledSlot = t.slot
    /\ \A t, u \in timeouts : t = u
    /\ ~running => timeouts = {} /\ nextRunAt = 0 /\ lastScheduledSlot = 0

(* Arming leaves the one new timeout: clearTimeout takes the old one away. *)
LEMMA Armed ==
    ASSUME OneTimer, ScheduleNext
    PROVE  /\ timeouts' = {[handle |-> armed + 1, slot |-> NextMs, left |-> Delay(NextMs)]}
           /\ timer' = armed + 1 /\ lastScheduledSlot' = NextMs /\ nextRunAt' = NextMs
<1>1. Cleared = {}
  BY DEF OneTimer, Cleared
<1>2. QED
  BY <1>1 DEF ScheduleNext

(* Time takes from what a timeout has left and from nothing else.          *)
LEMMA TickTimeouts ==
    ASSUME Data, Tick
    PROVE  /\ timeouts' = {} <=> timeouts = {}
           /\ \A u \in timeouts' : \E t \in timeouts :
                /\ u.handle = t.handle /\ u.slot = t.slot
                /\ u.left = Later(t.left - 1, 0)
                /\ u = [t EXCEPT !.left = Later(@ - 1, 0)]
<1>1. timeouts' = {[t EXCEPT !.left = Later(@ - 1, 0)] : t \in timeouts}
  BY Zenon DEF Tick
<1>2. ASSUME NEW t \in Timeout
      PROVE  LET u == [t EXCEPT !.left = Later(@ - 1, 0)]
             IN  /\ u.handle = t.handle /\ u.slot = t.slot
                 /\ u.left = Later(t.left - 1, 0)
  BY DEF Timeout
<1>3. QED
  BY <1>1, <1>2 DEF Data

LEMMA OneTimerPreserved == Data /\ OneTimer /\ [Next]_vars => OneTimer'
<1> SUFFICES ASSUME Data, OneTimer, [Next]_vars PROVE OneTimer'
  OBVIOUS
<1>1. ASSUME ScheduleNext, running'
      PROVE  OneTimer'
  BY <1>1, Armed DEF OneTimer
<1>2. CASE Start
  <2>1. ScheduleNext /\ running'
    BY <1>2, Zenon DEF Start
  <2>2. QED
    BY <1>1, <2>1
<1>3. CASE StopCall
  BY <1>3 DEF StopCall, OneTimer, Cleared, NoSlotYet
<1>4. CASE StopReturns
  BY <1>4 DEF StopReturns, OneTimer, chainVars
<1>5. ASSUME NEW t \in timeouts, TimeoutFires(t)
      PROVE  OneTimer'
  BY <1>5 DEF TimeoutFires, OneTimer, lifeVars
<1>6. ASSUME NEW i \in active, JobSettles(i)
      PROVE  OneTimer'
  <2>1. CASE Rearms(i)
    BY <1>1, <1>6, <2>1 DEF JobSettles, Rearms
  <2>2. CASE ~Rearms(i)
    BY <1>6, <2>2 DEF JobSettles, OneTimer, chainVars
  <2>3. QED
    BY <2>1, <2>2
<1>7. CASE Tick
  <2>1. UNCHANGED <<timer, nextRunAt, lastScheduledSlot, running>>
    BY <1>7, Zenon DEF Tick, lifeVars
  <2>2. QED
    BY <1>7, <2>1, TickTimeouts DEF OneTimer
<1>8. ASSUME NEW to \in 1..MaxNow, ClockIsSet(to)
      PROVE  OneTimer'
  BY <1>8 DEF ClockIsSet, OneTimer, chainVars, lifeVars
<1>9. CASE UNCHANGED vars
  BY <1>9 DEF vars, OneTimer
<1>10. QED
  BY <1>2, <1>3, <1>4, <1>5, <1>6, <1>7, <1>8, <1>9
  DEF Next, SomeTimeoutFires, SomeJobSettles
-----------------------------------------------------------------------------
(* What stop() waits for is all that runs. *)
Draining ==
    /\ inFlight = active
    /\ ~running /\ starts > 0 /\ ~stopped => active \subseteq awaiting
    /\ stopped => ~running /\ active = {}

LEMMA DrainingPreserved == Data /\ Draining /\ [Next]_vars => Draining'
<1> SUFFICES ASSUME Data, Draining, [Next]_vars PROVE Draining'
  OBVIOUS
<1>1. ASSUME NEW due, NEW chain, NEW life, Fire(due, chain, life)
      PROVE  inFlight' = active'
  BY <1>1 DEF Fire, Tracked, Draining
<1>2. CASE Start
  <2>1. running' /\ ~stopped'
    BY <1>2, Zenon DEF Start
  <2>2. inFlight' = active'
    BY <1>1, <1>2 DEF Start, callVars, Draining
  <2>3. QED
    BY <2>1, <2>2 DEF Draining
<1>3. CASE StopCall
  BY <1>3 DEF StopCall, Draining, callVars
<1>4. CASE StopReturns
  BY <1>4 DEF StopReturns, Draining, callVars
<1>5. ASSUME NEW t \in timeouts, TimeoutFires(t)
      PROVE  Draining'
  <2>1. CASE running
    BY <1>1, <1>5, <2>1 DEF TimeoutFires, Draining, lifeVars
  <2>2. CASE ~running
    BY <1>5, <2>2 DEF TimeoutFires, Draining, callVars, lifeVars
  <2>3. QED
    BY <2>1, <2>2
<1>6. ASSUME NEW i \in active, JobSettles(i)
      PROVE  Draining'
  BY <1>6 DEF JobSettles, Draining
<1>7. CASE Tick
  BY <1>7 DEF Tick, Draining, callVars, lifeVars
<1>8. ASSUME NEW to \in 1..MaxNow, ClockIsSet(to)
      PROVE  Draining'
  BY <1>8 DEF ClockIsSet, Draining, callVars, lifeVars
<1>9. CASE UNCHANGED vars
  BY <1>9 DEF vars, Draining
<1>10. QED
  BY <1>2, <1>3, <1>4, <1>5, <1>6, <1>7, <1>8, <1>9
  DEF Next, SomeTimeoutFires, SomeJobSettles

(* stop() drains (scheduler.ts:70-78): when its promise has resolved, no   *)
(* job it or an earlier life began runs, and no timeout is pending.        *)
THEOREM StopDrainsInvariant == Spec => []StopDrains
<1>1. Init => Data /\ OneTimer /\ Draining
  BY IntervalAssumption, BoundsAssumption
  DEF Init, Data, Calls, OneTimer, Draining
<1>2. OneTimer /\ Draining => StopDrains
  BY DEF OneTimer, Draining, StopDrains
<1>3. QED
  BY <1>1, <1>2, DataPreserved, OneTimerPreserved, DrainingPreserved, PTL DEF Spec
-----------------------------------------------------------------------------
(* The job was called once, as the last of the calls.                      *)
Called(due, chain, life) ==
    LET new == Len(fired) + 1 IN
    /\ Len(fired) \in Nat
    /\ Calls' = Calls \cup {new} /\ new \notin Calls
    /\ \A i \in Calls : fired'[i] = fired[i] /\ i < new
    /\ fired'[new].slot = due /\ fired'[new].chain = chain /\ fired'[new].life = life
    /\ active' = active \cup {new}

LEMMA FireCalls ==
    ASSUME Data, NEW due \in Nat, NEW chain \in BOOLEAN, NEW life \in Nat,
           Fire(due, chain, life)
    PROVE  Called(due, chain, life)
<1>1. active' = active \cup {Len(fired) + 1}
  BY DEF Fire
<1>2. /\ Calls' = Calls \cup {Len(fired) + 1} /\ Len(fired) \in Nat
      /\ \A i \in Calls : fired'[i] = fired[i]
      /\ fired'[Len(fired) + 1] = [slot |-> due, chain |-> chain, life |-> life]
  BY FireType
<1>3. Len(fired) + 1 \notin Calls /\ \A i \in Calls : i < Len(fired) + 1
  BY <1>2 DEF Calls
<1>4. QED
  BY <1>1, <1>2, <1>3 DEF Called

(* start() runs the current slot or nothing, and arms the next boundary.   *)
LEMMA StartEffect ==
    ASSUME Data, Start
    PROVE  /\ starts' = starts + 1 /\ starts < MaxStarts /\ ScheduleNext
           /\ ~running /\ running' /\ ~crossed' /\ UNCHANGED <<now, steps>>
           /\ \/ UNCHANGED callVars
              \/ Called(SlotStartFor(now), FALSE, starts + 1)
<1>1. /\ starts' = starts + 1 /\ starts < MaxStarts /\ ScheduleNext
      /\ ~running /\ running' /\ ~crossed' /\ UNCHANGED <<now, steps>>
  BY Zenon DEF Start, clockVars
<1>2. now \in Nat /\ starts \in Nat
  BY DEF Data
<1>3. SlotStartFor(now) \in Nat /\ starts + 1 \in Nat
  BY <1>2, SlotArithmetic
<1>4. CASE RunOnStart
  <2>1. Fire(SlotStartFor(now), FALSE, starts + 1)
    BY <1>1, <1>4 DEF Start
  <2>2. QED
    BY <1>1, <1>3, <2>1, FireCalls
<1>5. CASE ~RunOnStart
  BY <1>1, <1>5 DEF Start
<1>6. QED
  BY <1>4, <1>5

(* The one timeout of a running scheduler calls the job with its slot.     *)
LEMMA TimeoutEffect ==
    ASSUME Data, OneTimer, NEW t \in timeouts, TimeoutFires(t)
    PROVE  /\ running /\ timeouts' = {} /\ t.slot = lastScheduledSlot /\ t.left <= Early
           /\ UNCHANGED <<now, steps, running, starts, crossed, lastScheduledSlot>>
           /\ Called(lastScheduledSlot, TRUE, starts)
<1>1. running /\ timeouts = {t} /\ t.slot = lastScheduledSlot
  BY DEF OneTimer
<1>2. /\ timeouts' = {} /\ t.left <= Early /\ Fire(t.slot, TRUE, starts)
      /\ UNCHANGED <<now, steps, running, starts, crossed, lastScheduledSlot>>
  BY <1>1 DEF TimeoutFires, clockVars, lifeVars
<1>3. t.slot \in Nat /\ starts \in Nat /\ TRUE \in BOOLEAN
  BY <1>1 DEF Data
<1>4. Called(t.slot, TRUE, starts)
  BY <1>2, <1>3, FireCalls
<1>5. QED
  BY <1>1, <1>2, <1>4

LEMMA CallTypes ==
    ASSUME Data
    PROVE  /\ active \subseteq Calls
           /\ \A i \in Calls : fired[i].slot \in Nat /\ fired[i].life \in Nat
<1>1. \A i \in Calls : fired[i] \in Firing
  BY DEF Data, Calls
<1>2. QED
  BY <1>1 DEF Data, Firing
-----------------------------------------------------------------------------
SlotsGoUp ==
    \A i, j \in Calls :
        i < j /\ fired[i].life = fired[j].life => fired[i].slot < fired[j].slot

(* What this life has fired lies before the pending timeout, and up to the *)
(* slot that was armed last when none is pending.                          *)
SlotsBelow ==
    /\ \A i \in Calls : fired[i].life <= starts
    /\ running =>
         \A i \in Calls : fired[i].life = starts =>
             /\ fired[i].slot <= lastScheduledSlot
             /\ timeouts # {} => fired[i].slot < lastScheduledSlot

LEMMA CallGoesUp ==
    ASSUME Data, SlotsGoUp, NEW due \in Nat, NEW chain, NEW life \in Nat,
           Called(due, chain, life),
           \A i \in Calls : fired[i].life = life => fired[i].slot < due
    PROVE  SlotsGoUp'
<1> DEFINE new == Len(fired) + 1
<1>1. SUFFICES ASSUME NEW i \in Calls', NEW j \in Calls', i < j,
                      fired'[i].life = fired'[j].life
               PROVE  fired'[i].slot < fired'[j].slot
  BY DEF SlotsGoUp
<1>2. Len(fired) \in Nat /\ Calls = 1..Len(fired) /\ Calls' = Calls \cup {new}
  BY DEF Called, Calls
<1>3. i \in Calls
  BY <1>1, <1>2
<1>4. fired'[i] = fired[i]
  BY <1>3 DEF Called
<1>5. CASE j \in Calls
  BY <1>1, <1>3, <1>4, <1>5 DEF Called, SlotsGoUp
<1>6. CASE j = new
  BY <1>1, <1>3, <1>4, <1>6 DEF Called
<1>7. QED
  BY <1>2, <1>5, <1>6

LEMMA SlotsPreserved ==
    Data /\ OneTimer /\ SlotsBelow /\ SlotsGoUp /\ [Next]_vars => SlotsBelow' /\ SlotsGoUp'
<1> SUFFICES ASSUME Data, OneTimer, SlotsBelow, SlotsGoUp, [Next]_vars
             PROVE  SlotsBelow' /\ SlotsGoUp'
  OBVIOUS
<1>1. /\ now \in Nat /\ starts \in Nat /\ lastScheduledSlot \in Nat
      /\ \A i \in Calls : fired[i].slot \in Nat /\ fired[i].life \in Nat
      /\ Calls \subseteq Nat
  BY CallTypes DEF Data, Calls
<1>2. CASE Start
  <2>1. lastScheduledSlot' = NextMs /\ SlotStartFor(now) < NextMs
        /\ SlotStartFor(now) \in Nat /\ NextMs \in Nat
    BY <1>1, <1>2, StartEffect, Armed, NextMsType, SlotArithmetic
  <2>2. CASE UNCHANGED callVars
    <3>1. UNCHANGED <<fired, Calls>>
      BY <2>2 DEF callVars, Calls
    <3>2. QED
      BY <1>1, <1>2, <3>1, StartEffect DEF SlotsBelow, SlotsGoUp
  <2>3. CASE Called(SlotStartFor(now), FALSE, starts + 1)
    <3>1. \A i \in Calls' : i \in Calls \/ i = Len(fired) + 1
      BY <2>3 DEF Called
    <3>2. SlotsBelow'
      BY <1>1, <1>2, <2>1, <2>3, <3>1, StartEffect DEF SlotsBelow, Called
    <3>3. SlotsGoUp'
      <4>1. starts + 1 \in Nat /\ \A i \in Calls : fired[i].life # starts + 1
        BY <1>1 DEF SlotsBelow
      <4>2. QED
        BY <2>1, <2>3, <4>1, CallGoesUp
    <3>4. QED
      BY <3>2, <3>3
  <2>4. QED
    BY <1>2, <2>2, <2>3, StartEffect
<1>3. CASE StopCall
  BY <1>3 DEF StopCall, SlotsBelow, SlotsGoUp, callVars, Calls
<1>4. CASE StopReturns
  BY <1>4 DEF StopReturns, SlotsBelow, SlotsGoUp, callVars, chainVars, Calls
<1>5. ASSUME NEW t \in timeouts, TimeoutFires(t)
      PROVE  SlotsBelow' /\ SlotsGoUp'
  <2>1. running /\ timeouts # {}
    BY <1>5, TimeoutEffect
  <2>2. Called(lastScheduledSlot, TRUE, starts) /\ timeouts' = {}
        /\ UNCHANGED <<starts, running, lastScheduledSlot>>
    BY <1>5, TimeoutEffect
  <2>3. \A i \in Calls' : i \in Calls \/ i = Len(fired) + 1
    BY <2>2 DEF Called
  <2>4. SlotsBelow'
    BY <1>1, <2>1, <2>2, <2>3 DEF SlotsBelow, Called
  <2>5. SlotsGoUp'
    BY <1>1, <2>1, <2>2, CallGoesUp DEF SlotsBelow
  <2>6. QED
    BY <2>4, <2>5
<1>6. ASSUME NEW i \in active, JobSettles(i)
      PROVE  SlotsBelow' /\ SlotsGoUp'
  <2>1. UNCHANGED <<fired, Calls, starts, running>>
    BY <1>6 DEF JobSettles, Calls
  <2>2. CASE Rearms(i)
    <3>1. lastScheduledSlot' = NextMs /\ lastScheduledSlot < NextMs /\ NextMs \in Nat
      BY <1>1, <1>6, <2>2, Armed, NextMsType, IntervalAssumption DEF JobSettles
    <3>2. SlotsBelow'
      <4>1. \A k \in Calls : fired[k].life = starts =>
              /\ fired[k].slot \in Nat /\ fired[k].slot <= lastScheduledSlot
        BY <1>1, <2>2 DEF SlotsBelow, Rearms
      <4>2. \A k \in Calls : fired[k].life = starts =>
              fired[k].slot < NextMs /\ fired[k].slot <= NextMs
        BY <1>1, <3>1, <4>1
      <4>3. QED
        BY <2>1, <3>1, <4>2 DEF SlotsBelow
    <3>3. SlotsGoUp'
      BY <2>1 DEF SlotsGoUp
    <3>4. QED
      BY <3>2, <3>3
  <2>3. CASE ~Rearms(i)
    BY <1>6, <2>1, <2>3 DEF JobSettles, SlotsBelow, SlotsGoUp, chainVars
  <2>4. QED
    BY <2>2, <2>3
<1>7. CASE Tick
  <2>1. UNCHANGED <<fired, Calls, starts, running, lastScheduledSlot>>
    BY <1>7, Zenon DEF Tick, callVars, lifeVars, Calls
  <2>2. timeouts' = {} <=> timeouts = {}
    BY <1>7, TickTimeouts
  <2>3. QED
    BY <2>1, <2>2 DEF SlotsBelow, SlotsGoUp
<1>8. ASSUME NEW to \in 1..MaxNow, ClockIsSet(to)
      PROVE  SlotsBelow' /\ SlotsGoUp'
  BY <1>8 DEF ClockIsSet, SlotsBelow, SlotsGoUp, chainVars, callVars, lifeVars, Calls
<1>9. CASE UNCHANGED vars
  BY <1>9 DEF vars, SlotsBelow, SlotsGoUp, Calls
<1>10. QED
  BY <1>2, <1>3, <1>4, <1>5, <1>6, <1>7, <1>8, <1>9
  DEF Next, SomeTimeoutFires, SomeJobSettles
-----------------------------------------------------------------------------
Own(i) == fired[i].chain /\ fired[i].life = starts

(* The chain goes on: by the timeout or by a scheduled run of this life.   *)
OneLink ==
    /\ running => timeouts # {} \/ ChainCalls # {}
    /\ running /\ ~crossed =>
         \/ timeouts # {} /\ ~ \E i \in active : Own(i)
         \/ timeouts = {} /\ \E i \in active : Own(i) /\ \A j \in active : Own(j) => i = j

LEMMA OneLinkPreserved ==
    Data /\ OneTimer /\ SlotsBelow /\ OneLink /\ [Next]_vars => OneLink'
<1> SUFFICES ASSUME Data, OneTimer, SlotsBelow, OneLink, [Next]_vars
             PROVE  OneLink'
  OBVIOUS
<1>1. /\ starts \in Nat /\ active \subseteq Calls
      /\ \A i \in Calls : fired[i].life \in Nat /\ fired[i].life <= starts
  BY CallTypes DEF Data, SlotsBelow
<1>2. ASSUME UNCHANGED <<running, crossed, starts, fired, active>>,
             timeouts' = {} <=> timeouts = {}
      PROVE  OneLink'
  BY <1>2 DEF OneLink, Own, ChainCalls
<1>3. CASE Start
  <2>1. timeouts' # {} /\ starts' = starts + 1
    BY <1>3, StartEffect, Armed
  <2>2. \A i \in active : fired[i].life # starts + 1
    BY <1>1
  <2>3. ~ \E i \in active' : Own(i)'
    <3>1. CASE UNCHANGED callVars
      BY <2>1, <2>2, <3>1 DEF callVars, Own
    <3>2. CASE Called(SlotStartFor(now), FALSE, starts + 1)
      BY <1>1, <2>1, <2>2, <3>2 DEF Called, Own
    <3>3. QED
      BY <1>3, <3>1, <3>2, StartEffect
  <2>4. QED
    BY <2>1, <2>3 DEF OneLink
<1>4. CASE StopCall
  BY <1>4 DEF StopCall, OneLink
<1>5. CASE StopReturns
  BY <1>5 DEF StopReturns, OneLink
<1>6. ASSUME NEW t \in timeouts, TimeoutFires(t)
      PROVE  OneLink'
  <2>1. /\ timeouts' = {} /\ Called(lastScheduledSlot, TRUE, starts)
        /\ UNCHANGED <<running, starts, crossed>>
    BY <1>6, TimeoutEffect
  <2>2. running' = running /\ crossed' = crossed /\ starts' = starts
    BY <2>1
  <2>3. PICK new : /\ new \notin Calls /\ active' = active \cup {new}
                   /\ fired'[new].chain = TRUE /\ fired'[new].life = starts
                   /\ \A j \in Calls : fired'[j] = fired[j]
    BY <2>1 DEF Called
  <2>4. new \in ChainCalls' /\ Own(new)'
    <3>1. fired'[new].chain
      BY <2>3
    <3>2. new \in active'
      BY <2>3
    <3>3. fired'[new].life = starts'
      BY <2>2, <2>3
    <3>4. QED
      BY <3>1, <3>2, <3>3, Zenon DEF ChainCalls, Own
  <2>5. ASSUME running, ~crossed
        PROVE  \A j \in active' : Own(j)' => new = j
    <3>1. \A j \in active : ~Own(j)
      BY <2>5 DEF OneLink
    <3>2. \A j \in active : Own(j)' <=> Own(j)
      BY <1>1, <2>2, <2>3 DEF Own
    <3>3. QED
      BY <2>3, <3>1, <3>2
  <2>6. timeouts' = {} /\ new \in active'
    BY <2>1, <2>3
  <2>7. QED
    BY <2>2, <2>4, <2>5, <2>6, Zenon DEF OneLink
<1>7. ASSUME NEW i \in active, JobSettles(i)
      PROVE  OneLink'
  <2>1. active' = active \ {i} /\ UNCHANGED <<fired, starts, running>>
    BY <1>7 DEF JobSettles
  <2>2. CASE Rearms(i)
    <3>1. timeouts' # {} /\ crossed' = (crossed \/ fired[i].life < starts)
      BY <1>7, <2>2, Armed DEF JobSettles
    <3>2. ASSUME ~crossed'
          PROVE  ~ \E j \in active' : Own(j)'
      <4>1. ~crossed /\ fired[i].life = starts
        <5>1. ~crossed /\ ~(fired[i].life < starts)
          BY <3>1, <3>2, Zenon
        <5>2. QED
          BY <1>1, <5>1
      <4>2. Own(i) /\ running
        BY <2>2, <4>1 DEF Rearms, Own
      <4>3. \A j \in active : Own(j) => i = j
        BY <4>1, <4>2 DEF OneLink
      <4>4. QED
        BY <2>1, <4>3 DEF Own
    <3>3. QED
      BY <3>1, <3>2 DEF OneLink
  <2>3. CASE ~Rearms(i)
    <3>1. UNCHANGED <<timeouts, crossed>>
      BY <1>7, <2>3 DEF JobSettles, chainVars
    <3>2. running => ~fired[i].chain
      BY <2>3 DEF Rearms
    <3>3. QED
      BY <2>1, <3>1, <3>2 DEF OneLink, Own, ChainCalls
  <2>4. QED
    BY <2>2, <2>3
<1>8. CASE Tick
  <2>1. UNCHANGED <<running, crossed, starts, fired, active>>
    BY <1>8, Zenon DEF Tick, callVars, lifeVars
  <2>2. QED
    BY <1>2, <1>8, <2>1, TickTimeouts
<1>9. ASSUME NEW to \in 1..MaxNow, ClockIsSet(to)
      PROVE  OneLink'
  BY <1>2, <1>9 DEF ClockIsSet, chainVars, callVars, lifeVars
<1>10. CASE UNCHANGED vars
  BY <1>2, <1>10 DEF vars
<1>11. QED
  BY <1>3, <1>4, <1>5, <1>6, <1>7, <1>8, <1>9, <1>10
  DEF Next, SomeTimeoutFires, SomeJobSettles

Chain == Data /\ OneTimer /\ SlotsBelow /\ SlotsGoUp /\ OneLink

LEMMA ChainInvariant == Spec => []Chain
<1>1. Init => Data /\ OneTimer
  BY IntervalAssumption, BoundsAssumption DEF Init, Data, Calls, OneTimer
<1>2. Init => SlotsBelow /\ SlotsGoUp /\ OneLink
  BY DEF Init, Calls, SlotsBelow, SlotsGoUp, OneLink
<1>3. Chain /\ [Next]_vars => Chain'
  BY DataPreserved, OneTimerPreserved, SlotsPreserved, OneLinkPreserved DEF Chain
<1>4. QED
  BY <1>1, <1>2, <1>3, PTL DEF Spec, Chain

(* The setTimeout chain is one and does not break, whatever is started,    *)
(* stopped, crossed or set back (scheduler.ts:96-122): the pending timeout *)
(* is the one stop() can cancel, and a running scheduler has either it or  *)
(* one scheduled run of its own life whose finally will arm it.            *)
THEOREM ChainAliveInvariant == Spec => []ChainAlive
<1>1. ASSUME Chain
      PROVE  ChainAlive
  <2> USE <1>1 DEF Chain
  <2> DEFINE own == {i \in ChainCalls : fired[i].life = starts}
  <2>1. own = {i \in active : Own(i)}
    BY DEF ChainCalls, Own
  <2>2. ASSUME running, ~crossed
        PROVE  Cardinality(timeouts) + Cardinality(own) = 1
    <3>1. CASE timeouts # {} /\ own = {}
      <4>1. PICK t \in timeouts : timeouts = {t}
        BY <3>1 DEF OneTimer
      <4>2. Cardinality(timeouts) = 1 /\ Cardinality(own) = 0
        BY <3>1, <4>1, FS_Singleton, FS_EmptySet
      <4>3. QED
        BY <4>2
    <3>2. CASE timeouts = {} /\ \E i \in own : own = {i}
      <4>1. Cardinality(timeouts) = 0 /\ Cardinality(own) = 1
        BY <3>2, FS_Singleton, FS_EmptySet
      <4>2. QED
        BY <4>1
    <3>3. QED
      BY <2>1, <2>2, <3>1, <3>2 DEF OneLink
  <2>3. QED
    BY <2>2 DEF ChainAlive, OneTimer, OneLink
<1>2. QED
  BY <1>1, ChainInvariant, PTL
-----------------------------------------------------------------------------
(* As many chains as there were starts: the timeout, and the scheduled runs*)
(* that a stop() left in flight.                                           *)
Chains == Cardinality(ChainCalls)
Pending == IF timeouts = {} THEN 0 ELSE 1

ChainPerStart == starts <= MaxStarts /\ Chains + Pending <= starts

LEMMA ChainCallsFinite == Data => IsFiniteSet(ChainCalls) /\ Chains \in Nat
<1> SUFFICES ASSUME Data PROVE IsFiniteSet(ChainCalls) /\ Chains \in Nat
  OBVIOUS
<1>1. IsFiniteSet(Calls)
  BY FS_Interval DEF Data, Calls
<1>2. ChainCalls \in SUBSET Calls
  BY DEF Data, ChainCalls
<1>3. IsFiniteSet(ChainCalls)
  BY <1>1, <1>2, FS_Subset
<1>4. QED
  BY <1>3, FS_CardinalityType DEF Chains

(* A scheduled run that begins is a chain call more, one that settles is   *)
(* one less; nothing else changes their number.                            *)
LEMMA ChainCallAdded ==
    ASSUME Data, NEW due, NEW life, Called(due, TRUE, life)
    PROVE  Chains' = Chains + 1
<1>1. active \subseteq Calls /\ IsFiniteSet(ChainCalls)
  BY CallTypes, ChainCallsFinite
<1>2. PICK new : /\ new \notin Calls /\ active' = active \cup {new}
                 /\ fired'[new].chain = TRUE
                 /\ \A j \in Calls : fired'[j] = fired[j]
  BY DEF Called
<1>3. ChainCalls' = ChainCalls \cup {new} /\ new \notin ChainCalls
  BY <1>1, <1>2 DEF ChainCalls
<1>4. QED
  BY <1>1, <1>3, FS_AddElement DEF Chains

LEMMA OtherCallAdded ==
    ASSUME Data, NEW due, NEW life, Called(due, FALSE, life)
    PROVE  Chains' = Chains
<1>1. active \subseteq Calls
  BY CallTypes
<1>2. PICK new : /\ new \notin Calls /\ active' = active \cup {new}
                 /\ fired'[new].chain = FALSE
                 /\ \A j \in Calls : fired'[j] = fired[j]
  BY DEF Called
<1>3. ChainCalls' = ChainCalls
  BY <1>1, <1>2 DEF ChainCalls
<1>4. QED
  BY <1>3 DEF Chains

LEMMA CallSettled ==
    ASSUME Data, NEW i \in active, JobSettles(i)
    PROVE  /\ fired[i].chain => Chains' = Chains - 1
           /\ ~fired[i].chain => Chains' = Chains
<1>1. active' = active \ {i} /\ fired' = fired
  BY DEF JobSettles
<1>2. ASSUME fired[i].chain PROVE Chains' = Chains - 1
  <2>1. ChainCalls' = ChainCalls \ {i} /\ i \in ChainCalls
    BY <1>1, <1>2 DEF ChainCalls
  <2>2. QED
    BY <2>1, ChainCallsFinite, FS_RemoveElement DEF Chains
<1>3. ASSUME ~fired[i].chain PROVE Chains' = Chains
  <2>1. ChainCalls' = ChainCalls
    BY <1>1, <1>3 DEF ChainCalls
  <2>2. QED
    BY <2>1 DEF Chains
<1>4. QED
  BY <1>2, <1>3

LEMMA ChainPerStartPreserved ==
    Data /\ OneTimer /\ ChainPerStart /\ [Next]_vars => ChainPerStart'
<1> SUFFICES ASSUME Data, OneTimer, ChainPerStart, [Next]_vars
             PROVE  ChainPerStart'
  OBVIOUS
<1>1. Chains \in Nat /\ starts \in Nat /\ MaxStarts \in Nat
  BY ChainCallsFinite, BoundsAssumption DEF Data
<1>2. ASSUME UNCHANGED <<starts, fired, active>>, timeouts' = {} \/ timeouts # {}
      PROVE  ChainPerStart'
  BY <1>1, <1>2 DEF ChainPerStart, Chains, Pending, ChainCalls
<1>3. CASE Start
  <2>1. starts' = starts + 1 /\ starts < MaxStarts
    BY <1>3, StartEffect
  <2>2. Pending = 0 /\ (Pending' = 0 \/ Pending' = 1)
    BY <1>3, StartEffect DEF OneTimer, Pending
  <2>3. Chains' = Chains
    BY <1>3, StartEffect, OtherCallAdded DEF callVars, Chains, ChainCalls
  <2>4. QED
    BY <1>1, <2>1, <2>2, <2>3 DEF ChainPerStart
<1>4. CASE StopCall
  BY <1>2, <1>4 DEF StopCall, Cleared, callVars
<1>5. CASE StopReturns
  BY <1>2, <1>5 DEF StopReturns, callVars, chainVars
<1>6. ASSUME NEW t \in timeouts, TimeoutFires(t)
      PROVE  ChainPerStart'
  <2>1. Pending = 1 /\ Pending' = 0 /\ starts' = starts
    BY <1>6, TimeoutEffect DEF Pending
  <2>2. Chains' = Chains + 1
    BY <1>6, TimeoutEffect, ChainCallAdded
  <2>3. QED
    BY <1>1, <2>1, <2>2 DEF ChainPerStart
<1>7. ASSUME NEW i \in active, JobSettles(i)
      PROVE  ChainPerStart'
  <2>1. starts' = starts /\ (Pending = 0 \/ Pending = 1) /\ (Pending' = 0 \/ Pending' = 1)
    BY <1>7 DEF JobSettles, Pending
  <2>2. CASE Rearms(i)
    <3>1. Chains' = Chains - 1
      BY <1>7, <2>2, CallSettled DEF Rearms
    <3>2. QED
      BY <1>1, <2>1, <3>1 DEF ChainPerStart
  <2>3. CASE ~Rearms(i)
    <3>1. Pending' = Pending
      BY <1>7, <2>3 DEF JobSettles, chainVars, Pending
    <3>2. Chains' = Chains \/ Chains' = Chains - 1
      BY <1>7, CallSettled
    <3>3. QED
      BY <1>1, <2>1, <3>1, <3>2 DEF ChainPerStart
  <2>4. QED
    BY <2>2, <2>3
<1>8. CASE Tick
  <2>1. UNCHANGED <<starts, fired, active>>
    BY <1>8, Zenon DEF Tick, callVars, lifeVars
  <2>2. QED
    BY <1>2, <1>8, <2>1, TickTimeouts
<1>9. ASSUME NEW to \in 1..MaxNow, ClockIsSet(to)
      PROVE  ChainPerStart'
  BY <1>2, <1>9 DEF ClockIsSet, chainVars, callVars, lifeVars
<1>10. CASE UNCHANGED vars
  BY <1>2, <1>10 DEF vars
<1>11. QED
  BY <1>3, <1>4, <1>5, <1>6, <1>7, <1>8, <1>9, <1>10
  DEF Next, SomeTimeoutFires, SomeJobSettles
-----------------------------------------------------------------------------
(* setTimeout can hold every delay the scheduler asks for: an interval, and*)
(* one more for each earlier life whose run is still in flight.  With the  *)
(* default PING_INTERVAL_MS of five minutes that allows 7,000 starts, but  *)
(* env.ts:19 sets no maximum.                                              *)
DelaysHeld == (MaxStarts + 2) * Interval <= TimerMax

(* While nobody sets the clock: no timeout is due before its slot; the slot*)
(* armed last is in reach; and each chain call in flight has an interval.  *)
OnTime ==
    running /\ steps = 0 =>
        /\ \A t \in timeouts : t.slot <= now + t.left
        /\ timeouts = {} => lastScheduledSlot <= now + Early
        /\ lastScheduledSlot + Interval * Chains <= now + Interval * (starts + 1) + Early

LEMMA DelayOfNextMs ==
    ASSUME DelaysHeld, Data, starts <= MaxStarts,
           NextMs <= now + Interval * (starts + 1) + Early
    PROVE  Delay(NextMs) = NextMs - now
<1>1. /\ Interval \in Nat /\ Early \in Nat /\ Early < Interval
      /\ MaxStarts \in Nat /\ starts \in Nat /\ now \in Nat /\ NextMs \in Nat
      /\ TimerMax \in Nat
  BY IntervalAssumption, EarlyAssumption, BoundsAssumption, NextMsType DEF Data
<1>2. Interval * (starts + 1) + Interval <= (MaxStarts + 2) * Interval
  BY <1>1
<1>3. NextMs - now <= TimerMax
  BY <1>1, <1>2 DEF DelaysHeld
<1>4. QED
  BY <1>1, <1>3 DEF Delay

(* The timeout that ScheduleNext arms is on time when its slot is in reach.*)
LEMMA ArmedOnTime ==
    ASSUME DelaysHeld, Data, OneTimer, starts <= MaxStarts, ScheduleNext,
           now' = now,
           NextMs <= now + Interval * (starts + 1) + Early
    PROVE  /\ timeouts' # {} /\ lastScheduledSlot' = NextMs
           /\ \A t \in timeouts' : t.slot <= now' + t.left
<1>1. now \in Nat /\ NextMs \in Nat
  BY NextMsType DEF Data
<1>2. Delay(NextMs) = NextMs - now
  BY DelayOfNextMs
<1>3. /\ timeouts' = {[handle |-> armed + 1, slot |-> NextMs, left |-> NextMs - now]}
      /\ lastScheduledSlot' = NextMs
  BY <1>2, Armed
<1>4. \A t \in timeouts' : t.slot = NextMs /\ t.left = NextMs - now
  BY <1>3
<1>5. QED
  BY <1>1, <1>3, <1>4

LEMMA OnTimePreserved ==
    ASSUME DelaysHeld
    PROVE  Data /\ OneTimer /\ ChainPerStart /\ OnTime /\ [Next]_vars => OnTime'
<1> SUFFICES ASSUME Data, OneTimer, ChainPerStart, OnTime, [Next]_vars
             PROVE  OnTime'
  OBVIOUS
<1>1. /\ Chains \in Nat /\ starts \in Nat /\ MaxStarts \in Nat /\ now \in Nat
      /\ Interval \in Nat /\ Early \in Nat /\ lastScheduledSlot \in Nat
      /\ 0 < Interval /\ Chains <= starts /\ starts <= MaxStarts
  <2>1. (Pending = 0 \/ Pending = 1) /\ Chains \in Nat /\ starts \in Nat
    BY ChainCallsFinite DEF Pending, Data
  <2>2. Chains <= starts
    BY <2>1 DEF ChainPerStart
  <2>3. QED
    BY <2>1, <2>2, IntervalAssumption, EarlyAssumption, BoundsAssumption
    DEF Data, ChainPerStart
<1>2. NextSlotAfter(now) \in Nat /\ NextSlotAfter(now) <= now + Interval
  BY <1>1, SlotArithmetic
<1>3. Interval * Chains <= Interval * starts /\ Interval * (starts + 1) = Interval * starts + Interval
      /\ Interval * Chains \in Nat /\ Interval * starts \in Nat
  BY <1>1
<1>4. CASE Start
  <2>1. starts' = starts + 1 /\ starts < MaxStarts /\ ScheduleNext
        /\ UNCHANGED <<now, steps>> /\ lastScheduledSlot = 0
    BY <1>4, StartEffect DEF OneTimer
  <2>2. NextMs <= now + Interval
    BY <1>1, <1>2, <2>1 DEF NextMs, Later
  <2>3. Chains' = Chains
    BY <1>4, StartEffect, OtherCallAdded DEF callVars, Chains, ChainCalls
  <2>4. NextMs <= now + Interval * (starts + 1) + Early /\ NextMs \in Nat
    BY <1>1, <1>3, <2>2, NextMsType
  <2>5. /\ timeouts' # {} /\ lastScheduledSlot' = NextMs
        /\ \A t \in timeouts' : t.slot <= now' + t.left
    BY <1>1, <2>1, <2>4, ArmedOnTime
  <2>6. Interval * (starts' + 1) = Interval * starts + Interval + Interval
    BY <1>1, <2>1
  <2>7. lastScheduledSlot' + Interval * Chains' <= now' + Interval * (starts' + 1) + Early
    BY <1>1, <1>3, <2>1, <2>2, <2>3, <2>4, <2>5, <2>6
  <2>8. QED
    BY <2>5, <2>7 DEF OnTime
<1>5. CASE StopCall
  BY <1>5 DEF StopCall, OnTime
<1>6. CASE StopReturns
  BY <1>6 DEF StopReturns, OnTime
<1>7. ASSUME NEW t \in timeouts, TimeoutFires(t), running, steps = 0
      PROVE  /\ timeouts' = {} /\ lastScheduledSlot' <= now' + Early
             /\ lastScheduledSlot' + Interval * Chains'
                  <= now' + Interval * (starts' + 1) + Early
  <2>1. /\ timeouts' = {} /\ t.slot = lastScheduledSlot /\ t.left <= Early
        /\ now' = now /\ starts' = starts /\ lastScheduledSlot' = lastScheduledSlot
    BY <1>7, TimeoutEffect
  <2>2. t.left \in Nat
    BY DEF Data, Timeout
  <2>3. lastScheduledSlot <= now + Early
    BY <1>1, <1>7, <2>1, <2>2 DEF OnTime
  <2>4. Chains' = Chains + 1
    BY <1>7, TimeoutEffect, ChainCallAdded
  <2>5. Interval * (Chains + 1) = Interval * Chains + Interval
    BY <1>1
  <2>6. QED
    BY <1>1, <1>3, <2>1, <2>3, <2>4, <2>5
<1>8. ASSUME NEW i \in active, JobSettles(i), running, steps = 0
      PROVE  OnTime'
  <2>1. UNCHANGED <<now, steps, starts, running>>
    BY <1>8 DEF JobSettles, clockVars
  <2>2. CASE fired[i].chain
    <3>1. ScheduleNext /\ Chains' = Chains - 1
      BY <1>8, <2>2, CallSettled DEF JobSettles, Rearms
    <3>2. Interval * (Chains - 1) = Interval * Chains - Interval
      BY <1>1
    <3>3. lastScheduledSlot + Interval * Chains <= now + Interval * (starts + 1) + Early
      BY <1>8 DEF OnTime
    <3>4. NextMs \in Nat /\ NextMs + Interval * (Chains - 1)
                             <= now + Interval * (starts + 1) + Early
      BY <1>1, <1>2, <1>3, <3>2, <3>3 DEF NextMs, Later
    <3>5. Chains' \in Nat
      <4>1. IsFiniteSet(ChainCalls) /\ i \in ChainCalls
        BY <2>2, ChainCallsFinite DEF ChainCalls
      <4>2. Chains # 0
        BY <4>1, FS_EmptySet DEF Chains
      <4>3. QED
        BY <1>1, <3>1, <4>2
    <3>6. NextMs <= now + Interval * (starts + 1) + Early
      <4>1. Interval * (Chains - 1) \in Nat
        BY <1>1, <3>1, <3>5
      <4>2. QED
        BY <1>1, <1>3, <3>4, <4>1
    <3>7. /\ timeouts' # {} /\ lastScheduledSlot' = NextMs
          /\ \A t \in timeouts' : t.slot <= now' + t.left
      BY <1>1, <2>1, <3>1, <3>6, ArmedOnTime
    <3>8. lastScheduledSlot' + Interval * Chains' <= now' + Interval * (starts' + 1) + Early
      BY <2>1, <3>1, <3>4, <3>7
    <3>9. QED
      BY <3>7, <3>8 DEF OnTime
  <2>3. CASE ~fired[i].chain
    <3>1. UNCHANGED <<timeouts, lastScheduledSlot>> /\ Chains' = Chains
      BY <1>8, <2>3, CallSettled DEF JobSettles, Rearms, chainVars
    <3>2. QED
      BY <2>1, <3>1 DEF OnTime
  <2>4. QED
    BY <2>2, <2>3
<1>9. CASE Tick
  <2>1. /\ now' = now + 1
        /\ UNCHANGED <<running, steps, starts, lastScheduledSlot, fired, active>>
    BY <1>9, Zenon DEF Tick, callVars, lifeVars
  <2>2. Chains' = Chains
    BY <2>1 DEF Chains, ChainCalls
  <2>3. ASSUME \A t \in timeouts : t.slot <= now + t.left
        PROVE  \A u \in timeouts' : u.slot <= now' + u.left
    <3>1. \A t \in timeouts : t.slot \in Nat /\ t.left \in Nat
      BY DEF Data, Timeout
    <3>2. QED
      BY <1>1, <1>9, <2>1, <2>3, <3>1, TickTimeouts DEF Later
  <2>4. timeouts' = {} <=> timeouts = {}
    BY <1>9, TickTimeouts
  <2>5. Interval * (starts + 1) \in Nat
    BY <1>1
  <2>6. ASSUME running, steps = 0
        PROVE  /\ timeouts = {} => lastScheduledSlot <= now' + Early
               /\ lastScheduledSlot + Interval * Chains
                    <= now' + Interval * (starts + 1) + Early
    BY <1>1, <1>3, <2>1, <2>5, <2>6 DEF OnTime
  <2>7. QED
    BY <2>1, <2>2, <2>3, <2>4, <2>6 DEF OnTime
<1>10. ASSUME NEW to \in 1..MaxNow, ClockIsSet(to)
      PROVE  OnTime'
  <2>1. steps' = steps + 1 /\ steps \in Nat
    BY <1>10 DEF ClockIsSet, Data
  <2>2. QED
    BY <2>1 DEF OnTime
<1>11. CASE UNCHANGED vars
  BY <1>11 DEF vars, OnTime, Chains, ChainCalls
<1>12. ASSUME NEW t \in timeouts, TimeoutFires(t)
      PROVE  OnTime'
  BY <1>7, <1>12, TimeoutEffect DEF OnTime
<1>13. ASSUME NEW i \in active, JobSettles(i)
      PROVE  OnTime'
  BY <1>8, <1>13 DEF JobSettles, clockVars, OnTime
<1>14. QED
  BY <1>4, <1>5, <1>6, <1>9, <1>10, <1>11, <1>12, <1>13
  DEF Next, SomeTimeoutFires, SomeJobSettles
-----------------------------------------------------------------------------
Punctual == Chain /\ ChainPerStart /\ OnTime /\ ~premature

LEMMA NotPremature ==
    Data /\ OneTimer /\ OnTime /\ ~premature /\ [Next]_vars => ~premature'
<1> SUFFICES ASSUME Data, OneTimer, OnTime, ~premature, [Next]_vars
             PROVE  ~premature'
  OBVIOUS
<1>1. now \in Nat /\ Early \in Nat
  BY EarlyAssumption, IntervalAssumption DEF Data
<1>2. CASE Start
  <2>1. ~(now + Early < SlotStartFor(now))
    BY <1>1, SlotArithmetic
  <2>2. QED
    BY <1>2, <2>1, Zenon DEF Start, Fire, callVars
<1>3. ASSUME NEW t \in timeouts, TimeoutFires(t)
      PROVE  ~premature'
  <2>1. running /\ t.left <= Early
    BY <1>3, TimeoutEffect
  <2>2. steps = 0 => ~(now + Early < t.slot)
    <3>1. t.slot \in Nat /\ t.left \in Nat
      BY DEF Data, Timeout
    <3>2. steps = 0 => t.slot <= now + t.left
      BY <2>1 DEF OnTime
    <3>3. QED
      BY <1>1, <2>1, <3>1, <3>2
  <2>3. QED
    BY <1>3, <2>2, Zenon DEF TimeoutFires, Fire, callVars
<1>4. ASSUME UNCHANGED premature PROVE ~premature'
  BY <1>4
<1>5. QED
  BY <1>2, <1>3, <1>4
  DEF Next, SomeTimeoutFires, SomeJobSettles, StopCall, StopReturns, JobSettles, Tick,
      ClockIsSet, callVars, vars

LEMMA PunctualInvariant ==
    ASSUME DelaysHeld
    PROVE  Spec => []Punctual
<1>1. Init => ChainPerStart
  <2>1. ASSUME Init
        PROVE  Chains = 0 /\ Pending = 0 /\ starts = 0
    BY <2>1, FS_EmptySet DEF Init, Chains, ChainCalls, Pending
  <2>2. QED
    BY <2>1, BoundsAssumption DEF ChainPerStart
<1>2. Init => OnTime /\ ~premature
  BY DEF Init, OnTime
<1>3. Chain /\ ChainPerStart /\ OnTime /\ ~premature /\ [Next]_vars
        => (ChainPerStart /\ OnTime /\ ~premature)'
  BY ChainPerStartPreserved, OnTimePreserved, NotPremature DEF Chain
<1>4. QED
  BY <1>1, <1>2, <1>3, ChainInvariant, PTL DEF Spec, Punctual

(* No slot is fired twice in a life, and chain slots only go up            *)
(* (scheduler.ts:106-110, the guard of NextMs), whatever is done to the    *)
(* clock, to start() and to stop().                                        *)
THEOREM SlotsGoUpInvariant == Spec => []SlotsGoUp
  BY ChainInvariant, PTL DEF Chain

(* And, as long as setTimeout can hold the delays, no slot is fired before *)
(* it begins, by a clock that nobody sets.                                 *)
THEOREM SlotsAdvanceInvariant ==
    ASSUME DelaysHeld
    PROVE  Spec => []SlotsAdvance
<1>1. Punctual => SlotsAdvance
  BY DEF Punctual, Chain, SlotsGoUp, SlotsAdvance
<1>2. QED
  BY <1>1, PunctualInvariant, PTL
-----------------------------------------------------------------------------
(* The slot armed last is a boundary, and when no timeout is pending it has*)
(* been fired in this life.                                                *)
BoundariesFired ==
    /\ Boundary(lastScheduledSlot)
    /\ running /\ timeouts = {} =>
         \E i \in Calls : fired[i].slot = lastScheduledSlot /\ fired[i].life = starts

LEMMA NextMsIsBoundary ==
    ASSUME Data, Boundary(lastScheduledSlot)
    PROVE  Boundary(NextMs)
<1>1. now \in Nat /\ lastScheduledSlot \in Nat
  BY DEF Data
<1>2. Boundary(NextSlotAfter(now)) /\ Boundary(lastScheduledSlot + Interval)
  BY <1>1, BoundariesOfSlots
<1>3. QED
  BY <1>2 DEF NextMs, Later

LEMMA BoundariesFiredPreserved ==
    Data /\ OneTimer /\ BoundariesFired /\ [Next]_vars => BoundariesFired'
<1> SUFFICES ASSUME Data, OneTimer, BoundariesFired, [Next]_vars
             PROVE  BoundariesFired'
  OBVIOUS
<1>1. ASSUME ScheduleNext
      PROVE  BoundariesFired'
  <2>1. timeouts' # {} /\ lastScheduledSlot' = NextMs
    BY <1>1, Armed
  <2>2. Boundary(NextMs)
    BY NextMsIsBoundary DEF BoundariesFired
  <2>3. QED
    BY <2>1, <2>2 DEF BoundariesFired, Boundary
<1>2. ASSUME UNCHANGED <<running, lastScheduledSlot, starts, fired>>,
             timeouts' = {} => timeouts = {}
      PROVE  BoundariesFired'
  BY <1>2 DEF BoundariesFired, Boundary, Calls
<1>3. CASE Start
  BY <1>1, <1>3, StartEffect
<1>4. CASE StopCall
  <2>1. lastScheduledSlot' = 0 /\ ~running'
    BY <1>4 DEF StopCall, NoSlotYet
  <2>2. 0 % Interval = 0
    BY IntervalAssumption
  <2>3. QED
    BY <2>1, <2>2 DEF BoundariesFired, Boundary
<1>5. CASE StopReturns
  BY <1>2, <1>5 DEF StopReturns, callVars, chainVars
<1>6. ASSUME NEW t \in timeouts, TimeoutFires(t)
      PROVE  BoundariesFired'
  <2>1. /\ UNCHANGED <<lastScheduledSlot, starts>>
        /\ Called(lastScheduledSlot, TRUE, starts)
    BY <1>6, TimeoutEffect
  <2>2. PICK new \in Calls' : /\ fired'[new].slot = lastScheduledSlot
                              /\ fired'[new].life = starts
    BY <2>1 DEF Called
  <2>3. QED
    BY <2>1, <2>2 DEF BoundariesFired, Boundary
<1>7. ASSUME NEW i \in active, JobSettles(i)
      PROVE  BoundariesFired'
  BY <1>1, <1>2, <1>7 DEF JobSettles, chainVars
<1>8. CASE Tick
  <2>1. UNCHANGED <<running, lastScheduledSlot, starts, fired>>
    BY <1>8, Zenon DEF Tick, callVars, lifeVars
  <2>2. QED
    BY <1>2, <1>8, <2>1, TickTimeouts
<1>9. ASSUME NEW to \in 1..MaxNow, ClockIsSet(to)
      PROVE  BoundariesFired'
  BY <1>2, <1>9 DEF ClockIsSet, chainVars, callVars, lifeVars
<1>10. CASE UNCHANGED vars
  BY <1>2, <1>10 DEF vars
<1>11. QED
  BY <1>3, <1>4, <1>5, <1>6, <1>7, <1>8, <1>9, <1>10
  DEF Next, SomeTimeoutFires, SomeJobSettles

(* The boundaries between a time and the slot that is armed then: none but *)
(* the slot of a timeout that has fired early.                             *)
LEMMA NoBoundaryBefore ==
    ASSUME NEW at \in Nat, NEW due \in Nat, Boundary(due), at < due
    PROVE  NextSlotAfter(at) <= due
<1>1. SlotStartFor(at) \in Nat /\ Boundary(SlotStartFor(at)) /\ SlotStartFor(at) < due
  BY SlotArithmetic, BoundariesOfSlots
<1>2. SlotStartFor(at) + Interval <= due
  BY <1>1, BoundariesApart
<1>3. QED
  BY <1>2, SlotArithmetic

LEMMA BoundariesSkipped ==
    ASSUME Data, Boundary(lastScheduledSlot), lastScheduledSlot <= now + Early,
           NEW due \in (now + 1)..(NextMs - 1), Boundary(due)
    PROVE  due = lastScheduledSlot
<1>1. /\ now \in Nat /\ lastScheduledSlot \in Nat /\ NextMs \in Nat
      /\ Interval \in Nat /\ Early \in Nat /\ Early < Interval
  BY NextMsType, IntervalAssumption, EarlyAssumption DEF Data
<1>2. due \in Nat /\ now < due /\ due < NextMs
  BY <1>1
<1>3. NextSlotAfter(now) <= due /\ NextSlotAfter(now) \in Nat
  BY <1>1, <1>2, NoBoundaryBefore, SlotArithmetic
<1>4. due < lastScheduledSlot + Interval
  BY <1>1, <1>2, <1>3 DEF NextMs, Later
<1>5. ~(lastScheduledSlot < due)
  BY <1>1, <1>2, <1>4, BoundariesApart
<1>6. ~(due < lastScheduledSlot)
  <2>1. due < lastScheduledSlot => due + Interval <= lastScheduledSlot
    BY <1>1, <1>2, BoundariesApart
  <2>2. QED
    BY <1>1, <1>2, <2>1
<1>7. QED
  BY <1>1, <1>2, <1>5, <1>6

LEMMA NextBoundaryArmedPreserved ==
    Punctual /\ BoundariesFired /\ NextBoundaryArmed /\ [Next]_vars => NextBoundaryArmed'
<1> SUFFICES ASSUME Punctual, BoundariesFired, NextBoundaryArmed, [Next]_vars
             PROVE  NextBoundaryArmed'
  OBVIOUS
<1>1. Data /\ OneTimer /\ SlotsBelow /\ OneLink /\ OnTime
  BY DEF Punctual, Chain
<1>2. ASSUME timeouts' = {}
      PROVE  NextBoundaryArmed'
  BY <1>2 DEF NextBoundaryArmed
<1>3. ASSUME UNCHANGED <<crossed, steps, now, timeouts, fired, starts>>
      PROVE  NextBoundaryArmed'
  BY <1>3 DEF NextBoundaryArmed, Calls
<1>4. CASE Start
  <2>1. /\ ScheduleNext /\ now' = now /\ lastScheduledSlot = 0
    BY <1>1, <1>4, StartEffect DEF OneTimer
  <2>2. NextMs = NextSlotAfter(now)
    <3>1. now \in Nat
      BY <1>1 DEF Data
    <3>2. 0 + Interval <= NextSlotAfter(now) /\ NextSlotAfter(now) \in Nat
      BY <3>1, SlotArithmetic, IntervalAssumption
    <3>3. QED
      BY <2>1, <3>2, IntervalAssumption DEF NextMs, Later
  <2>3. \A t \in timeouts' : t.slot = NextSlotAfter(now)
    BY <1>1, <2>1, <2>2, Armed
  <2>4. \A due \in (now + 1)..(NextSlotAfter(now) - 1) : ~Boundary(due)
    <3>1. now \in Nat /\ NextSlotAfter(now) \in Nat
      BY <1>1, SlotArithmetic DEF Data
    <3>2. QED
      BY <3>1, NoBoundaryBefore
  <2>5. QED
    BY <2>1, <2>3, <2>4 DEF NextBoundaryArmed, Boundary
<1>5. CASE StopCall
  BY <1>1, <1>2, <1>5 DEF StopCall, Cleared, OneTimer
<1>6. CASE StopReturns
  BY <1>3, <1>6 DEF StopReturns, callVars, chainVars, clockVars
<1>7. ASSUME NEW t \in timeouts, TimeoutFires(t)
      PROVE  NextBoundaryArmed'
  BY <1>1, <1>2, <1>7, TimeoutEffect
<1>8. ASSUME NEW i \in active, JobSettles(i)
      PROVE  NextBoundaryArmed'
  <2>1. UNCHANGED <<now, steps, fired, starts, running>>
    BY <1>8 DEF JobSettles, clockVars
  <2>2. CASE Rearms(i)
    <3>1. ScheduleNext /\ crossed' = (crossed \/ fired[i].life < starts)
      BY <1>8, <2>2 DEF JobSettles
    <3>2. SUFFICES ASSUME ~crossed', steps = 0
                   PROVE  \A t \in timeouts' : \A due \in (now + 1)..(t.slot - 1) :
                            due % Interval = 0 =>
                              \E k \in Calls : fired[k].slot = due /\ fired[k].life = starts
      BY <2>1 DEF NextBoundaryArmed, Calls
    <3>3. ~crossed /\ ~(fired[i].life < starts)
      BY <3>1, <3>2, Zenon
    <3>4. fired[i].life = starts
      <4>1. fired[i].life \in Nat /\ starts \in Nat /\ fired[i].life <= starts
        BY <1>1, CallTypes DEF SlotsBelow, Data
      <4>2. QED
        BY <3>3, <4>1
    <3>5. running /\ timeouts = {}
      BY <1>1, <2>2, <3>3, <3>4 DEF OneLink, Rearms, Own
    <3>6. lastScheduledSlot <= now + Early
      BY <1>1, <3>2, <3>5 DEF OnTime
    <3>7. PICK k \in Calls : fired[k].slot = lastScheduledSlot /\ fired[k].life = starts
      BY <3>5 DEF BoundariesFired
    <3>8. \A t \in timeouts' : t.slot = NextMs
      BY <1>1, <3>1, Armed
    <3>9. \A due \in (now + 1)..(NextMs - 1) : Boundary(due) => due = lastScheduledSlot
      BY <1>1, <3>6, BoundariesSkipped DEF BoundariesFired
    <3>10. QED
      BY <3>7, <3>8, <3>9 DEF Boundary
  <2>3. CASE ~Rearms(i)
    BY <1>3, <1>8, <2>1, <2>3 DEF JobSettles, chainVars
  <2>4. QED
    BY <2>2, <2>3
<1>9. CASE Tick
  <2>1. now' = now + 1 /\ UNCHANGED <<crossed, steps, fired, starts>>
    BY <1>9, Zenon DEF Tick, callVars, lifeVars
  <2>2. \A u \in timeouts' : \E t \in timeouts : u.slot = t.slot
    BY <1>1, <1>9, TickTimeouts
  <2>3. now \in Nat /\ \A t \in timeouts : t.slot \in Nat
    BY <1>1 DEF Data, Timeout
  <2>4. \A t \in timeouts : (now' + 1)..(t.slot - 1) \subseteq (now + 1)..(t.slot - 1)
    BY <2>1, <2>3
  <2>5. QED
    BY <2>1, <2>2, <2>4 DEF NextBoundaryArmed, Calls
<1>10. ASSUME NEW to \in 1..MaxNow, ClockIsSet(to)
      PROVE  NextBoundaryArmed'
  <2>1. steps' = steps + 1 /\ steps \in Nat
    BY <1>1, <1>10 DEF ClockIsSet, Data
  <2>2. QED
    BY <2>1 DEF NextBoundaryArmed
<1>11. CASE UNCHANGED vars
  BY <1>3, <1>11 DEF vars
<1>12. QED
  BY <1>4, <1>5, <1>6, <1>7, <1>8, <1>9, <1>10, <1>11
  DEF Next, SomeTimeoutFires, SomeJobSettles

(* A running scheduler that waits has fired every boundary between now and *)
(* its timeout in this life, so that none is skipped, not after stop() and *)
(* restart either (scheduler.test.ts:98): the clock was never set and no   *)
(* run of an earlier life has re-armed the timeout.                        *)
THEOREM NextBoundaryArmedInvariant ==
    ASSUME DelaysHeld
    PROVE  Spec => []NextBoundaryArmed
<1>1. Init => BoundariesFired
  <2>1. 0 % Interval = 0
    BY IntervalAssumption
  <2>2. QED
    BY <2>1 DEF Init, BoundariesFired, Boundary
<1>2. Init => NextBoundaryArmed
  BY DEF Init, NextBoundaryArmed
<1>3. Punctual /\ BoundariesFired /\ [Next]_vars => BoundariesFired'
  BY BoundariesFiredPreserved DEF Punctual, Chain
<1>4. QED
  BY <1>1, <1>2, <1>3, PunctualInvariant, NextBoundaryArmedPreserved, PTL DEF Spec
-----------------------------------------------------------------------------
(* The scheduler, the pipeline and time together.                          *)

(* What each step is for the scheduler: one of its own, or the exit.       *)
LEMMA SchedulerStep == [MonitorNext]_monitorVars => [Next]_vars \/ Crash
<1> SUFFICES ASSUME [MonitorNext]_monitorVars PROVE [Next]_vars \/ Crash
  OBVIOUS
<1>1. CASE Boot
  BY <1>1 DEF Boot, Next
<1>2. CASE BoundaryFires
  BY <1>2 DEF BoundaryFires, Next, SomeTimeoutFires
<1>3. ASSUME NEW i \in active, JobReturns(i)
      PROVE  [Next]_vars
  BY <1>3 DEF JobReturns, Next, SomeJobSettles
<1>4. CASE TimePasses
  BY <1>4 DEF TimePasses, Next
<1>5. CASE UNCHANGED vars
  BY <1>5
<1>6. CASE UNCHANGED monitorVars
  BY <1>6 DEF monitorVars, vars
<1>7. QED
  BY <1>1, <1>2, <1>3, <1>4, <1>5, <1>6
  DEF MonitorNext, CronTicks, RunContinues, StatementContinues, Restart

-----------------------------------------------------------------------------
(* The scheduler of a process that exits and is started again.             *)
Boundaries == Boundary(lastScheduledSlot)
Punctually == Data /\ OneTimer /\ ChainPerStart /\ OnTime /\ Boundaries /\ steps = 0

LEMMA CrashResets ==
    Punctually /\ Crash => Punctually'
<1> SUFFICES ASSUME Punctually, Crash PROVE Punctually'
  OBVIOUS
<1>1. /\ running' = FALSE /\ timer' = 0 /\ timeouts' = {}
      /\ lastScheduledSlot' = 0 /\ nextRunAt' = 0 /\ active' = {} /\ inFlight' = {}
      /\ UNCHANGED <<now, steps, armed, fired, awaiting, starts>>
  BY Zenon DEF Crash
<1>2. Data'
  BY <1>1 DEF Punctually, Data, Calls
<1>3. OneTimer' /\ OnTime'
  BY <1>1 DEF OneTimer, OnTime
<1>4. ChainPerStart'
  <2>1. ChainCalls' = {} /\ Pending' = 0
    BY <1>1 DEF ChainCalls, Pending
  <2>2. Chains' = 0 /\ Chains \in Nat /\ starts \in Nat /\ (Pending = 0 \/ Pending = 1)
    BY <2>1, FS_EmptySet, ChainCallsFinite DEF Chains, Pending, Punctually, Data
  <2>3. QED
    BY <1>1, <2>1, <2>2 DEF ChainPerStart, Punctually
<1>5. Boundaries'
  BY <1>1, MultipleIsBoundary, IntervalAssumption DEF Boundaries, Boundary
<1>6. QED
  BY <1>1, <1>2, <1>3, <1>4, <1>5 DEF Punctually

LEMMA BoundariesPreserved == Data /\ Boundaries /\ [Next]_vars => Boundaries'
<1> SUFFICES ASSUME Data, Boundaries, [Next]_vars PROVE Boundaries'
  OBVIOUS
<1>1. CASE ScheduleNext
  BY <1>1, NextMsIsBoundary DEF ScheduleNext, Boundaries
<1>2. CASE lastScheduledSlot' = 0
  BY <1>2, IntervalAssumption DEF Boundaries, Boundary
<1>3. CASE UNCHANGED lastScheduledSlot
  BY <1>3 DEF Boundaries
<1>4. QED
  BY <1>1, <1>2, <1>3, Zenon
  DEF Next, SomeTimeoutFires, SomeJobSettles, Start, StopCall, StopReturns, TimeoutFires,
      JobSettles, Tick, ClockIsSet, NoSlotYet, chainVars, vars

LEMMA PunctuallyInvariant ==
    ASSUME DelaysHeld
    PROVE  MonitorSpec => []Punctually
<1>1. MonitorInit => Punctually
  <2> SUFFICES ASSUME MonitorInit PROVE Punctually
    OBVIOUS
  <2>1. Init
    BY DEF MonitorInit
  <2>2. Data /\ OneTimer
    BY <2>1, IntervalAssumption, BoundsAssumption DEF Init, Data, Calls, OneTimer
  <2>3. Chains = 0 /\ Pending = 0 /\ starts = 0
    BY <2>1, FS_EmptySet DEF Init, Chains, ChainCalls, Pending
  <2>4. ChainPerStart
    BY <2>3, BoundsAssumption DEF ChainPerStart
  <2>5. OnTime /\ steps = 0 /\ Boundaries
    BY <2>1, IntervalAssumption DEF Init, OnTime, Boundaries, Boundary
  <2>6. QED
    BY <2>2, <2>4, <2>5 DEF Punctually
<1>2. Punctually /\ [MonitorNext]_monitorVars => Punctually'
  <2> SUFFICES ASSUME Punctually, [MonitorNext]_monitorVars PROVE Punctually'
    OBVIOUS
  <2>1. steps' = steps
    BY Zenon
    DEF MonitorNext, monitorVars, Boot, Start, BoundaryFires, TimeoutFires, CronTicks, JobReturns,
        JobSettles, RunContinues, StatementContinues, Crash, Restart, TimePasses, Tick, vars,
        clockVars
  <2>2. CASE Crash
    BY <2>2, CrashResets
  <2>3. CASE [Next]_vars
    BY <2>1, <2>3, DataPreserved, OneTimerPreserved, ChainPerStartPreserved, OnTimePreserved,
       BoundariesPreserved
    DEF Punctually
  <2>4. QED
    BY <2>2, <2>3, SchedulerStep
<1>3. QED
  BY <1>1, <1>2, PTL DEF MonitorSpec
-----------------------------------------------------------------------------
(* A call of runSlot takes a fresh run and touches no other.               *)
LEMMA CallEffect ==
    ASSUME Pipe!TypeOK, NEW s \in Slots, CallRunSlot(s)
    PROVE  \E r \in Run :
             /\ r = NextRun /\ pc[r] = "idle" /\ Api \in up
             /\ slot' = [slot EXCEPT ![r] = s]
             /\ pc'[r] \in {"checking", "in_flight"} /\ pc' = [pc EXCEPT ![r] = pc'[r]]
             /\ owed' = owed \cup {s}
             /\ UNCHANGED <<up, stmt, rowId, rows, nextId>>
             /\ Pipe!TypeOK'
<1>1. PICK r \in Run : r = NextRun
  BY DEF CallRunSlot
<1>2. pc[r] = "idle" /\ Api \in up
  BY <1>1 DEF CallRunSlot, Pipe!RunSlot, Pipe!SkipInFlight, Pipe!Call
<1>3. /\ slot' = [slot EXCEPT ![r] = s] /\ owed' = owed \cup {s}
      /\ host' = [host EXCEPT ![r] = Api]
      /\ UNCHANGED <<up, stmt, rowId, rows, nextId, published, probed, faults>>
  BY <1>1 DEF CallRunSlot, Pipe!RunSlot, Pipe!SkipInFlight, Pipe!Call, Pipe!dbVars
<1>4. /\ inFlightSlots' = inFlightSlots
         \/ inFlightSlots' = [inFlightSlots EXCEPT ![Api] = @ \cup {s}]
      /\ pc' = [pc EXCEPT ![r] = "checking"] \/ pc' = [pc EXCEPT ![r] = "in_flight"]
  BY <1>1 DEF CallRunSlot, Pipe!RunSlot, Pipe!SkipInFlight
<1>5. pc'[r] \in {"checking", "in_flight"} /\ pc' = [pc EXCEPT ![r] = pc'[r]]
  BY <1>4 DEF Pipe!TypeOK
<1>6. Pipe!TypeOK'
  <2>1. inFlightSlots' \in [{Api} -> SUBSET Slots]
    BY <1>4 DEF Pipe!TypeOK
  <2>2. pc' \in [Run -> Pipe!Stage]
    BY <1>4 DEF Pipe!TypeOK, Pipe!Stage, Pipe!Active, Pipe!Settled
  <2>3. slot' \in [Run -> Slots \cup {NoSlot}] /\ host' \in [Run -> {Api}]
    BY <1>3 DEF Pipe!TypeOK
  <2>4. QED
    BY <1>3, <2>1, <2>2, <2>3 DEF Pipe!TypeOK
<1>7. QED
  BY <1>1, <1>2, <1>3, <1>5, <1>6
-----------------------------------------------------------------------------
(* Whatever the time, the slots that can be asked for are those of the     *)
(* model.                                                                  *)
InBounds == now <= MaxNow \/ now <= Interval

LEMMA SlotsInReach ==
    ASSUME now \in Nat, InBounds, NEW s \in Nat, Boundary(s), s <= now + Early
    PROVE  s \in Slots
<1> USE IntervalAssumption, EarlyAssumption, BoundsAssumption
<1>1. s <= MaxNow + Interval
  <2>1. CASE now <= MaxNow
    BY <2>1
  <2>2. CASE now <= Interval
    <3>1. Boundary(Interval)
      BY DEF Boundary
    <3>2. Interval < s => Interval + Interval <= s
      BY <3>1, BoundariesApart
    <3>3. QED
      BY <2>2, <3>2
  <2>3. QED
    BY <2>1, <2>2 DEF InBounds
<1>2. QED
  BY <1>1 DEF Slots, Boundary

(* Whoever calls runSlot, the start, a timeout or the cron, asks for a slot*)
(* that has begun or is about to.                                          *)
Asked(s) == s \in Slots /\ s <= now + Early /\ CallRunSlot(s) /\ now' = now

LEMMA CalledInTime ==
    ASSUME Punctually, InBounds, [MonitorNext]_monitorVars
    PROVE  \/ \E s \in Slots : Asked(s)
           \/ UNCHANGED pipeVars /\ UNCHANGED <<now, owed>>
           \/ TimePasses \/ UNCHANGED monitorVars
           \/ \E r \in Run : RunContinues(r) \/ StatementContinues(r)
           \/ Crash \/ Restart
<1> USE DEF Punctually
<1>1. now \in Nat /\ lastScheduledSlot \in Nat /\ Early \in Nat
  BY IntervalAssumption, EarlyAssumption DEF Data
<1>2. SlotStartFor(now) \in Slots /\ SlotStartFor(now) <= now + Early
  <2>1. SlotStartFor(now) \in Nat /\ SlotStartFor(now) <= now /\ Boundary(SlotStartFor(now))
    BY <1>1, SlotArithmetic, BoundariesOfSlots
  <2>2. SlotStartFor(now) <= now + Early
    BY <1>1, <2>1
  <2>3. QED
    BY <1>1, <2>1, <2>2, SlotsInReach
<1>3. CASE Boot
  <2>1. /\ now' = now
        /\ (UNCHANGED pipeVars /\ UNCHANGED owed) \/ CallRunSlot(SlotStartFor(now))
    BY <1>3, Zenon DEF Boot, Start, Job, clockVars
  <2>2. QED
    BY <1>2, <1>3, <2>1 DEF Asked
<1>4. CASE BoundaryFires
  <2>1. PICK t \in timeouts : TimeoutFires(t) /\ Job(t.slot)
    BY <1>4 DEF BoundaryFires
  <2>2. /\ running /\ t.slot = lastScheduledSlot /\ t.left <= Early /\ now' = now
        /\ t.left \in Nat
    BY <2>1, TimeoutEffect DEF Data, Timeout
  <2>3. t.slot <= now + t.left
    BY <2>1, <2>2 DEF OnTime
  <2>4. t.slot <= now + Early /\ t.slot \in Nat /\ Boundary(t.slot)
    BY <1>1, <2>2, <2>3 DEF Boundaries
  <2>5. t.slot \in Slots
    BY <1>1, <2>4, SlotsInReach
  <2>6. QED
    BY <2>1, <2>2, <2>4, <2>5 DEF Job, Asked
<1>5. CASE CronTicks
  <2>1. now' = now /\ CallRunSlot(SlotStartFor(now))
    BY <1>5 DEF CronTicks, TickedSlot, vars
  <2>2. QED
    BY <1>2, <2>1 DEF Asked
<1>6. ASSUME NEW i \in active, JobReturns(i)
      PROVE  UNCHANGED pipeVars /\ UNCHANGED <<now, owed>>
  BY <1>6, Zenon DEF JobReturns, JobSettles, clockVars
<1>7. QED
  BY <1>3, <1>4, <1>5, <1>6 DEF MonitorNext
-----------------------------------------------------------------------------
(* The pipeline of the one process, as far as the schedule depends on it:  *)
(* every call is for a slot that has begun or is about to, and the rows    *)
(* are those of the committed statements, each with an id of its own.      *)
Numbered(r) == stmt[r] \in {"numbered", "committed"}

RunsInTime ==
    \A r \in Run : pc[r] # "idle" => slot[r] \in Slots /\ slot[r] <= now + Early

RowsOfStatements ==
    /\ \A r \in Run :
          pc[r] \in {"idle", "checking", "probing", "in_flight"} => stmt[r] = "none"
    /\ \A r \in Run : Numbered(r) => rowId[r] < nextId
    /\ \A r, q \in Run : Numbered(r) /\ Numbered(q) /\ rowId[r] = rowId[q] => r = q
    /\ \A row \in rows : \E r \in Run : stmt[r] = "committed" /\ row.id = rowId[r]

Recording == Pipe!TypeOK /\ RunsInTime /\ RowsOfStatements

LEMMA AskedRecording ==
    ASSUME now \in Nat, Recording, NEW s \in Slots, Asked(s)
    PROVE  Recording'
<1>1. Pipe!TypeOK
  BY DEF Recording
<1>2. PICK r \in Run :
        /\ pc[r] = "idle"
        /\ slot' = [slot EXCEPT ![r] = s]
        /\ pc'[r] \in {"checking", "in_flight"} /\ pc' = [pc EXCEPT ![r] = pc'[r]]
        /\ UNCHANGED <<stmt, rowId, rows, nextId>>
        /\ Pipe!TypeOK'
  BY <1>1, CallEffect DEF Asked
<1>3. slot \in [Run -> Slots \cup {NoSlot}] /\ pc \in [Run -> Pipe!Stage]
  BY <1>1 DEF Pipe!TypeOK
<1>4. RunsInTime'
  BY <1>2, <1>3 DEF Recording, RunsInTime, Asked
<1>5. RowsOfStatements'
  BY <1>2, <1>3 DEF Recording, RowsOfStatements, Numbered
<1>6. QED
  BY <1>2, <1>4, <1>5 DEF Recording

(* The steps of a run: none changes a row, an id or a slot.                *)
LEMMA RunRecording ==
    ASSUME Recording, NEW r \in Run, Pipe!RunStep(r), now' = now
    PROVE  Recording' /\ rows' = rows
<1> USE DEF Pipe!TypeOK, Pipe!Stage, Pipe!Statement, Pipe!Active, Pipe!Settled,
            Pipe!clientVars, Pipe!dbVars, Pipe!Fault
<1> DEFINE Goal == Recording' /\ rows' = rows
<1>1. ASSUME NEW outcome \in Pipe!Settled \ {"in_flight"}, pc[r] # "idle",
             Pipe!Leave(r, outcome), UNCHANGED Pipe!dbVars,
             published' \in [{Api} -> Seq(Nat)], probed' = probed,
             faults' \in 0..MaxFaults
      PROVE  Goal
  <2>1. Pipe!TypeOK' /\ rows' = rows
    BY <1>1 DEF Pipe!Leave, Recording
  <2>2. RunsInTime' /\ RowsOfStatements'
    BY <1>1 DEF Pipe!Leave, Recording, RunsInTime, RowsOfStatements, Numbered
  <2>3. QED
    BY <2>1, <2>2 DEF Recording
<1>2. published \in [{Api} -> Seq(Nat)] /\ faults \in 0..MaxFaults
  BY DEF Recording
<1>3. Pipe!Fault => faults' \in 0..MaxFaults
  BY <1>2, MonitorBoundsAssumption
<1>4. CASE Pipe!CheckHit(r)
  BY <1>1, <1>2, <1>4 DEF Pipe!CheckHit
<1>5. CASE Pipe!CheckMiss(r)
  BY <1>5 DEF Pipe!CheckMiss, Recording, RunsInTime, RowsOfStatements, Numbered
<1>6. CASE Pipe!CheckFails(r)
  BY <1>1, <1>2, <1>3, <1>6 DEF Pipe!CheckFails
<1>7. CASE Pipe!ProbeSettles(r)
  BY <1>7 DEF Pipe!ProbeSettles, Recording, RunsInTime, RowsOfStatements, Numbered
<1>8. CASE Pipe!InsertReturnsRow(r)
  <2>1. published' \in [{Api} -> Seq(Nat)]
    <3>1. Append(published[host[r]], rowId[r]) \in Seq(Nat)
      BY DEF Recording
    <3>2. QED
      BY <1>2, <1>8, <3>1 DEF Pipe!InsertReturnsRow
  <2>2. QED
    BY <1>1, <1>2, <1>8, <2>1 DEF Pipe!InsertReturnsRow
<1>9. CASE Pipe!InsertReturnsNull(r)
  BY <1>1, <1>2, <1>9 DEF Pipe!InsertReturnsNull
<1>10. CASE Pipe!InsertRejects(r)
  BY <1>1, <1>2, <1>3, <1>10 DEF Pipe!InsertRejects
<1>11. QED
  BY <1>4, <1>5, <1>6, <1>7, <1>8, <1>9, <1>10 DEF Pipe!RunStep

(* The steps of a statement: Commit adds the row of a slot that has none,  *)
(* in its time and with an id no row has.                                  *)
NewRow(row) ==
    /\ rows' = rows \cup {row}
    /\ row.slot \in Slots /\ row.slot <= now + Early
    /\ \A other \in rows : other.slot # row.slot /\ other.id # row.id

LEMMA StatementRecording ==
    ASSUME Recording, NEW r \in Run, Pipe!DbStep(r), now' = now
    PROVE  /\ Recording'
           /\ rows' = rows \/ (stmt'[r] = "committed" /\ \E row : NewRow(row))
<1> USE DEF Pipe!TypeOK, Pipe!Stage, Pipe!Statement, Pipe!Active, Pipe!Settled,
            Pipe!clientVars, Pipe!dbVars, Pipe!Fault
<1>1. CASE Pipe!DrawId(r)
  <2>1. Pipe!TypeOK' /\ RunsInTime' /\ rows' = rows
    BY <1>1 DEF Pipe!DrawId, Recording, RunsInTime
  <2>2. /\ nextId \in Nat /\ nextId' = nextId + 1 /\ rows' = rows /\ pc' = pc
        /\ stmt[r] = "sent" /\ stmt'[r] = "numbered" /\ rowId'[r] = nextId
        /\ \A q \in Run \ {r} : stmt'[q] = stmt[q] /\ rowId'[q] = rowId[q]
        /\ \A q \in Run : rowId[q] \in Nat
    BY <1>1 DEF Pipe!DrawId, Recording
  <2>3. RowsOfStatements
    BY DEF Recording
  <2>4. RowsOfStatements'
    BY <2>2, <2>3 DEF RowsOfStatements, Numbered
  <2>5. QED
    BY <2>1, <2>4 DEF Recording
<1>2. CASE Pipe!Commit(r)
  <2> DEFINE row == [id |-> rowId[r], slot |-> slot[r]]
  <2>1. pc[r] # "idle" /\ stmt[r] = "numbered" /\ rows' = rows \cup {row}
    BY <1>2 DEF Pipe!Commit, Recording, RowsOfStatements
  <2>2. slot[r] \in Slots /\ slot[r] <= now + Early
    BY <2>1 DEF Recording, RunsInTime
  <2>3. \A other \in rows : other.slot # slot[r]
    BY <1>2, <2>2 DEF Pipe!Commit, Pipe!Recorded, Slots, NoSlot
  <2>4. \A other \in rows : other.id # rowId[r]
    BY <2>1 DEF Recording, RowsOfStatements, Numbered
  <2>5. NewRow(row)
    BY <2>1, <2>2, <2>3, <2>4 DEF NewRow
  <2>6. Pipe!TypeOK' /\ RunsInTime'
    BY <1>2 DEF Pipe!Commit, Pipe!Row, Recording, RunsInTime
  <2>7. RowsOfStatements' /\ stmt'[r] = "committed"
    BY <1>2, <2>1 DEF Pipe!Commit, Recording, RowsOfStatements, Numbered
  <2>8. QED
    BY <2>5, <2>6, <2>7 DEF Recording
<1>3. CASE Pipe!Conflict(r)
  BY <1>3 DEF Pipe!Conflict, Recording, RunsInTime, RowsOfStatements, Numbered
<1>4. CASE Pipe!LoseStatement(r)
  BY <1>4, MonitorBoundsAssumption
  DEF Pipe!LoseStatement, Recording, RunsInTime, RowsOfStatements, Numbered
<1>5. QED
  BY <1>1, <1>2, <1>3, <1>4 DEF Pipe!DbStep

(* The exit and the restart of the process, and the time that passes.      *)
LEMMA ProcessRecording ==
    ASSUME Recording, Pipe!Crash(Api) \/ Pipe!Restart(Api), now' = now
    PROVE  Recording' /\ rows' = rows
<1> USE DEF Pipe!TypeOK, Pipe!Stage, Pipe!Statement, Pipe!Active, Pipe!Settled,
            Pipe!clientVars, Pipe!dbVars, Pipe!Fault
<1>1. CASE Pipe!Crash(Api)
  BY <1>1, MonitorBoundsAssumption
  DEF Pipe!Crash, Recording, RunsInTime, RowsOfStatements, Numbered
<1>2. CASE Pipe!Restart(Api)
  BY <1>2 DEF Pipe!Restart, Recording, RunsInTime, RowsOfStatements, Numbered
<1>3. QED
  BY <1>1, <1>2

LEMMA TimeRecording ==
    ASSUME Recording, UNCHANGED pipeVars, now \in Nat, now' \in Nat, now <= now'
    PROVE  Recording' /\ rows' = rows
<1>1. Pipe!TypeOK' /\ RowsOfStatements' /\ rows' = rows
  BY DEF pipeVars, Recording, Pipe!TypeOK, RowsOfStatements, Numbered
<1>2. RunsInTime'
  <2> SUFFICES ASSUME NEW r \in Run, pc'[r] # "idle"
               PROVE  slot'[r] \in Slots /\ slot'[r] <= now' + Early
    BY DEF RunsInTime
  <2>1. slot' = slot /\ pc' = pc
    BY DEF pipeVars
  <2>2. slot[r] \in Slots /\ slot[r] <= now + Early
    BY <2>1 DEF Recording, RunsInTime
  <2>3. slot[r] \in Nat /\ Early \in Nat
    BY <2>2, IntervalAssumption, EarlyAssumption, BoundsAssumption DEF Slots
  <2>4. QED
    BY <2>1, <2>2, <2>3
<1>3. QED
  BY <1>1, <1>2 DEF Recording
-----------------------------------------------------------------------------
Sound == Punctually /\ InBounds /\ Recording

LEMMA TimeBounded ==
    ASSUME Punctually, InBounds, [MonitorNext]_monitorVars
    PROVE  /\ InBounds' /\ now \in Nat /\ now' \in Nat /\ now <= now'
           /\ ~TimePasses => now' = now
<1>1. now \in Nat /\ MaxNow \in Nat
  BY BoundsAssumption DEF Punctually, Data
<1>2. now' = now \/ TimePasses
  BY Zenon
  DEF MonitorNext, monitorVars, Boot, Start, BoundaryFires, TimeoutFires, CronTicks, JobReturns,
      JobSettles, RunContinues, StatementContinues, Crash, Restart, vars, clockVars
<1>3. TimePasses => now < MaxNow /\ now' = now + 1
  BY Zenon DEF TimePasses, Tick
<1>4. QED
  BY <1>1, <1>2, <1>3, IntervalAssumption DEF InBounds

LEMMA RecordingPreserved == Sound /\ [MonitorNext]_monitorVars => Recording'
<1> SUFFICES ASSUME Sound, [MonitorNext]_monitorVars PROVE Recording'
  OBVIOUS
<1> USE DEF Sound
<1>1. InBounds' /\ now \in Nat /\ now' \in Nat /\ now <= now' /\ (~TimePasses => now' = now)
  BY TimeBounded
<1>2. ASSUME NEW s \in Slots, Asked(s) PROVE Recording'
  BY <1>1, <1>2, AskedRecording
<1>3. CASE UNCHANGED pipeVars
  BY <1>1, <1>3, TimeRecording
<1>4. ASSUME NEW r \in Run, RunContinues(r) PROVE Recording'
  <2>1. now' = now /\ Pipe!RunStep(r)
    BY <1>4 DEF RunContinues, vars
  <2>2. QED
    BY <2>1, RunRecording
<1>5. ASSUME NEW r \in Run, StatementContinues(r) PROVE Recording'
  <2>1. now' = now /\ Pipe!DbStep(r)
    BY <1>5 DEF StatementContinues, vars
  <2>2. QED
    BY <2>1, StatementRecording
<1>6. CASE Crash \/ Restart
  <2>1. now' = now /\ (Pipe!Crash(Api) \/ Pipe!Restart(Api))
    BY <1>6, Zenon DEF Crash, Restart, vars
  <2>2. QED
    BY <2>1, ProcessRecording
<1>7. TimePasses \/ UNCHANGED monitorVars => UNCHANGED pipeVars
  BY DEF TimePasses, monitorVars, pipeVars
<1>8. QED
  BY <1>2, <1>3, <1>4, <1>5, <1>6, <1>7, CalledInTime

LEMMA SoundInvariant ==
    ASSUME DelaysHeld
    PROVE  MonitorSpec => []Sound
<1>1. MonitorInit => InBounds /\ Recording
  <2> SUFFICES ASSUME MonitorInit PROVE InBounds /\ Recording
    OBVIOUS
  <2>1. InBounds
    BY IntervalAssumption, BoundsAssumption DEF MonitorInit, Init, InBounds
  <2>2. Pipe!TypeOK
    BY MonitorBoundsAssumption
    DEF MonitorInit, Pipe!Init, Pipe!TypeOK, Pipe!Stage, Pipe!Statement
  <2>3. RunsInTime /\ RowsOfStatements
    BY DEF MonitorInit, Pipe!Init, RunsInTime, RowsOfStatements, Numbered
  <2>4. QED
    BY <2>1, <2>2, <2>3 DEF Recording
<1>2. Sound /\ [MonitorNext]_monitorVars => (InBounds /\ Recording)'
  BY TimeBounded, RecordingPreserved DEF Sound
<1>3. QED
  BY <1>1, <1>2, PunctuallyInvariant, PTL DEF MonitorSpec, Sound
-----------------------------------------------------------------------------
(* ADR-0004, "one ping per slot whoever triggers it", for every interval   *)
(* and every number of calls, ticks, crashes and restarts: each step of    *)
(* the monitoring is one of the schedule or changes nothing it tells of.   *)
THEOREM ScheduleImplemented ==
    ASSUME DelaysHeld
    PROVE  MonitorSpec => ImplementsSchedule
<1>1. MonitorInit => Promise!Init
  BY IntervalAssumption DEF MonitorInit, Init, Pipe!Init, Promise!Init
<1>2. Sound /\ [MonitorNext]_monitorVars => [Promise!Next]_(Promise!vars)
  <2> SUFFICES ASSUME Sound, [MonitorNext]_monitorVars
               PROVE  [Promise!Next]_(Promise!vars)
    OBVIOUS
  <2> USE DEF Sound
  <2>1. /\ InBounds' /\ now \in Nat /\ now' \in Nat /\ now <= now'
        /\ ~TimePasses => now' = now
    BY TimeBounded
  <2>2. Slots \subseteq Promise!Slot
    BY IntervalAssumption, BoundsAssumption DEF Slots, Promise!Slot
  <2>3. ASSUME UNCHANGED <<now, rows, owed>> PROVE UNCHANGED Promise!vars
    BY <2>3 DEF Promise!vars
  <2>4. ASSUME owed' \subseteq owed, UNCHANGED <<now, rows>> PROVE Promise!Next
    BY <2>4 DEF Promise!Next, Promise!GiveUp
  <2>5. ASSUME NEW s \in Slots, Asked(s)
        PROVE  [Promise!Next]_(Promise!vars)
    <3>1. /\ owed' = owed \cup {s} /\ rows' = rows /\ now' = now
          /\ s \in Promise!Slot /\ s <= now + Early
      BY <2>2, <2>5, CallEffect DEF Asked, Recording
    <3>2. CASE s \in owed
      BY <2>3, <3>1, <3>2
    <3>3. CASE s \notin owed
      <4>1. s \in owed' \ owed /\ Promise!Undertake(s)
        BY <3>1, <3>3 DEF Promise!Undertake
      <4>2. QED
        BY <4>1 DEF Promise!Next
    <3>4. QED
      BY <3>2, <3>3
  <2>6. CASE UNCHANGED pipeVars /\ UNCHANGED <<now, owed>>
    BY <2>3, <2>6 DEF pipeVars
  <2>7. CASE TimePasses
    <3>1. /\ now' = now + 1 /\ rows' = rows
          /\ owed' = owed \/ (owed' = owed \cup {now'} /\ now' \in Slots)
      BY <2>7 DEF TimePasses, Tick, pipeVars
    <3>2. Promise!Advance
      BY <2>2, <3>1 DEF Promise!Advance
    <3>3. QED
      BY <3>2 DEF Promise!Next
  <2>8. ASSUME NEW r \in Run, RunContinues(r) PROVE Promise!Next
    <3>1. Pipe!RunStep(r) /\ now' = now /\ owed' \subseteq owed
      BY <2>8 DEF RunContinues, OwedAfter, vars
    <3>2. rows' = rows
      BY <3>1, RunRecording
    <3>3. QED
      BY <2>4, <3>1, <3>2
  <2>9. ASSUME NEW r \in Run, StatementContinues(r) PROVE Promise!Next
    <3>1. Pipe!DbStep(r) /\ now' = now /\ owed' \subseteq owed
      BY <2>9 DEF StatementContinues, OwedAfter, vars
    <3>2. CASE rows' = rows
      BY <2>4, <3>1, <3>2
    <3>3. ASSUME NEW row, NewRow(row), stmt'[r] = "committed"
          PROVE  Promise!Next
      <4>1. UNCHANGED owed
        BY <2>9, <3>3 DEF StatementContinues, OwedAfter
      <4>2. row.slot \in Promise!Slot /\ row \in rows' \ rows
        BY <2>2, <3>3 DEF NewRow
      <4>3. Promise!Record(row)
        BY <3>1, <3>3, <4>1, <4>2 DEF NewRow, Promise!Record
      <4>4. QED
        BY <4>2, <4>3 DEF Promise!Next
    <3>4. QED
      BY <3>1, <3>2, <3>3, StatementRecording
  <2>10. CASE Crash \/ Restart
    <3>1. now' = now /\ (Pipe!Crash(Api) \/ Pipe!Restart(Api))
      BY <2>10, Zenon DEF Crash, Restart, vars
    <3>2. owed' \subseteq owed
      BY <2>10 DEF Crash, Restart
    <3>3. rows' = rows
      BY <3>1, ProcessRecording
    <3>4. QED
      BY <2>4, <3>1, <3>2, <3>3
  <2>11. CASE UNCHANGED monitorVars
    BY <2>3, <2>11 DEF monitorVars
  <2>12. QED
    BY <2>5, <2>6, <2>7, <2>8, <2>9, <2>10, <2>11, CalledInTime
<1>3. QED
  BY <1>1, <1>2, SoundInvariant, PTL DEF MonitorSpec, ImplementsSchedule, Promise!Spec
-----------------------------------------------------------------------------
(* Each call of fire() has the run it made, for the same slot, and the     *)
(* scheduler runs only in a process that is up.                            *)
RunsOfCalls ==
    /\ runOf \in Seq(Run) /\ Len(runOf) = Len(fired)
    /\ \A i \in Calls : pc[runOf[i]] # "idle" /\ slot[runOf[i]] = fired[i].slot

RunsWhileUp == running => Api \in up

LEMMA RunsKept ==
    ASSUME Sound, [MonitorNext]_monitorVars, NEW r \in Run, pc[r] # "idle"
    PROVE  pc'[r] # "idle" /\ slot'[r] = slot[r]
<1>1. pc \in [Run -> Pipe!Stage] /\ slot \in [Run -> Slots \cup {NoSlot}]
  BY DEF Sound, Recording, Pipe!TypeOK
<1>2. ASSUME NEW s \in Slots, Asked(s) PROVE pc'[r] # "idle" /\ slot'[r] = slot[r]
  BY <1>1, <1>2, CallEffect DEF Asked, Sound, Recording
<1>3. CASE UNCHANGED pipeVars
  BY <1>3 DEF pipeVars
<1>4. ASSUME NEW q \in Run, RunContinues(q) PROVE pc'[r] # "idle" /\ slot'[r] = slot[r]
  BY <1>1, <1>4
  DEF RunContinues, Pipe!RunStep, Pipe!CheckHit, Pipe!CheckMiss, Pipe!CheckFails,
      Pipe!ProbeSettles, Pipe!InsertReturnsRow, Pipe!InsertReturnsNull, Pipe!InsertRejects,
      Pipe!Leave
<1>5. ASSUME NEW q \in Run, StatementContinues(q) PROVE pc'[r] # "idle" /\ slot'[r] = slot[r]
  BY <1>1, <1>5
  DEF StatementContinues, Pipe!DbStep, Pipe!DrawId, Pipe!Commit, Pipe!Conflict,
      Pipe!LoseStatement, Pipe!clientVars
<1>6. CASE Crash \/ Restart
  BY <1>1, <1>6 DEF Crash, Restart, Pipe!Crash, Pipe!Restart, Pipe!clientVars
<1>7. TimePasses \/ UNCHANGED monitorVars => UNCHANGED pipeVars
  BY DEF TimePasses, monitorVars, pipeVars
<1>8. QED
  BY <1>2, <1>3, <1>4, <1>5, <1>6, <1>7, CalledInTime DEF Sound

(* A step calls the job, for the slot it fires, or fires nothing.          *)
LEMMA JobOfCall ==
    ASSUME Data, OneTimer, [MonitorNext]_monitorVars
    PROVE  \/ UNCHANGED <<fired, runOf>>
           \/ \E s, chain, life : Called(s, chain, life) /\ Job(s)
<1>1. CASE Boot
  <2>1. CASE RunOnStart
    <3>1. Job(SlotStartFor(now)) /\ Start /\ ~ UNCHANGED callVars
      <4>1. Start /\ Job(SlotStartFor(now))
        BY <1>1, <2>1 DEF Boot
      <4>2. fired' # fired
        <5>1. Fire(SlotStartFor(now), FALSE, starts')
          BY <4>1, <2>1 DEF Start
        <5>2. Len(fired) \in Nat /\ fired \in Seq(Firing)
          BY DEF Data
        <5>3. fired' = Append(fired, [slot |-> SlotStartFor(now), chain |-> FALSE, life |-> starts'])
          BY <5>1 DEF Fire
        <5>4. Len(fired') = Len(fired) + 1
          BY <5>2, <5>3
        <5>5. QED
          BY <5>2, <5>4
      <4>3. QED
        BY <4>1, <4>2 DEF callVars
    <3>2. Called(SlotStartFor(now), FALSE, starts + 1)
      BY <3>1, StartEffect
    <3>3. QED
      BY <3>1, <3>2
  <2>2. CASE ~RunOnStart
    BY <1>1, <2>2, Zenon DEF Boot, Start, callVars
  <2>3. QED
    BY <2>1, <2>2
<1>2. CASE BoundaryFires
  <2>1. PICK t \in timeouts : TimeoutFires(t) /\ Job(t.slot)
    BY <1>2 DEF BoundaryFires
  <2>2. Called(t.slot, TRUE, starts)
    BY <2>1, TimeoutEffect
  <2>3. QED
    BY <2>1, <2>2
<1>3. ~Boot /\ ~BoundaryFires => UNCHANGED <<fired, runOf>>
  BY Zenon
  DEF MonitorNext, monitorVars, CronTicks, JobReturns, JobSettles, RunContinues,
      StatementContinues, Crash, Restart, TimePasses, Tick, vars, callVars
<1>4. QED
  BY <1>1, <1>2, <1>3

LEMMA RunsOfCallsPreserved ==
    Sound /\ RunsOfCalls /\ [MonitorNext]_monitorVars => RunsOfCalls'
<1> SUFFICES ASSUME Sound, RunsOfCalls, [MonitorNext]_monitorVars PROVE RunsOfCalls'
  OBVIOUS
<1>1. Data /\ OneTimer /\ Pipe!TypeOK /\ fired \in Seq(Firing)
  BY DEF Sound, Punctually, Recording, Data
<1>2. \A i \in Calls : runOf[i] \in Run
  BY <1>1 DEF RunsOfCalls, Calls
<1>3. \A i \in Calls : pc'[runOf[i]] # "idle" /\ slot'[runOf[i]] = fired[i].slot
  BY <1>2, RunsKept DEF RunsOfCalls
<1>4. CASE UNCHANGED <<fired, runOf>>
  BY <1>3, <1>4 DEF RunsOfCalls, Calls
<1>5. ASSUME NEW s, NEW chain, NEW life, Called(s, chain, life), Job(s)
      PROVE  RunsOfCalls'
  <2> DEFINE new == Len(fired) + 1
  <2>1. NextRun \in Run /\ runOf' = Append(runOf, NextRun) /\ CallRunSlot(s)
    BY <1>5 DEF Job, CallRunSlot
  <2>2. slot'[NextRun] = s /\ pc'[NextRun] # "idle"
    <3>1. pc \in [Run -> Pipe!Stage] /\ slot \in [Run -> Slots \cup {NoSlot}]
      BY <1>1 DEF Pipe!TypeOK
    <3>2. QED
      BY <2>1, <3>1 DEF CallRunSlot, Pipe!RunSlot, Pipe!SkipInFlight, Pipe!Call
  <2>3. /\ Calls' = Calls \cup {new} /\ Len(fired) \in Nat /\ Calls = 1..Len(fired)
        /\ \A i \in Calls : fired'[i] = fired[i]
        /\ fired'[new].slot = s /\ Len(fired') = new
    BY <1>1, <1>5 DEF Called, Calls
  <2>4. /\ runOf' \in Seq(Run) /\ Len(runOf') = new /\ runOf'[new] = NextRun
        /\ \A i \in Calls : runOf'[i] = runOf[i]
    BY <2>1, <2>3 DEF RunsOfCalls
  <2>5. QED
    BY <1>3, <2>2, <2>3, <2>4 DEF RunsOfCalls
<1>6. QED
  BY <1>1, <1>4, <1>5, JobOfCall

(* Type correctness of the composition, with what holds it together: each  *)
(* call of fire() has its run, only slots of the model are owed, and the   *)
(* scheduler does not outlive its process.                                 *)
THEOREM MonitorTypeCorrect ==
    ASSUME DelaysHeld
    PROVE  MonitorSpec => []MonitorTypeOK
<1> DEFINE Owed == owed \subseteq Slots
           Wired == Flags /\ RunsOfCalls /\ RunsWhileUp /\ Owed
<1>1. MonitorInit => Wired
  <2>1. MonitorInit => Flags /\ RunsWhileUp
    BY Zenon DEF MonitorInit, Init, Flags, RunsWhileUp
  <2>2. MonitorInit => RunsOfCalls /\ Owed
    BY DEF MonitorInit, Init, RunsOfCalls, Calls
  <2>3. QED
    BY <2>1, <2>2
<1>2. Sound /\ Wired /\ [MonitorNext]_monitorVars => Wired'
  <2> SUFFICES ASSUME Sound, Wired, [MonitorNext]_monitorVars PROVE Wired'
    OBVIOUS
  <2>1. Flags'
    <3>1. Crash => Flags'
      BY Zenon DEF Crash, Flags
    <3>2. QED
      BY <3>1, FlagsPreserved, SchedulerStep
  <2>2. RunsOfCalls'
    BY RunsOfCallsPreserved
  <2>3. RunsWhileUp'
    <3>1. CASE Crash
      BY <3>1, Zenon DEF Crash, RunsWhileUp
    <3>2. CASE Boot
      BY <3>2, Zenon DEF Boot, Job, CallRunSlot, Pipe!RunSlot, Pipe!SkipInFlight, Pipe!Call,
                         pipeVars, RunsWhileUp
    <3>3. CASE Restart
      BY <3>3 DEF Restart, Pipe!Restart, RunsWhileUp, vars
    <3>4. ~Crash /\ ~Boot /\ ~Restart => UNCHANGED <<running, up>>
      BY Zenon
      DEF MonitorNext, monitorVars, BoundaryFires, TimeoutFires, Job, CronTicks, CallRunSlot,
          JobReturns, JobSettles, RunContinues, StatementContinues, TimePasses, Tick, vars,
          lifeVars, pipeVars, Pipe!RunSlot, Pipe!SkipInFlight, Pipe!Call, Pipe!RunStep,
          Pipe!CheckHit, Pipe!CheckMiss, Pipe!CheckFails, Pipe!ProbeSettles,
          Pipe!InsertReturnsRow, Pipe!InsertReturnsNull, Pipe!InsertRejects, Pipe!Leave,
          Pipe!DbStep, Pipe!DrawId, Pipe!Commit, Pipe!Conflict, Pipe!LoseStatement
    <3>5. QED
      BY <3>1, <3>2, <3>3, <3>4 DEF RunsWhileUp
  <2>4. Owed'
    <3>1. ASSUME NEW s \in Slots, Asked(s) PROVE Owed'
      BY <3>1 DEF Asked, CallRunSlot
    <3>2. \/ TimePasses \/ UNCHANGED monitorVars \/ Crash \/ Restart
          \/ \E r \in Run : RunContinues(r) \/ StatementContinues(r)
          => Owed'
      BY DEF TimePasses, monitorVars, Crash, Restart, RunContinues, StatementContinues,
             OwedAfter
    <3>3. QED
      BY <3>1, <3>2, CalledInTime DEF Sound
  <2>5. QED
    BY <2>1, <2>2, <2>3, <2>4
<1>3. Sound /\ Wired => MonitorTypeOK
  <2>1. Flags /\ Data => TypeOK
    BY DEF Flags, Data, TypeOK
  <2>2. QED
    BY <2>1 DEF Sound, Punctually, Recording, RunsOfCalls, RunsWhileUp, MonitorTypeOK
<1>4. QED
  BY <1>1, <1>2, <1>3, SoundInvariant, PTL DEF MonitorSpec
-----------------------------------------------------------------------------
(* The chain of the running process: it is not broken by a crash, and no   *)
(* run of an earlier life can cross it, since those died with theirs.      *)
OwnLife ==
    /\ ~crossed
    /\ ~running => active = {}
    /\ \A i \in active : fired[i].life = starts

Linked ==
    Punctual /\ BoundariesFired /\ NextBoundaryArmed /\ OwnLife /\ steps = 0

LEMMA OwnLifePreserved ==
    ASSUME Data, OneTimer, SlotsBelow, OwnLife, [MonitorNext]_monitorVars
    PROVE  OwnLife'
<1>1. active \subseteq Calls /\ starts \in Nat
  BY CallTypes DEF Data
<1>2. CASE Boot
  <2>1. /\ Start /\ active = {} /\ starts' = starts + 1 /\ running' /\ ~crossed'
    <3>1. Start
      BY <1>2 DEF Boot
    <3>2. QED
      BY <3>1, StartEffect DEF OwnLife
  <2>2. CASE UNCHANGED callVars
    BY <2>1, <2>2 DEF callVars, OwnLife
  <2>3. CASE Called(SlotStartFor(now), FALSE, starts + 1)
    BY <2>1, <2>3 DEF Called, OwnLife
  <2>4. QED
    BY <2>1, <2>2, <2>3, StartEffect
<1>3. CASE BoundaryFires
  <2>1. PICK t \in timeouts : TimeoutFires(t)
    BY <1>3 DEF BoundaryFires
  <2>2. /\ running /\ UNCHANGED <<running, starts, crossed>>
        /\ Called(lastScheduledSlot, TRUE, starts)
    BY <2>1, TimeoutEffect
  <2>3. PICK new : /\ new \notin Calls /\ active' = active \cup {new}
                   /\ fired'[new].life = starts
                   /\ \A j \in Calls : fired'[j] = fired[j]
    BY <2>2 DEF Called
  <2>4. \A i \in active' : fired'[i].life = starts'
    BY <1>1, <2>2, <2>3 DEF OwnLife
  <2>5. QED
    BY <2>2, <2>4, Zenon DEF OwnLife
<1>4. ASSUME NEW i \in active, JobReturns(i)
      PROVE  OwnLife'
  <2>1. /\ active' = active \ {i} /\ UNCHANGED <<fired, starts, running>>
        /\ crossed' = crossed \/ crossed' = (crossed \/ fired[i].life < starts)
    BY <1>4, Zenon DEF JobReturns, JobSettles
  <2>2. ~(fired[i].life < starts)
    BY <1>1 DEF OwnLife
  <2>3. ~crossed'
    BY <2>1, <2>2, Zenon DEF OwnLife
  <2>4. \A j \in active' : fired'[j].life = starts'
    BY <2>1 DEF OwnLife
  <2>5. ~running' => active' = {}
    BY <2>1 DEF OwnLife
  <2>6. QED
    BY <2>3, <2>4, <2>5, Zenon DEF OwnLife
<1>5. CASE Crash
  BY <1>5, Zenon DEF Crash, OwnLife
<1>6. UNCHANGED <<crossed, running, active, fired, starts>> => OwnLife'
  BY DEF OwnLife
<1>7. CronTicks \/ Restart \/ TimePasses \/ UNCHANGED monitorVars
        \/ (\E r \in Run : RunContinues(r) \/ StatementContinues(r))
        => UNCHANGED <<crossed, running, active, fired, starts>>
  BY Zenon DEF CronTicks, Restart, TimePasses, Tick, RunContinues, StatementContinues,
               monitorVars, vars, callVars, lifeVars
<1>8. QED
  BY <1>2, <1>3, <1>4, <1>5, <1>6, <1>7 DEF MonitorNext

(* An exit leaves nothing of the chain that a restart could trip over.     *)
LEMMA CrashUnlinks ==
    ASSUME Linked, Crash
    PROVE  (Punctual /\ BoundariesFired /\ NextBoundaryArmed)'
<1>1. /\ ~running' /\ timeouts' = {} /\ lastScheduledSlot' = 0 /\ active' = {}
      /\ UNCHANGED <<now, steps, armed, fired, premature, starts>>
  BY Zenon DEF Crash
<1>2. Punctually'
  <2>1. Punctually
    BY DEF Linked, Punctual, Chain, Punctually, BoundariesFired, Boundaries
  <2>2. QED
    BY <2>1, CrashResets
<1>3. SlotsGoUp' /\ SlotsBelow'
  BY <1>1 DEF Linked, Punctual, Chain, SlotsGoUp, SlotsBelow, Calls
<1>4. OneLink'
  BY <1>1 DEF OneLink
<1>5. ~premature'
  BY <1>1, Zenon DEF Linked, Punctual
<1>6. BoundariesFired'
  BY <1>1, <1>2 DEF Punctually, Boundaries, BoundariesFired
<1>7. NextBoundaryArmed'
  BY <1>1 DEF NextBoundaryArmed
<1>8. QED
  BY Zenon, <1>2, <1>3, <1>4, <1>5, <1>6, <1>7 DEF Punctually, Punctual, Chain

LEMMA LinkedInvariant ==
    ASSUME DelaysHeld
    PROVE  MonitorSpec => []Linked
<1>1. MonitorInit => Linked
  <2> SUFFICES ASSUME MonitorInit PROVE Linked
    OBVIOUS
  <2>1. Init
    BY DEF MonitorInit
  <2>2. Data /\ OneTimer
    BY <2>1, IntervalAssumption, BoundsAssumption DEF Init, Data, Calls, OneTimer
  <2>3. SlotsBelow /\ SlotsGoUp /\ OneLink
    BY <2>1 DEF Init, Calls, SlotsBelow, SlotsGoUp, OneLink
  <2>4. Chains = 0 /\ Pending = 0 /\ starts = 0
    BY <2>1, FS_EmptySet DEF Init, Chains, ChainCalls, Pending
  <2>5. ChainPerStart
    BY <2>4, BoundsAssumption DEF ChainPerStart
  <2>6. OnTime /\ ~premature /\ steps = 0 /\ NextBoundaryArmed /\ OwnLife
    BY <2>1 DEF Init, OnTime, NextBoundaryArmed, OwnLife
  <2>7. BoundariesFired
    <3>1. 0 % Interval = 0
      BY IntervalAssumption
    <3>2. QED
      BY <2>1, <3>1 DEF Init, BoundariesFired, Boundary
  <2>8. QED
    BY <2>2, <2>3, <2>5, <2>6, <2>7, Zenon DEF Linked, Punctual, Chain
<1>2. Linked /\ [MonitorNext]_monitorVars => Linked'
  <2> SUFFICES ASSUME Linked, [MonitorNext]_monitorVars PROVE Linked'
    OBVIOUS
  <2>1. Data /\ OneTimer /\ SlotsBelow /\ SlotsGoUp /\ OneLink /\ ChainPerStart /\ OnTime
        /\ ~premature /\ BoundariesFired /\ NextBoundaryArmed /\ OwnLife /\ steps = 0
    BY Zenon DEF Linked, Punctual, Chain
  <2>2. steps' = steps
    BY Zenon
    DEF MonitorNext, monitorVars, Boot, Start, BoundaryFires, TimeoutFires, CronTicks, JobReturns,
        JobSettles, RunContinues, StatementContinues, Crash, Restart, TimePasses, Tick, vars,
        clockVars
  <2>3. OwnLife'
    BY <2>1, OwnLifePreserved
  <2>4. CASE Crash
    BY Zenon, <2>1, <2>2, <2>3, <2>4, CrashUnlinks DEF Linked
  <2>5. CASE [Next]_vars
    <3>1. Chain'
      BY <2>1, <2>5, DataPreserved, OneTimerPreserved, SlotsPreserved, OneLinkPreserved DEF Chain
    <3>2. (ChainPerStart /\ OnTime /\ ~premature)'
      BY Zenon, <2>1, <2>5, ChainPerStartPreserved, OnTimePreserved, NotPremature
    <3>3. (BoundariesFired /\ NextBoundaryArmed)'
      BY Zenon, <2>1, <2>5, BoundariesFiredPreserved, NextBoundaryArmedPreserved
      DEF Punctual, Chain
    <3>4. QED
      BY Zenon, <2>1, <2>2, <2>3, <3>1, <3>2, <3>3 DEF Linked, Punctual
  <2>6. QED
    BY <2>4, <2>5, SchedulerStep
<1>3. QED
  BY <1>1, <1>2, PTL DEF MonitorSpec
-----------------------------------------------------------------------------
(* The pipeline of the composition is the pipeline.                        *)

(* The steps of the composition as steps of the pipeline of its process.   *)
LEMMA PipelineStep ==
    ASSUME Punctually, InBounds, [MonitorNext]_monitorVars
    PROVE  [Pipe!Next]_(Pipe!vars)
<1>1. UNCHANGED pipeVars => UNCHANGED Pipe!vars
  BY DEF pipeVars, Pipe!vars
<1>2. ASSUME NEW s \in Slots, Asked(s) PROVE Pipe!Next
  <2>1. CallRunSlot(s)
    BY <1>2 DEF Asked
  <2>2. Pipe!CallStep(NextRun) /\ NextRun \in Run
    BY <2>1 DEF CallRunSlot, Pipe!CallStep
  <2>3. QED
    BY <2>2, Zenon DEF Pipe!Next
<1>3. ASSUME NEW r \in Run, RunContinues(r) \/ StatementContinues(r) PROVE Pipe!Next
  BY <1>3, Zenon DEF RunContinues, StatementContinues, Pipe!Next
<1>4. CASE Crash \/ Restart
  <2>1. Pipe!Crash(Api) \/ Pipe!Restart(Api)
    BY <1>4, Zenon DEF Crash, Restart
  <2>2. QED
    BY <2>1 DEF Pipe!Next
<1>5. TimePasses \/ UNCHANGED monitorVars => UNCHANGED pipeVars
  BY DEF TimePasses, monitorVars, pipeVars
<1>6. QED
  BY <1>1, <1>2, <1>3, <1>4, <1>5, CalledInTime

(* container.ts:52-60 and the cron route use the pipeline as it may be     *)
(* used: whatever scheduler, ticks, crashes and restarts do, the process   *)
(* behaves as PingService says, so what is proved of that holds here.      *)
THEOREM PipelineComposed ==
    ASSUME DelaysHeld
    PROVE  MonitorSpec => Pipe!Spec
<1>1. MonitorInit => Pipe!Init
  BY DEF MonitorInit
<1>2. Sound /\ [MonitorNext]_monitorVars => [Pipe!Next]_(Pipe!vars)
  BY PipelineStep DEF Sound
<1>3. QED
  BY <1>1, <1>2, SoundInvariant, PTL DEF MonitorSpec, Pipe!Spec
-----------------------------------------------------------------------------
(* A slot that is owed is in somebody's hands: it is recorded, or a run of *)
(* the process has its key, or the timeout armed is for it.                *)
OwedInHand ==
    \A s \in owed :
        \/ Pipe!Recorded(s)
        \/ s \in inFlightSlots[Api]
        \/ \E t \in timeouts : t.slot = s

(* A statement that wrote its row or found one is of a slot with a row.    *)
Written == \A r \in Run : stmt[r] \in {"committed", "conflict"} => Pipe!Recorded(slot[r])

(* Who asks for a slot has a run that holds its key, or one is there.      *)
LEMMA AskedHolds ==
    ASSUME Pipe!TypeOK, NEW s \in Slots, CallRunSlot(s)
    PROVE  /\ inFlightSlots[Api] \subseteq inFlightSlots'[Api] /\ s \in inFlightSlots'[Api]
           /\ owed' = owed \cup {s} /\ rows' = rows
<1>1. inFlightSlots \in [{Api} -> SUBSET Slots]
  BY DEF Pipe!TypeOK
<1>2. owed' = owed \cup {s} /\ rows' = rows
  BY DEF CallRunSlot, Pipe!RunSlot, Pipe!SkipInFlight, Pipe!Call, Pipe!dbVars
<1>3. \/ inFlightSlots' = [inFlightSlots EXCEPT ![Api] = @ \cup {s}]
      \/ inFlightSlots' = inFlightSlots /\ s \in inFlightSlots[Api]
  BY DEF CallRunSlot, Pipe!RunSlot, Pipe!SkipInFlight
<1>4. QED
  BY <1>1, <1>2, <1>3

(* A run that ends gives its key back only when its slot is recorded or    *)
(* given up.                                                               *)
LEMMA RunHolds ==
    ASSUME Pipe!TypeOK, RunsInTime, Written, NEW r \in Run, RunContinues(r)
    PROVE  /\ rows' = rows /\ owed' \subseteq owed
           /\ \A s \in inFlightSlots[Api] :
                 s \in inFlightSlots'[Api] \/ Pipe!Recorded(s) \/ s \notin owed'
<1> DEFINE Kept == \A s \in inFlightSlots[Api] :
                      s \in inFlightSlots'[Api] \/ Pipe!Recorded(s) \/ s \notin owed'
<1>1. /\ inFlightSlots \in [{Api} -> SUBSET Slots] /\ host[r] = Api
      /\ pc \in [Run -> Pipe!Stage]
  BY DEF Pipe!TypeOK
<1>2. Pipe!RunStep(r) /\ owed' = OwedAfter(r, pc'[r] = "rejected")
  BY Zenon DEF RunContinues
<1>3. owed' \subseteq owed
  BY <1>2 DEF OwedAfter
<1>4. rows' = rows
  BY <1>2 DEF Pipe!RunStep, Pipe!CheckHit, Pipe!CheckMiss, Pipe!CheckFails, Pipe!ProbeSettles,
              Pipe!InsertReturnsRow, Pipe!InsertReturnsNull, Pipe!InsertRejects, Pipe!dbVars
<1>5. ASSUME NEW outcome, Pipe!Leave(r, outcome),
             Pipe!Recorded(slot[r]) \/ outcome = "rejected"
      PROVE  Kept
  <2>1. inFlightSlots'[Api] = inFlightSlots[Api] \ {slot[r]} /\ pc'[r] = outcome
    BY <1>1, <1>5 DEF Pipe!Leave
  <2>2. CASE Pipe!Recorded(slot[r])
    BY <2>1, <2>2
  <2>3. CASE outcome = "rejected"
    <3>1. slot[r] \notin owed'
      BY <1>2, <2>1, <2>3 DEF OwedAfter
    <3>2. QED
      BY <2>1, <3>1
  <2>4. QED
    BY <1>5, <2>2, <2>3
<1>6. Pipe!CheckHit(r) => Kept
  BY Zenon, <1>5 DEF Pipe!CheckHit, Pipe!ExistsForSlot
<1>7. Pipe!CheckMiss(r) \/ Pipe!ProbeSettles(r) => Kept
  BY DEF Pipe!CheckMiss, Pipe!ProbeSettles
<1>8. Pipe!CheckFails(r) \/ Pipe!InsertRejects(r) => Kept
  BY Zenon, <1>5 DEF Pipe!CheckFails, Pipe!InsertRejects
<1>9. Pipe!InsertReturnsRow(r) => Kept
  BY Zenon, <1>5 DEF Pipe!InsertReturnsRow, Written
<1>10. Pipe!InsertReturnsNull(r) => Kept
  BY Zenon, <1>5 DEF Pipe!InsertReturnsNull, Written
<1>11. Kept
  BY <1>2, <1>6, <1>7, <1>8, <1>9, <1>10, Zenon DEF Pipe!RunStep
<1>12. QED
  BY <1>3, <1>4, <1>11

LEMMA WrittenPreserved == Sound /\ Written /\ [MonitorNext]_monitorVars => Written'
<1> SUFFICES ASSUME Sound, Written, [MonitorNext]_monitorVars,
                    NEW r \in Run, stmt'[r] \in {"committed", "conflict"}
             PROVE  Pipe!Recorded(slot[r])'
  BY DEF Written
<1>1. /\ stmt \in [Run -> Pipe!Statement] /\ pc \in [Run -> Pipe!Stage]
      /\ slot \in [Run -> Slots \cup {NoSlot}] /\ RowsOfStatements
  BY DEF Sound, Recording, Pipe!TypeOK
<1>2. ASSUME stmt[r] \in {"committed", "conflict"}, slot'[r] = slot[r], rows \subseteq rows'
      PROVE  Pipe!Recorded(slot[r])'
  BY <1>2 DEF Written, Pipe!Recorded
<1>3. ASSUME NEW s \in Slots, Asked(s) PROVE Pipe!Recorded(slot[r])'
  <2>1. PICK q \in Run : /\ pc[q] = "idle" /\ slot' = [slot EXCEPT ![q] = s]
                         /\ stmt' = stmt /\ rows' = rows
    BY <1>3, CallEffect DEF Asked, Sound, Recording
  <2>2. q # r
    BY <1>1, <2>1 DEF RowsOfStatements
  <2>3. QED
    BY <1>1, <1>2, <2>1, <2>2
<1>4. CASE UNCHANGED pipeVars
  BY <1>2, <1>4 DEF pipeVars
<1>5. ASSUME NEW q \in Run, RunContinues(q) PROVE Pipe!Recorded(slot[r])'
  <2>1. Pipe!RunStep(q)
    BY <1>5, Zenon DEF RunContinues
  <2>2. slot' = slot /\ rows' = rows /\ (stmt' = stmt \/ stmt' = [stmt EXCEPT ![q] = "sent"])
    BY <2>1
    DEF Pipe!RunStep, Pipe!CheckHit, Pipe!CheckMiss, Pipe!CheckFails, Pipe!ProbeSettles,
        Pipe!InsertReturnsRow, Pipe!InsertReturnsNull, Pipe!InsertRejects, Pipe!Leave,
        Pipe!dbVars
  <2>3. stmt[r] \in {"committed", "conflict"}
    BY <1>1, <2>2
  <2>4. QED
    BY <1>2, <2>2, <2>3
<1>6. ASSUME NEW q \in Run, StatementContinues(q) PROVE Pipe!Recorded(slot[r])'
  <2>1. Pipe!DbStep(q)
    BY <1>6, Zenon DEF StatementContinues
  <2>2. slot' = slot /\ rows \subseteq rows'
    BY <2>1
    DEF Pipe!DbStep, Pipe!DrawId, Pipe!Commit, Pipe!Conflict, Pipe!LoseStatement,
        Pipe!clientVars
  <2>3. CASE stmt[r] \in {"committed", "conflict"}
    BY <1>2, <2>2, <2>3
  <2>4. CASE stmt[r] \notin {"committed", "conflict"}
    <3>1. q = r /\ (Pipe!Commit(q) \/ Pipe!Conflict(q))
      BY <1>1, <2>1, <2>4
      DEF Pipe!DbStep, Pipe!DrawId, Pipe!Commit, Pipe!Conflict, Pipe!LoseStatement
    <3>2. CASE Pipe!Commit(q)
      <4>1. [id |-> rowId[r], slot |-> slot[r]] \in rows'
        BY <3>1, <3>2 DEF Pipe!Commit
      <4>2. [id |-> rowId[r], slot |-> slot[r]].slot = slot'[r]
        BY <2>2
      <4>3. QED
        BY <4>1, <4>2, Zenon DEF Pipe!Recorded
    <3>3. CASE Pipe!Conflict(q)
      <4>1. Pipe!Recorded(slot[r]) /\ rows' = rows /\ slot' = slot
        BY <2>2, <3>1, <3>3 DEF Pipe!Conflict
      <4>2. QED
        BY <4>1 DEF Pipe!Recorded
    <3>4. QED
      BY <3>1, <3>2, <3>3
  <2>5. QED
    BY <2>3, <2>4
<1>7. CASE Crash \/ Restart
  BY <1>2, <1>7 DEF Crash, Restart, Pipe!Crash, Pipe!Restart, Pipe!clientVars, Pipe!dbVars
<1>8. TimePasses \/ UNCHANGED monitorVars => UNCHANGED pipeVars
  BY DEF TimePasses, monitorVars, pipeVars
<1>9. QED
  BY <1>3, <1>4, <1>5, <1>6, <1>7, <1>8, CalledInTime DEF Sound

(* The timeout that is armed stays for its slot until it fires: scheduled  *)
(* runs arm the next one only when there is none.                          *)
LEMMA TimeoutKept ==
    ASSUME Linked, [MonitorNext]_monitorVars, ~BoundaryFires, ~Crash, NEW t \in timeouts
    PROVE  \E u \in timeouts' : u.slot = t.slot
<1>1. Data /\ OneTimer /\ OneLink /\ OwnLife
  BY Zenon DEF Linked, Punctual, Chain
<1>2. running
  BY <1>1 DEF OneTimer
<1>3. ASSUME timeouts' = timeouts PROVE \E u \in timeouts' : u.slot = t.slot
  BY <1>3
<1>4. ASSUME NEW i \in active, JobReturns(i)
      PROVE  timeouts' = timeouts
  <2>1. ~fired[i].chain
    <3>1. ~Own(i)
      BY <1>1, <1>2 DEF OneLink, OwnLife
    <3>2. QED
      BY Zenon, <1>1, <3>1 DEF Own, OwnLife
  <2>2. ~Rearms(i)
    BY Zenon, <2>1 DEF Rearms
  <2>3. UNCHANGED chainVars
    BY Zenon, <1>4, <2>2 DEF JobReturns, JobSettles
  <2>4. QED
    BY <2>3 DEF chainVars
<1>5. CASE TimePasses
  <2>1. timeouts' = {[v EXCEPT !.left = Later(@ - 1, 0)] : v \in timeouts}
    BY <1>5, Zenon DEF TimePasses, Tick
  <2>2. [t EXCEPT !.left = Later(@ - 1, 0)] \in timeouts'
    BY <2>1
  <2>3. [t EXCEPT !.left = Later(@ - 1, 0)].slot = t.slot
    BY <1>1 DEF Data, Timeout
  <2>4. QED
    BY <2>2, <2>3
<1>6. CronTicks \/ Restart \/ UNCHANGED monitorVars
        \/ (\E r \in Run : RunContinues(r) \/ StatementContinues(r))
        => timeouts' = timeouts
  BY DEF CronTicks, Restart, RunContinues, StatementContinues, monitorVars, vars
<1>7. ~Boot
  BY <1>2, Zenon DEF Boot, Start
<1>8. QED
  BY <1>3, <1>4, <1>5, <1>6, <1>7 DEF MonitorNext

(* A slot that begins when the scheduler has caught up is the one armed:   *)
(* none before it is left, and the next boundary is never skipped.         *)
LEMMA BegunIsArmed ==
    ASSUME Linked, now + 1 \in Slots, CaughtUp(now + 1)
    PROVE  \E t \in timeouts : t.slot = now + 1
<1>1. /\ Data /\ OneTimer /\ SlotsBelow /\ OneLink /\ OnTime /\ BoundariesFired
      /\ NextBoundaryArmed /\ OwnLife /\ steps = 0
  BY Zenon DEF Linked, Punctual, Chain
<1>2. /\ running /\ \A t \in timeouts : t.slot >= now + 1
      /\ \A i \in ChainCalls : fired[i].slot >= now + 1
      /\ \A i \in Calls : fired[i].life = starts => fired[i].slot # now + 1
  BY Zenon DEF CaughtUp
<1>3. /\ now \in Nat /\ lastScheduledSlot \in Nat /\ (now + 1) % Interval = 0
      /\ Interval \in Nat /\ Early \in Nat /\ Early < Interval
  BY <1>1, IntervalAssumption, EarlyAssumption DEF Data, Slots
<1>4. CASE timeouts = {}
  <2>1. PICK i \in active : fired[i].chain
    BY <1>1, <1>2, <1>4 DEF OneLink, ChainCalls
  <2>2. fired[i].life = starts /\ i \in Calls /\ fired[i].slot \in Nat
    BY <1>1, CallTypes DEF OwnLife
  <2>3. fired[i].slot > now + 1
    <3>1. fired[i].slot >= now + 1
      BY <1>2, <2>1 DEF ChainCalls
    <3>2. fired[i].slot # now + 1
      BY <1>2, <2>2
    <3>3. QED
      BY <1>3, <2>2, <3>1, <3>2
  <2>4. fired[i].slot <= lastScheduledSlot
    BY <1>1, <1>2, <2>2 DEF SlotsBelow
  <2>5. lastScheduledSlot <= now + Early
    BY <1>1, <1>2, <1>4 DEF OnTime
  <2>6. now + 1 < lastScheduledSlot
    BY <1>3, <2>2, <2>3, <2>4
  <2>7. (now + 1) + Interval <= lastScheduledSlot
    BY <1>1, <1>3, <2>6, BoundariesApart DEF BoundariesFired, Boundary
  <2>8. QED
    BY <1>3, <2>5, <2>7
<1>5. ASSUME NEW t \in timeouts PROVE t.slot = now + 1
  <2>1. t.slot \in Nat /\ t.slot >= now + 1 /\ ~crossed
    BY <1>1, <1>2 DEF Data, Timeout, OwnLife
  <2>2. ~(now + 1 \in (now + 1)..(t.slot - 1))
    BY <1>1, <1>2, <1>3, <2>1 DEF NextBoundaryArmed
  <2>3. QED
    BY <1>3, <2>1, <2>2
<1>6. QED
  BY <1>4, <1>5

LEMMA OwedInHandPreserved ==
    Sound /\ Linked /\ Written /\ OwedInHand /\ [MonitorNext]_monitorVars => OwedInHand'
<1> SUFFICES ASSUME Sound, Linked, Written, OwedInHand, [MonitorNext]_monitorVars,
                    NEW s \in owed'
             PROVE  \/ Pipe!Recorded(s)'
                    \/ s \in inFlightSlots'[Api]
                    \/ \E t \in timeouts' : t.slot = s
  BY DEF OwedInHand
<1> DEFINE Held == \/ Pipe!Recorded(s)'
                   \/ s \in inFlightSlots'[Api]
                   \/ \E t \in timeouts' : t.slot = s
<1>1. Pipe!TypeOK /\ RunsInTime /\ Data /\ OneTimer
  BY DEF Sound, Recording, Punctually
<1>2. rows \subseteq rows' => (Pipe!Recorded(s) => Pipe!Recorded(s)')
  BY DEF Pipe!Recorded
<1>3. CASE BoundaryFires
  <2>1. PICK t \in timeouts : TimeoutFires(t) /\ Job(t.slot)
    BY <1>3 DEF BoundaryFires
  <2>2. CallRunSlot(t.slot) /\ \A u \in timeouts : u = t
    BY <1>1, <2>1 DEF Job, OneTimer
  <2>3. t.slot \in Slots
    <3>1. t.left \in Nat /\ t.slot \in Nat /\ now \in Nat /\ Early \in Nat
      BY <1>1, EarlyAssumption, IntervalAssumption DEF Data, Timeout
    <3>2. running /\ t.slot = lastScheduledSlot /\ t.left <= Early
      BY <1>1, <2>1, TimeoutEffect
    <3>3. t.slot <= now + t.left /\ Boundary(t.slot)
      BY <3>2 DEF Sound, Punctually, OnTime, Boundaries
    <3>4. t.slot <= now + Early
      BY <3>1, <3>2, <3>3
    <3>5. QED
      BY <3>1, <3>3, <3>4, SlotsInReach DEF Sound
  <2>4. /\ inFlightSlots[Api] \subseteq inFlightSlots'[Api] /\ t.slot \in inFlightSlots'[Api]
        /\ owed' = owed \cup {t.slot} /\ rows' = rows
    BY <1>1, <2>2, <2>3, AskedHolds
  <2>5. QED
    BY <1>2, <2>2, <2>4 DEF OwedInHand
<1>4. CASE Crash
  BY <1>4, Zenon DEF Crash
<1>5. ASSUME ~BoundaryFires, ~Crash, s \in owed, rows \subseteq rows',
             s \in inFlightSlots[Api] =>
                 s \in inFlightSlots'[Api] \/ Pipe!Recorded(s)
      PROVE  Held
  <2>1. \A t \in timeouts : \E u \in timeouts' : u.slot = t.slot
    BY <1>5, TimeoutKept
  <2>2. QED
    BY <1>2, <1>5, <2>1 DEF OwedInHand
<1>6. ASSUME NEW q \in Slots, Asked(q), ~BoundaryFires, ~Crash PROVE Held
  <2>1. /\ inFlightSlots[Api] \subseteq inFlightSlots'[Api] /\ q \in inFlightSlots'[Api]
        /\ owed' = owed \cup {q} /\ rows' = rows
    BY <1>1, <1>6, AskedHolds DEF Asked
  <2>2. QED
    BY <1>5, <1>6, <2>1
<1>7. ASSUME UNCHANGED pipeVars, UNCHANGED owed, ~BoundaryFires, ~Crash PROVE Held
  <2>1. rows' = rows /\ inFlightSlots' = inFlightSlots /\ s \in owed
    BY <1>7 DEF pipeVars
  <2>2. QED
    BY <1>5, <1>7, <2>1
<1>8. CASE TimePasses
  <2>1. /\ rows' = rows /\ inFlightSlots' = inFlightSlots /\ now' = now + 1
        /\ owed' = owed \/ (now' \in Slots /\ CaughtUp(now') /\ owed' = owed \cup {now'})
        /\ ~BoundaryFires /\ ~Crash
    <3>1. /\ UNCHANGED pipeVars /\ now' = now + 1
          /\ owed' = owed \/ (now' \in Slots /\ CaughtUp(now') /\ owed' = owed \cup {now'})
      BY <1>8, Zenon DEF TimePasses, Tick
    <3>2. now' # now
      BY <1>1, <3>1 DEF Data
    <3>3. ~BoundaryFires /\ ~Crash
      BY <3>2, Zenon DEF BoundaryFires, TimeoutFires, Crash, clockVars
    <3>4. QED
      BY <3>1, <3>3 DEF pipeVars
  <2>2. CASE s \in owed
    BY <1>5, <2>1, <2>2
  <2>3. CASE s \notin owed
    <3>1. s = now + 1 /\ now + 1 \in Slots /\ CaughtUp(now + 1)
      BY <2>1, <2>3
    <3>2. PICK t \in timeouts : t.slot = now + 1
      BY <3>1, BegunIsArmed
    <3>3. \E u \in timeouts' : u.slot = t.slot
      BY <2>1, TimeoutKept
    <3>4. QED
      BY <3>1, <3>2, <3>3
  <2>4. QED
    BY <2>2, <2>3
<1>9. ASSUME NEW r \in Run, RunContinues(r), ~BoundaryFires, ~Crash PROVE Held
  <2>1. /\ rows' = rows /\ s \in owed
        /\ s \in inFlightSlots[Api] => s \in inFlightSlots'[Api] \/ Pipe!Recorded(s)
    BY <1>1, <1>9, RunHolds
  <2>2. QED
    BY <1>5, <1>9, <2>1
<1>10. ASSUME NEW r \in Run, StatementContinues(r), ~BoundaryFires, ~Crash PROVE Held
  <2>1. Pipe!DbStep(r) /\ s \in owed
    BY <1>10 DEF StatementContinues, OwedAfter
  <2>2. rows \subseteq rows' /\ inFlightSlots' = inFlightSlots
    BY <2>1
    DEF Pipe!DbStep, Pipe!DrawId, Pipe!Commit, Pipe!Conflict, Pipe!LoseStatement,
        Pipe!clientVars
  <2>3. QED
    BY <1>5, <1>10, <2>1, <2>2
<1>11. ASSUME Restart, ~BoundaryFires, ~Crash PROVE Held
  <2>1. rows' = rows /\ inFlightSlots' = inFlightSlots /\ s \in owed
    BY <1>11 DEF Restart, Pipe!Restart, Pipe!clientVars, Pipe!dbVars
  <2>2. QED
    BY <1>5, <1>11, <2>1
<1>12. UNCHANGED monitorVars => UNCHANGED pipeVars /\ UNCHANGED owed
  BY DEF monitorVars, pipeVars
<1>13. UNCHANGED <<now, owed>> => UNCHANGED owed
  OBVIOUS
<1>14. CASE ~BoundaryFires /\ ~Crash
  BY <1>6, <1>7, <1>8, <1>9, <1>10, <1>11, <1>12, <1>13, <1>14, CalledInTime DEF Sound
<1>15. QED
  BY <1>3, <1>4, <1>14

(* What OwedSlotsAreRecorded needs and a schedule could lose: as long as a *)
(* slot is owed and has no row, either its timeout is armed or a run is    *)
(* working on it, through every race of scheduler, cron, catch-up, faults  *)
(* and restarts (scheduler.ts:96-122, ping-service.ts:50-64).  So only time*)
(* and the awaits that settle stand between it and its row.                *)
THEOREM OwedInHandInvariant ==
    ASSUME DelaysHeld
    PROVE  MonitorSpec => []OwedInHand
<1>1. MonitorInit => Written /\ OwedInHand
  BY DEF MonitorInit, Pipe!Init, Written, OwedInHand
<1>2. Sound /\ Written /\ [MonitorNext]_monitorVars => Written'
  BY WrittenPreserved
<1>3. Sound /\ Linked /\ Written /\ OwedInHand /\ [MonitorNext]_monitorVars => OwedInHand'
  BY OwedInHandPreserved
<1>4. QED
  BY <1>1, <1>2, <1>3, SoundInvariant, LinkedInvariant, PTL DEF MonitorSpec
=============================================================================
