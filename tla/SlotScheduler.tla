--------------------------- MODULE SlotScheduler ---------------------------
(***************************************************************************)
(* SlotScheduler (scheduler.ts) with the slot arithmetic of slots.ts: a    *)
(* setTimeout chain aligned to wall-clock boundaries, the catch-up run at  *)
(* start, and a stop that drains.  The wall clock may be set to another    *)
(* time, which timeouts take no notice of: setTimeout counts down.  The    *)
(* event loop may call a due timeout late, or up to Early before its delay *)
(* is over, and a job may settle at any time after it began.               *)
(* lastRunAt and lastError, which only status() reads, are left out.       *)
(***************************************************************************)
EXTENDS Integers, Sequences, FiniteSets

CONSTANTS
    Interval,       \* intervalMs
    RunOnStart,     \* runOnStart
    Early,          \* how early a timeout may fire
    TimerMax,       \* the longest delay setTimeout takes (2^31 - 1 ms)
    MaxNow,         \* bound: the time at which the clock stops
    MaxStarts,      \* bound: calls of start()
    MaxSteps        \* bound: times the wall clock is set

ASSUME IntervalAssumption == Interval \in Nat \ {0}
ASSUME EarlyAssumption == Early \in 0..(Interval - 1)
ASSUME BoundsAssumption ==
    /\ RunOnStart \in BOOLEAN
    /\ TimerMax \in Nat \ {0} /\ MaxNow \in Nat \ {0}
    /\ MaxStarts \in Nat /\ MaxSteps \in Nat

VARIABLES
    now,                \* wall clock; 0 is the epoch, and the scheduler starts later
    steps,              \* how often it was set
    running,
    timer,              \* the handle in this.timer; 0 for null
    timeouts,           \* timeouts the event loop holds: handle, slot, time left
    armed,              \* number of setTimeout calls: the last handle
    lastScheduledSlot,
    nextRunAt,          \* 0 for null
    fired,              \* history: every call of fire(): slot, chain, life
    premature,          \* history: a call began before its slot, by a clock never set
    active,             \* the calls whose job has not settled (indices of fired)
    inFlight,           \* this.inFlight, the calls stop() waits for
    awaiting,           \* the calls the last stop() is still waiting for
    stopped,            \* the last stop() resolved, and start() was not called since
    starts,             \* number of start() calls that took effect: the life
    crossed             \* history: a chain call of an earlier life settled and
                        \* re-armed the timeout of this one

clockVars == <<now, steps>>
chainVars == <<timer, timeouts, armed, lastScheduledSlot, nextRunAt>>
callVars == <<fired, premature, active, inFlight>>
lifeVars == <<running, awaiting, stopped, starts, crossed>>
vars == <<now, steps, running, timer, timeouts, armed, lastScheduledSlot, nextRunAt,
          fired, premature, active, inFlight, awaiting, stopped, starts, crossed>>

SlotStartFor(at) == (at \div Interval) * Interval
NextSlotAfter(at) == ((at \div Interval) + 1) * Interval

Timeout == [handle : Nat \ {0}, slot : Nat, left : Nat]
Firing == [slot : Nat, chain : BOOLEAN, life : Nat]
Calls == 1..Len(fired)

TypeOK ==
    /\ now \in Nat /\ steps \in 0..MaxSteps
    /\ running \in BOOLEAN /\ stopped \in BOOLEAN
    /\ crossed \in BOOLEAN /\ premature \in BOOLEAN
    /\ timer \in Nat /\ armed \in Nat /\ starts \in Nat
    /\ timeouts \in SUBSET Timeout
    /\ lastScheduledSlot \in Nat /\ nextRunAt \in Nat
    /\ fired \in Seq(Firing)
    /\ active \in SUBSET Calls /\ inFlight \in SUBSET Calls /\ awaiting \in SUBSET Calls

Init ==
    /\ now \in 1..Interval /\ steps = 0
    /\ running = FALSE
    /\ timer = 0 /\ timeouts = {} /\ armed = 0
    /\ lastScheduledSlot = 0 /\ nextRunAt = 0
    /\ fired = <<>> /\ premature = FALSE
    /\ active = {} /\ inFlight = {} /\ awaiting = {}
    /\ stopped = FALSE
    /\ starts = 0
    /\ crossed = FALSE
-----------------------------------------------------------------------------
Later(a, b) == IF a > b THEN a ELSE b

(* Seeded bugs: the boundary after the next; no guard against an early fire. *)
NextMsSkipping == NextSlotAfter(Later(now, lastScheduledSlot + Interval))
NextMsUnguarded == NextSlotAfter(now)

(* The slot the next timeout is armed for: the next boundary, but never the*)
(* slot of the timeout that has just fired a little early.                 *)
NextMs == Later(NextSlotAfter(now), lastScheduledSlot + Interval)

(* setTimeout turns a delay it cannot hold into 1 ms. *)
Delay(slot) == IF slot - now > TimerMax THEN 1 ELSE slot - now

(* Seeded bug: the pending timeout is left alone. *)
NothingCleared == timeouts

(* clearTimeout(this.timer). *)
Cleared == {t \in timeouts : t.handle # timer}

(* scheduleNext while running: the pending timeout goes, one is armed. *)
ScheduleNext ==
    LET slot == NextMs IN
    /\ timeouts' = Cleared \cup {[handle |-> armed + 1, slot |-> slot, left |-> Delay(slot)]}
    /\ armed' = armed + 1
    /\ timer' = armed'
    /\ lastScheduledSlot' = slot
    /\ nextRunAt' = slot

(* Seeded bug: the call is not tracked. *)
Untracked(call) == inFlight

Tracked(call) == inFlight \cup {call}

(* fire(): the job is called now. *)
Fire(slot, chain, life) ==
    /\ fired' = Append(fired, [slot |-> slot, chain |-> chain, life |-> life])
    /\ premature' = (premature \/ (steps = 0 /\ now + Early < slot))
    /\ active' = active \cup {Len(fired) + 1}
    /\ inFlight' = Tracked(Len(fired) + 1)

(* start(): has no effect while running. *)
Start ==
    /\ ~running
    /\ starts < MaxStarts
    /\ running' = TRUE
    /\ starts' = starts + 1
    /\ crossed' = FALSE
    /\ stopped' = FALSE
    /\ IF RunOnStart THEN Fire(SlotStartFor(now), FALSE, starts') ELSE UNCHANGED callVars
    /\ ScheduleNext
    /\ UNCHANGED awaiting /\ UNCHANGED clockVars

(* The callback of a timeout, called when it is due or a hair early; the   *)
(* handle in this.timer stays.                                             *)
TimeoutFires(t) ==
    /\ t \in timeouts
    /\ t.left <= Early
    /\ timeouts' = timeouts \ {t}
    /\ IF running THEN Fire(t.slot, TRUE, starts) ELSE UNCHANGED callVars
    /\ UNCHANGED <<timer, armed, lastScheduledSlot, nextRunAt>>
    /\ UNCHANGED clockVars /\ UNCHANGED lifeVars

(* Seeded bug: the chain is not continued. *)
NeverRearms(i) == FALSE

(* The finally of a scheduled run. *)
Rearms(i) == fired[i].chain /\ running

(* The job of call i settles; fire() swallows its failure.  Its finally    *)
(* handlers run: it leaves inFlight, and a chain call arms the next one.   *)
JobSettles(i) ==
    /\ i \in active
    /\ active' = active \ {i}
    /\ inFlight' = inFlight \ {i}
    /\ IF Rearms(i)
       THEN ScheduleNext /\ crossed' = (crossed \/ fired[i].life < starts)
       ELSE UNCHANGED chainVars /\ UNCHANGED crossed
    /\ UNCHANGED <<running, fired, premature, awaiting, stopped, starts>>
    /\ UNCHANGED clockVars

(* Seeded bug: lastScheduledSlot is set back one slot too far. *)
BeforeFirst == -Interval

NoSlotYet == 0

(* stop(), up to its await of the calls in flight at this moment. *)
StopCall ==
    /\ running
    /\ running' = FALSE
    /\ timeouts' = Cleared
    /\ timer' = 0 /\ nextRunAt' = 0 /\ lastScheduledSlot' = NoSlotYet
    /\ awaiting' = inFlight
    /\ UNCHANGED <<armed, stopped, starts, crossed>>
    /\ UNCHANGED clockVars /\ UNCHANGED callVars

(* The promise of the last stop() resolves. *)
StopReturns ==
    /\ ~running /\ starts > 0 /\ ~stopped
    /\ awaiting \cap active = {}
    /\ stopped' = TRUE
    /\ awaiting' = {}
    /\ UNCHANGED <<running, starts, crossed>>
    /\ UNCHANGED clockVars /\ UNCHANGED chainVars /\ UNCHANGED callVars

(* Time passes for the clock and for every timeout. *)
Tick ==
    /\ now < MaxNow
    /\ now' = now + 1
    /\ timeouts' = {[t EXCEPT !.left = Later(@ - 1, 0)] : t \in timeouts}
    /\ UNCHANGED <<steps, timer, armed, lastScheduledSlot, nextRunAt>>
    /\ UNCHANGED callVars /\ UNCHANGED lifeVars

(* The wall clock is set (NTP, a suspended host, an operator). *)
ClockIsSet(to) ==
    /\ steps < MaxSteps
    /\ to # now
    /\ now' = to
    /\ steps' = steps + 1
    /\ UNCHANGED chainVars /\ UNCHANGED callVars /\ UNCHANGED lifeVars

SomeTimeoutFires == \E t \in timeouts : TimeoutFires(t)
SomeJobSettles == \E i \in active : JobSettles(i)

Next ==
    \/ Start \/ StopCall \/ StopReturns
    \/ SomeTimeoutFires
    \/ SomeJobSettles
    \/ Tick
    \/ \E to \in 1..MaxNow : ClockIsSet(to)

Spec == Init /\ [][Next]_vars

(* Time passes, the event loop calls what is due, and jobs settle: the     *)
(* probe and the queries of runSlot all have timeouts.                     *)
Fairness ==
    /\ WF_vars(Tick) /\ WF_vars(SomeTimeoutFires)
    /\ \A i \in 1..(MaxStarts * (MaxNow + 2)) : WF_vars(JobSettles(i))
FairSpec == Spec /\ Fairness
-----------------------------------------------------------------------------
(* Properties.                                                             *)

ChainCalls == {i \in active : fired[i].chain}

(* The setTimeout chain is one and does not break (scheduler.ts:97-99 and  *)
(* 37-38): at most one timeout is pending, the one this.timer can cancel   *)
(* and nextRunAt tells of; a running scheduler has it or a scheduled run   *)
(* whose finally will arm it, and not both, so that scheduled runs never   *)
(* overlap; one that is not running has no timeout.  A start() while a     *)
(* scheduled run of an earlier life is in flight may run the first of this *)
(* one beside it, and is crossed when the earlier one settles.             *)
ChainAlive ==
    /\ \A t \in timeouts : t.handle = timer /\ nextRunAt = t.slot
    /\ running => timeouts # {} \/ ChainCalls # {}
    /\ running /\ ~crossed =>
           Cardinality(timeouts)
             + Cardinality({i \in ChainCalls : fired[i].life = starts}) = 1
    /\ ~running => timeouts = {} /\ nextRunAt = 0

(* No slot is fired twice between a start and its stop, although a timeout *)
(* may fire before its slot begins, when the clock still shows the slot    *)
(* before, and although the clock may be set back; chain slots only go up. *)
(* And while nobody sets the clock, no slot is fired before it begins      *)
(* (scheduler.ts:35), but for the hair of line 106.                        *)
SlotsAdvance ==
    /\ \A i, j \in Calls :
           i < j /\ fired[i].life = fired[j].life => fired[i].slot < fired[j].slot
    /\ ~premature

(* scheduler.test.ts:98, "re-arms for the same upcoming boundary after     *)
(* stop() and restart": while a running scheduler waits, every boundary    *)
(* between now and its timeout has been fired already in this life, unless *)
(* the settling of an earlier life's run crossed it or the clock was set.  *)
NextBoundaryArmed ==
    ~crossed /\ steps = 0 =>
        \A t \in timeouts : \A slot \in (now + 1)..(t.slot - 1) :
            slot % Interval = 0 =>
                \E i \in Calls : fired[i].slot = slot /\ fired[i].life = starts

(* stop() drains: when it has resolved, no job runs, none is pending.      *)
StopDrains == stopped => active = {} /\ timeouts = {}

(* scheduler.test.ts:44, "keeps firing once per interval": while it runs, a*)
(* scheduler fires again and again, however long its jobs take, whether or *)
(* not they fail, and whatever the clock is set to, up to a timeout that   *)
(* lies past the end of time.                                              *)
Fires(n) == Cardinality({i \in Calls : fired[i].chain}) = n
KeepsFiring ==
    \A n \in 0..(MaxNow \div Interval) :
        (running /\ Fires(n))
            ~> (~Fires(n) \/ ~running \/ \E t \in timeouts : now + t.left > MaxNow)
=============================================================================
