------------------------------ MODULE Monitor ------------------------------
(***************************************************************************)
(* The monitoring of one API process as container.ts wires it up: the      *)
(* SlotScheduler calls PingService.runSlot, so does POST /internal/tick,   *)
(* and the host restarts a process that exited.  A step is one of a        *)
(* component, or one of both where one calls the other.                    *)
(***************************************************************************)
EXTENDS SlotScheduler

CONSTANTS
    MaxRuns,    \* bound: calls of runSlot
    MaxTicks,   \* bound: calls of /internal/tick among them
    MaxFaults   \* bound: crashes, failed queries, lost statements

ASSUME MonitorBoundsAssumption == MaxRuns \in Nat /\ MaxTicks \in Nat /\ MaxFaults \in Nat

VARIABLES
    up, pc, host, slot, inFlightSlots, stmt, rowId, rows, nextId, published,
    probed, faults,     \* the variables of PingService; its inFlight renamed
    runOf,              \* the call of runSlot each fire() of the scheduler made
    owed                \* history: the slots somebody has undertaken to record

Api == "api"
Run == 1..MaxRuns
Slots == {s \in 0..(MaxNow + Interval) : s % Interval = 0}
NoSlot == -1

Pipe == INSTANCE PingService
            WITH Process <- {Api}, Slot <- Slots, inFlight <- inFlightSlots

pipeVars == <<up, pc, host, slot, inFlightSlots, stmt, rowId, rows, nextId,
              published, probed, faults>>
monitorVars == <<now, steps, running, timer, timeouts, armed, lastScheduledSlot,
                 nextRunAt, fired, premature, active, inFlight, awaiting, stopped,
                 starts, crossed, up, pc, host, slot, inFlightSlots, stmt, rowId,
                 rows, nextId, published, probed, faults, runOf, owed>>

MonitorTypeOK ==
    /\ TypeOK /\ Pipe!TypeOK
    /\ runOf \in Seq(Run) /\ Len(runOf) = Len(fired)
    /\ \A i \in Calls : slot[runOf[i]] = fired[i].slot
    /\ owed \subseteq Slots
    /\ running => Api \in up

MonitorInit == Init /\ Pipe!Init /\ runOf = <<>> /\ owed = {}
-----------------------------------------------------------------------------
Used == {r \in Run : pc[r] # "idle"}
NextRun == Cardinality(Used) + 1

(* Seeded bug: container.ts calls runManual from the job. *)
CallRunManual(s) ==
    /\ NextRun \in Run
    /\ Pipe!RunManual(NextRun, Api)
    /\ owed' = owed \cup {s}

(* runSlot(s) is called. *)
CallRunSlot(s) ==
    /\ NextRun \in Run
    /\ Pipe!RunSlot(NextRun, Api, s) \/ Pipe!SkipInFlight(NextRun, Api, s)
    /\ owed' = owed \cup {s}

(* The job of the scheduler, as container.ts gives it. *)
Job(s) ==
    /\ CallRunSlot(s)
    /\ runOf' = Append(runOf, NextRun)

(* container.start() calls scheduler.start(), whose fire() calls the job. *)
Boot ==
    /\ Api \in up
    /\ Start
    /\ IF RunOnStart THEN Job(SlotStartFor(now))
                     ELSE UNCHANGED pipeVars /\ UNCHANGED <<runOf, owed>>

BoundaryFires ==
    \E t \in timeouts : TimeoutFires(t) /\ Job(t.slot)

(* Seeded bug: the slot after the current one is ticked. *)
TickedNext(at) == NextSlotAfter(at)

(* The slot /internal/tick asks for. *)
TickedSlot(at) == SlotStartFor(at)

(* POST /internal/tick. *)
CronTicks ==
    /\ Api \in up
    /\ Cardinality(Used) - Len(fired) < MaxTicks
    /\ CallRunSlot(TickedSlot(now))
    /\ UNCHANGED vars /\ UNCHANGED runOf

(* The promise of runSlot has settled: the await in fire() resumes. *)
JobReturns(i) ==
    /\ i \in active /\ pc[runOf[i]] \in Pipe!Settled
    /\ JobSettles(i)
    /\ UNCHANGED pipeVars /\ UNCHANGED <<runOf, owed>>

(* A slot is given up when its run is rejected or its statement lost, for  *)
(* the callers turned away with "in_flight" as well.                       *)
OwedAfter(r, failed) == IF failed THEN owed \ {slot[r]} ELSE owed

RunContinues(r) ==
    /\ Pipe!RunStep(r)
    /\ owed' = OwedAfter(r, pc'[r] = "rejected")
    /\ UNCHANGED vars /\ UNCHANGED runOf

StatementContinues(r) ==
    /\ Pipe!DbStep(r)
    /\ owed' = OwedAfter(r, stmt'[r] = "lost")
    /\ UNCHANGED vars /\ UNCHANGED runOf

(* The process exits: everything the scheduler has in memory is gone. *)
Crash ==
    /\ Pipe!Crash(Api)
    /\ running' = FALSE /\ crossed' = FALSE
    /\ timer' = 0 /\ timeouts' = {} /\ lastScheduledSlot' = 0 /\ nextRunAt' = 0
    /\ active' = {} /\ inFlight' = {}
    /\ owed' = {}
    /\ UNCHANGED <<now, steps, armed, fired, premature, awaiting, stopped, starts, runOf>>

(* The host starts it again; its start() is Boot. *)
Restart ==
    /\ Pipe!Restart(Api)
    /\ UNCHANGED vars /\ UNCHANGED <<runOf, owed>>

(* A slot begins and the scheduler has caught up with the clock: neither a *)
(* timeout nor a scheduled run of an earlier slot is pending, and this one *)
(* was not called a hair early.                                            *)
CaughtUp(s) ==
    /\ running
    /\ \A t \in timeouts : t.slot >= s
    /\ \A i \in ChainCalls : fired[i].slot >= s
    /\ \A i \in Calls : fired[i].life = starts => fired[i].slot # s

TimePasses ==
    /\ Tick
    /\ owed' = IF now' \in Slots /\ CaughtUp(now') THEN owed \cup {now'} ELSE owed
    /\ UNCHANGED pipeVars /\ UNCHANGED runOf

MonitorNext ==
    \/ Boot \/ BoundaryFires \/ CronTicks
    \/ \E i \in active : JobReturns(i)
    \/ \E r \in Run : RunContinues(r) \/ StatementContinues(r)
    \/ Crash \/ Restart
    \/ TimePasses

(* Time passes, the host restarts the process, the event loop calls what   *)
(* is due, and every await settles.                                        *)
MonitorFairness ==
    /\ WF_monitorVars(TimePasses)
    /\ WF_monitorVars(Boot) /\ WF_monitorVars(Restart)
    /\ WF_monitorVars(BoundaryFires)
    /\ \A i \in 1..MaxRuns : WF_monitorVars(JobReturns(i))
    /\ \A r \in Run : /\ WF_monitorVars(RunContinues(r))
                      /\ WF_monitorVars(StatementContinues(r))

MonitorSpec == MonitorInit /\ [][MonitorNext]_monitorVars
FairMonitorSpec == MonitorSpec /\ MonitorFairness
-----------------------------------------------------------------------------
(* Properties.                                                             *)

(* ADR-0004, "one ping per slot whoever triggers it": scheduler, cron,     *)
(* catch-up after a crash and their races implement the schedule: a slot   *)
(* is recorded at most once, and not before it begins.                     *)
Promise == INSTANCE Schedule WITH clock <- now, recorded <- rows
ImplementsSchedule == Promise!Spec

(* Every slot that somebody calls runSlot for, and every slot that begins  *)
(* while the scheduler runs and has caught up with the clock, is recorded, *)
(* unless a fault hits it.                                                 *)
OwedSlotsAreRecorded == \A s \in Slots : Promise!Kept(s)
=============================================================================
