---------------------------- MODULE PingService ----------------------------
(***************************************************************************)
(* PingService.runSlot / runManual (ping-service.ts) running in several    *)
(* Node processes over one Postgres table: payload -> probe -> persist ->  *)
(* publish, with both idempotency layers, the in-process set of slots in   *)
(* flight and the unique index on slot_start.                              *)
(*                                                                         *)
(* A run is one call of runSlot or runManual.  Every await is a point      *)
(* where other runs, other processes, failures and process exits come in;  *)
(* the INSERT is modelled apart from its caller, since Postgres goes on    *)
(* with a statement whose client timed out or died.                        *)
(***************************************************************************)
EXTENDS Integers, Sequences, FiniteSets

CONSTANTS
    Process,    \* Node processes sharing the database
    Run,        \* calls of runSlot and runManual (a bound: each is used once)
    Slot,       \* slot starts the callers ask for
    NoSlot,     \* the slot of a manual ping (NULL)
    MaxFaults   \* bound on crashes, failed queries and lost answers

ASSUME NoSlotAssumption == NoSlot \notin Slot
ASSUME MaxFaultsAssumption == MaxFaults \in Nat
ASSUME ProcessAssumption == IsFiniteSet(Process)

VARIABLES
    up,         \* the processes that are alive
    pc,         \* [Run -> Stage]: where each call stands
    host,       \* [Run -> Process]: the process that executes it
    slot,       \* [Run -> Slot or NoSlot]: its slotStart argument
    inFlight,   \* [Process -> SUBSET Slot]: inFlightSlots
    stmt,       \* [Run -> Statement]: its INSERT as Postgres sees it
    rowId,      \* [Run -> Nat]: the identity value its INSERT drew, or 0
    rows,       \* ping_results: the committed rows
    nextId,     \* the identity sequence of ping_results.id
    published,  \* [Process -> Seq(Nat)]: ids of 'ping.created' on its bus
    probed,     \* history: the runs that sent their probe
    faults      \* faults so far

clientVars == <<pc, host, slot, inFlight>>
dbVars == <<stmt, rowId, rows, nextId>>
vars == <<up, pc, host, slot, inFlight, stmt, rowId, rows, nextId, published,
          probed, faults>>

Active == {"checking", "probing", "inserting"}
Settled == {"recorded", "already_recorded", "in_flight", "rejected"}
Stage == {"idle", "crashed"} \cup Active \cup Settled
Statement == {"none", "sent", "numbered", "committed", "conflict", "lost"}
Row == [id : Nat, slot : Slot \cup {NoSlot}]

TypeOK ==
    /\ up \in SUBSET Process
    /\ pc \in [Run -> Stage]
    /\ host \in [Run -> Process]
    /\ slot \in [Run -> Slot \cup {NoSlot}]
    /\ inFlight \in [Process -> SUBSET Slot]
    /\ stmt \in [Run -> Statement]
    /\ rowId \in [Run -> Nat]
    /\ rows \in SUBSET Row
    /\ nextId \in Nat \ {0}
    /\ published \in [Process -> Seq(Nat)]
    /\ probed \in SUBSET Run
    /\ faults \in 0..MaxFaults

Init ==
    /\ up = Process
    /\ pc = [r \in Run |-> "idle"]
    /\ host \in {[r \in Run |-> p] : p \in Process}     \* set on each call
    /\ slot = [r \in Run |-> NoSlot]
    /\ inFlight = [p \in Process |-> {}]
    /\ stmt = [r \in Run |-> "none"]
    /\ rowId = [r \in Run |-> 0]
    /\ rows = {}
    /\ nextId = 1
    /\ published = [p \in Process |-> <<>>]
    /\ probed = {}
    /\ faults = 0

Fault == faults < MaxFaults /\ faults' = faults + 1

Recorded(s) == \E row \in rows : row.slot = s

(* The query existsForSlot makes. *)
ExistsForSlot(s) == s # NoSlot /\ Recorded(s)
-----------------------------------------------------------------------------
(* The calls.                                                              *)

(* A new call r of p, for slot s. *)
Call(r, p, s) ==
    /\ pc[r] = "idle"
    /\ p \in up
    /\ host' = [host EXCEPT ![r] = p]
    /\ slot' = [slot EXCEPT ![r] = s]
    /\ UNCHANGED <<up, published, faults>> /\ UNCHANGED dbVars

(* runSlot of a slot no other run of this process is busy with: it takes   *)
(* the key and asks the store. *)
RunSlot(r, p, s) ==
    /\ s \notin inFlight[p]
    /\ Call(r, p, s)
    /\ inFlight' = [inFlight EXCEPT ![p] = @ \cup {s}]
    /\ pc' = [pc EXCEPT ![r] = "checking"]
    /\ UNCHANGED probed

(* Seeded bug: the early return inside the try, so that finally gives the  *)
(* key of the other run away. *)
SkipInsideTry(r, p, s) ==
    /\ s \in inFlight[p]
    /\ Call(r, p, s)
    /\ pc' = [pc EXCEPT ![r] = "in_flight"]
    /\ inFlight' = [inFlight EXCEPT ![p] = @ \ {s}]
    /\ UNCHANGED probed

(* runSlot of a slot in flight: returns before the try, so its finally     *)
(* does not give the other run's key away. *)
SkipInFlight(r, p, s) ==
    /\ s \in inFlight[p]
    /\ Call(r, p, s)
    /\ pc' = [pc EXCEPT ![r] = "in_flight"]
    /\ UNCHANGED <<inFlight, probed>>

(* Seeded bug: the null slot of a manual ping is taken as a key. *)
ManualKey(r, p) ==
    /\ Call(r, p, NoSlot)
    /\ pc' = [pc EXCEPT ![r] = "probing"]
    /\ probed' = probed \cup {r}
    /\ inFlight' = [inFlight EXCEPT ![p] = @ \cup {NoSlot}]

(* runManual: straight to execute, no slot, no key. *)
RunManual(r, p) ==
    /\ Call(r, p, NoSlot)
    /\ pc' = [pc EXCEPT ![r] = "probing"]
    /\ probed' = probed \cup {r}
    /\ UNCHANGED inFlight

(* The call returns or throws; the finally of runSlot gives the key back   *)
(* (runManual has none, and NoSlot is in no inFlight). *)
Leave(r, outcome) ==
    /\ pc' = [pc EXCEPT ![r] = outcome]
    /\ inFlight' = [inFlight EXCEPT ![host[r]] = @ \ {slot[r]}]
    /\ UNCHANGED <<up, host, slot>>

(* Seeded bug: the answer of existsForSlot used the wrong way round. *)
HitOnAbsence(r) ==
    /\ pc[r] = "checking"
    /\ Leave(r, "already_recorded")
    /\ UNCHANGED <<published, probed, faults>> /\ UNCHANGED dbVars

(* The answer of existsForSlot: a hit ends the run ... *)
CheckHit(r) ==
    /\ pc[r] = "checking"
    /\ ExistsForSlot(slot[r])
    /\ Leave(r, "already_recorded")
    /\ UNCHANGED <<published, probed, faults>> /\ UNCHANGED dbVars

(* Seeded bug: the recorded slot is not looked up before the probe. *)
ProbeUnchecked(r) ==
    /\ pc[r] = "checking"
    /\ pc' = [pc EXCEPT ![r] = "probing"]
    /\ probed' = probed \cup {r}
    /\ UNCHANGED <<up, host, slot, inFlight, published, faults>>
    /\ UNCHANGED dbVars

(* ... a miss starts execute: the payload is made and the probe is sent. *)
CheckMiss(r) ==
    /\ pc[r] = "checking"
    /\ ~ExistsForSlot(slot[r])
    /\ pc' = [pc EXCEPT ![r] = "probing"]
    /\ probed' = probed \cup {r}
    /\ UNCHANGED <<up, host, slot, inFlight, published, faults>>
    /\ UNCHANGED dbVars

(* existsForSlot rejects: no connection in time, or query_timeout. *)
CheckFails(r) ==
    /\ pc[r] = "checking"
    /\ Leave(r, "rejected")
    /\ Fault
    /\ UNCHANGED <<published, probed>> /\ UNCHANGED dbVars

(* send never throws: with or without an answer, its result is inserted. *)
ProbeSettles(r) ==
    /\ pc[r] = "probing"
    /\ pc' = [pc EXCEPT ![r] = "inserting"]
    /\ stmt' = [stmt EXCEPT ![r] = "sent"]
    /\ UNCHANGED <<up, host, slot, inFlight, rowId, rows, nextId, published,
                   probed, faults>>

(* insert returned the row: publish runs the handlers before it returns,   *)
(* and the run ends. *)
InsertReturnsRow(r) ==
    /\ pc[r] = "inserting"
    /\ stmt[r] = "committed"
    /\ published' = [published EXCEPT ![host[r]] = Append(@, rowId[r])]
    /\ Leave(r, "recorded")
    /\ UNCHANGED <<probed, faults>> /\ UNCHANGED dbVars

(* Seeded bug: the null of insert is not told from a row. *)
PublishOnNull(r) ==
    /\ pc[r] = "inserting"
    /\ stmt[r] = "conflict"
    /\ published' = [published EXCEPT ![host[r]] = Append(@, rowId[r])]
    /\ Leave(r, "recorded")
    /\ UNCHANGED <<probed, faults>> /\ UNCHANGED dbVars

(* insert returned null: another run recorded the slot; nothing is published. *)
InsertReturnsNull(r) ==
    /\ pc[r] = "inserting"
    /\ stmt[r] = "conflict"
    /\ Leave(r, "already_recorded")
    /\ UNCHANGED <<published, probed, faults>> /\ UNCHANGED dbVars

(* Seeded bug: no query_timeout, a lost statement is awaited for ever. *)
NoQueryTimeout(r) ==
    /\ pc[r] = "inserting"
    /\ stmt[r] # "lost" /\ Fault
    /\ Leave(r, "rejected")
    /\ UNCHANGED <<published, probed>> /\ UNCHANGED dbVars

(* insert rejects: the statement was lost, or the client gave up           *)
(* (connectionTimeoutMillis, query_timeout, a broken connection) on one    *)
(* that may yet run, or has run. *)
InsertRejects(r) ==
    /\ pc[r] = "inserting"
    /\ \/ stmt[r] = "lost" /\ UNCHANGED faults
       \/ stmt[r] # "lost" /\ Fault
    /\ Leave(r, "rejected")
    /\ UNCHANGED <<published, probed>> /\ UNCHANGED dbVars
-----------------------------------------------------------------------------
(* Postgres: INSERT ... ON CONFLICT (slot_start) DO NOTHING RETURNING *.   *)

(* The identity column draws its value first, used or not. *)
DrawId(r) ==
    /\ stmt[r] = "sent"
    /\ stmt' = [stmt EXCEPT ![r] = "numbered"]
    /\ rowId' = [rowId EXCEPT ![r] = nextId]
    /\ nextId' = nextId + 1
    /\ UNCHANGED <<up, rows, published, probed, faults>> /\ UNCHANGED clientVars

(* Seeded bug: slot_start without its unique index. *)
CommitUnchecked(r) ==
    /\ stmt[r] = "numbered"
    /\ stmt' = [stmt EXCEPT ![r] = "committed"]
    /\ rows' = rows \cup {[id |-> rowId[r], slot |-> slot[r]]}
    /\ UNCHANGED <<up, rowId, nextId, published, probed, faults>>
    /\ UNCHANGED clientVars

(* The row is visible from here on; NULLs never conflict. *)
Commit(r) ==
    /\ stmt[r] = "numbered"
    /\ slot[r] # NoSlot => ~Recorded(slot[r])
    /\ stmt' = [stmt EXCEPT ![r] = "committed"]
    /\ rows' = rows \cup {[id |-> rowId[r], slot |-> slot[r]]}
    /\ UNCHANGED <<up, rowId, nextId, published, probed, faults>>
    /\ UNCHANGED clientVars

(* The unique index has the slot: no row, and none returned. *)
Conflict(r) ==
    /\ stmt[r] = "numbered"
    /\ slot[r] # NoSlot /\ Recorded(slot[r])
    /\ stmt' = [stmt EXCEPT ![r] = "conflict"]
    /\ UNCHANGED <<up, rowId, rows, nextId, published, probed, faults>>
    /\ UNCHANGED clientVars

(* The statement never reached Postgres, or was rolled back. *)
LoseStatement(r) ==
    /\ stmt[r] \in {"sent", "numbered"}
    /\ stmt' = [stmt EXCEPT ![r] = "lost"]
    /\ Fault
    /\ UNCHANGED <<up, rowId, rows, nextId, published, probed>>
    /\ UNCHANGED clientVars
-----------------------------------------------------------------------------
(* A process exits (crash, forced exit, pool ended under its runs): its    *)
(* calls and its set are gone, its statements are not. *)
Crash(p) ==
    /\ p \in up
    /\ Fault
    /\ up' = up \ {p}
    /\ pc' = [r \in Run |-> IF host[r] = p /\ pc[r] \in Active
                            THEN "crashed" ELSE pc[r]]
    /\ inFlight' = [inFlight EXCEPT ![p] = {}]
    /\ UNCHANGED <<host, slot, published, probed>> /\ UNCHANGED dbVars

Restart(p) ==
    /\ p \notin up
    /\ up' = up \cup {p}
    /\ UNCHANGED <<published, probed, faults>>
    /\ UNCHANGED clientVars /\ UNCHANGED dbVars
-----------------------------------------------------------------------------
RunStep(r) ==
    \/ CheckHit(r) \/ CheckMiss(r) \/ CheckFails(r)
    \/ ProbeSettles(r)
    \/ InsertReturnsRow(r) \/ InsertReturnsNull(r) \/ InsertRejects(r)

DbStep(r) == DrawId(r) \/ Commit(r) \/ Conflict(r) \/ LoseStatement(r)

CallStep(r) ==
    \E p \in Process :
        \/ \E s \in Slot : RunSlot(r, p, s) \/ SkipInFlight(r, p, s)
        \/ RunManual(r, p)

Next ==
    \/ \E r \in Run : CallStep(r) \/ RunStep(r) \/ DbStep(r)
    \/ \E p \in Process : Crash(p) \/ Restart(p)

Spec == Init /\ [][Next]_vars

(* send aborts after PING_TIMEOUT_MS and the pool bounds every query, so   *)
(* neither a run nor a statement stands still for ever. *)
FairSpec ==
    Spec /\ \A r \in Run : WF_vars(RunStep(r)) /\ WF_vars(DbStep(r))
-----------------------------------------------------------------------------
(* Properties.                                                             *)

Failed(r) == pc[r] \in {"rejected", "crashed"}
Holds(r, p, s) == pc[r] \in Active /\ host[r] = p /\ slot[r] = s

(* Layer 1 of the idempotency comment (ping-service.ts:37): a slot is in a *)
(* process's inFlightSlots exactly while one run of that process works on  *)
(* it, through every return, rejection and exit; two runs never share it.  *)
SlotKeys ==
    \A p \in Process, s \in Slot :
        /\ s \in inFlight[p] <=> \E r \in Run : Holds(r, p, s)
        /\ \A r1, r2 \in Run : Holds(r1, p, s) /\ Holds(r2, p, s) => r1 = r2

(* A process probes a slot again only after its earlier run failed: of two *)
(* runs of one process that probed the same slot, one ended in an error or *)
(* with the process.  Neither layer gives this alone: the key covers the   *)
(* time until the row is there, existsForSlot the time after.              *)
ReprobeOnlyAfterFailure ==
    \A r1, r2 \in probed :
        (r1 # r2 /\ host[r1] = host[r2] /\ slot[r1] = slot[r2] /\ slot[r1] # NoSlot)
            => Failed(r1) \/ Failed(r2)

(* What a caller is told is true: "recorded" means that the run's own row  *)
(* is in the table and was published once, by its process, and every event *)
(* stems from such a run; "already_recorded" means that the slot has a row *)
(* and that the run did not write it.                                      *)
OutcomeTold ==
    /\ \A r \in Run : pc[r] = "recorded" =>
          /\ [id |-> rowId[r], slot |-> slot[r]] \in rows
          /\ \E i \in DOMAIN published[host[r]] : published[host[r]][i] = rowId[r]
    /\ \A r \in Run : pc[r] = "already_recorded" =>
          Recorded(slot[r]) /\ stmt[r] # "committed"
    /\ \A p \in Process : \A i \in DOMAIN published[p] :
          \E r \in Run : /\ pc[r] = "recorded" /\ host[r] = p
                        /\ rowId[r] = published[p][i]
    /\ \A p, q \in Process : \A i \in DOMAIN published[p], j \in DOMAIN published[q] :
          published[p][i] = published[q][j] => p = q /\ i = j

(* A slot is probed at most once per process, plus once per fault: without *)
(* faults two processes probe it at most twice, as ADR-0004 says.          *)
ProbeBudget ==
    \A s \in Slot : Cardinality({r \in probed : slot[r] = s})
                    <= Cardinality(Process) + faults

(* The pipeline implements the ledger: slots recorded at most once, only   *)
(* recorded pings announced.                                               *)
announcedIds == UNION {{published[p][i] : i \in DOMAIN published[p]} : p \in Process}
Ledger == INSTANCE PingLedger WITH recorded <- rows, announced <- announcedIds
ImplementsLedger == Ledger!Spec

(* A call returns or throws in the end, whatever the network and the       *)
(* database do (or its process exits); and without faults the slot it asks *)
(* for gets its row, whether the call works on it or was turned away with  *)
(* "in_flight" and relies on the one that does.                            *)
EveryRunSettles ==
    \A r \in Run :
        /\ pc[r] \in Active ~> pc[r] \notin Active
        /\ (slot[r] # NoSlot) ~> (Recorded(slot[r]) \/ faults > 0)
=============================================================================
