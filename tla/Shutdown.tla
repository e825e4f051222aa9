------------------------------ MODULE Shutdown ------------------------------
(***************************************************************************)
(* A graceful shutdown: the signal handler of server.ts, closeGracefully,  *)
(* the container's stop() and SseHub.stop(), while scheduled runs, a       *)
(* retention sweep, /internal requests and event streams are under way.    *)
(*                                                                         *)
(* External, modelled from how the code uses it: Node's http server        *)
(* (close() takes no new connections and closes idle ones, its callback    *)
(* runs when no connection is left, a response that ends leaves its socket *)
(* open) and pg's pool (after end() a new query rejects; end() resolves    *)
(* when no query is out).                                                  *)
(***************************************************************************)
EXTENDS Naturals, FiniteSets

CONSTANTS
    Conn,       \* client connections
    Sched,      \* calls of the ping scheduler's job (a bound: each used once)
    Sweep,      \* calls of the retention scheduler's job
    Req,        \* calls of /tick and /ping-now
    PoolMayFail \* pool.end() may reject

Job == Sched \cup Sweep \cup Req

ASSUME KindsAssumption ==
    Sched \cap Sweep = {} /\ Sched \cap Req = {} /\ Sweep \cap Req = {}
ASSUME NamesAssumption == Job \cap {"none", "idle", "stream"} = {}
ASSUME PoolAssumption == PoolMayFail \in BOOLEAN

VARIABLES
    stage,      \* how far the shutdown is (see Stage)
    pool,       \* the pg pool: "open", "ending", "ended"
    job,        \* [Job -> Progress]
    conn,       \* [Conn -> "none", "idle", "stream", or the request it carries]
    hub,        \* SseHub.clients
    watching    \* history: streams registered at the signal, still connected

vars == <<stage, pool, job, conn, hub, watching>>

Exited == {"clean", "failed", "forced"}     \* exit codes 0, 1, 1
Stage == {"serving", "scheduler", "retention", "pool", "sockets"} \cup Exited
Querying == {"checking", "writing"}         \* a query of it is out
Active == Querying \cup {"probing"}
Progress == {"idle", "done", "failed", "refused"} \cup Active

TypeOK ==
    /\ stage \in Stage
    /\ pool \in {"open", "ending", "ended"}
    /\ job \in [Job -> Progress]
    /\ conn \in [Conn -> {"none", "idle", "stream"} \cup Req]
    /\ hub = {c \in Conn : conn[c] = "stream"}     \* open streams, no others
    /\ watching \in SUBSET Conn

Init ==
    /\ stage = "serving" /\ pool = "open"
    /\ job = [j \in Job |-> "idle"]
    /\ conn = [c \in Conn |-> "none"]
    /\ hub = {} /\ watching = {}

Alive == stage \notin Exited
Busy(jobs) == \E j \in jobs : job[j] \in Active
-----------------------------------------------------------------------------
(* The work of the process.                                                *)

(* A timeout fires; stop() of its scheduler cleared it. *)
Fire(j) ==
    /\ job[j] = "idle"
    /\ \/ j \in Sched /\ stage = "serving"
          /\ job' = [job EXCEPT ![j] = "checking"]
       \/ j \in Sweep /\ stage \in {"serving", "scheduler"}
          /\ job' = [job EXCEPT ![j] = "writing"]
    /\ UNCHANGED <<stage, pool, conn, hub, watching>>

(* The promise of a job settles; a request is answered, if it still can be.*)
Settle(j, outcome) ==
    /\ job' = [job EXCEPT ![j] = outcome]
    /\ conn' = [c \in Conn |-> IF conn[c] = j THEN "idle" ELSE conn[c]]

(* POST /tick or /ping-now on a connection that waits for its next request.*)
Ask(r, c) ==
    /\ Alive
    /\ job[r] = "idle" /\ conn[c] = "idle"
    /\ \/ job' = [job EXCEPT ![r] = "probing"] /\ conn' = [conn EXCEPT ![c] = r]
       \/ /\ pool = "open"
          /\ job' = [job EXCEPT ![r] = "checking"] /\ conn' = [conn EXCEPT ![c] = r]
       \/ pool # "open" /\ Settle(r, "refused")
    /\ UNCHANGED <<stage, pool, hub, watching>>

(* existsForSlot answers or rejects. *)
Checked(j) ==
    /\ Alive
    /\ job[j] = "checking"
    /\ \/ job' = [job EXCEPT ![j] = "probing"] /\ UNCHANGED conn
       \/ \E outcome \in {"done", "failed"} : Settle(j, outcome)
    /\ UNCHANGED <<stage, pool, hub, watching>>

(* The probe settles and the insert is asked for. *)
Probed(j) ==
    /\ Alive
    /\ job[j] = "probing"
    /\ \/ pool = "open" /\ job' = [job EXCEPT ![j] = "writing"] /\ UNCHANGED conn
       \/ pool # "open" /\ Settle(j, "refused")
    /\ UNCHANGED <<stage, pool, hub, watching>>

(* insert or deleteOlderThan answers or rejects; a row is broadcast. *)
Written(j) ==
    /\ Alive
    /\ job[j] = "writing"
    /\ \E outcome \in {"done", "failed"} : Settle(j, outcome)
    /\ UNCHANGED <<stage, pool, hub, watching>>
-----------------------------------------------------------------------------
(* The clients.                                                            *)

Connect(c) ==
    /\ stage = "serving"
    /\ conn[c] = "none"
    /\ conn' = [conn EXCEPT ![c] = "idle"]
    /\ UNCHANGED <<stage, pool, job, hub, watching>>

(* GET /api/stream: the hub takes it, stopped or not. *)
OpenStream(c) ==
    /\ Alive
    /\ conn[c] = "idle"
    /\ conn' = [conn EXCEPT ![c] = "stream"]
    /\ hub' = hub \cup {c}
    /\ UNCHANGED <<stage, pool, job, watching>>

(* Seeded bug: no 'close' listener. *)
DisconnectUnheard(c) ==
    /\ Alive
    /\ conn[c] # "none"
    /\ conn' = [conn EXCEPT ![c] = "none"]
    /\ watching' = watching \ {c}
    /\ UNCHANGED <<stage, pool, job, hub>>

(* The client closes its connection: 'close' removes its response. *)
Disconnect(c) ==
    /\ Alive
    /\ conn[c] # "none"
    /\ conn' = [conn EXCEPT ![c] = "none"]
    /\ hub' = hub \ {c}
    /\ watching' = watching \ {c}
    /\ UNCHANGED <<stage, pool, job>>
-----------------------------------------------------------------------------
(* The shutdown.                                                           *)

(* SseHub.stop(). *)
EndStreams ==
    /\ conn' = [c \in Conn |-> IF c \in hub THEN "idle" ELSE conn[c]]
    /\ hub' = {}

(* Seeded bug: the streams are ended before the runs are drained. *)
SignalEndingStreams ==
    /\ stage = "serving"
    /\ stage' = "scheduler"
    /\ watching' = hub
    /\ EndStreams
    /\ UNCHANGED <<pool, job>>

(* The first SIGTERM or SIGINT: the server closes, the scheduler stops and *)
(* its calls under way are awaited; the 10 s timer is armed. *)
Signal ==
    /\ stage = "serving"
    /\ stage' = "scheduler"
    /\ conn' = [c \in Conn |-> IF conn[c] = "idle" THEN "none" ELSE conn[c]]
    /\ watching' = hub
    /\ UNCHANGED <<pool, job, hub>>

(* Seeded bug: scheduler.stop() is not awaited. *)
SchedulerStopped ==
    /\ stage = "scheduler"
    /\ stage' = "retention"
    /\ UNCHANGED <<pool, job, conn, hub, watching>>

(* scheduler.stop() resolves; retention stops and is awaited. *)
SchedulerDrained ==
    /\ stage = "scheduler"
    /\ ~Busy(Sched)
    /\ stage' = "retention"
    /\ UNCHANGED <<pool, job, conn, hub, watching>>

(* retention.stop() resolves: the streams end and the pool is ended. *)
RetentionDrained ==
    /\ stage = "retention"
    /\ ~Busy(Sweep)
    /\ stage' = "pool"
    /\ pool' = "ending"
    /\ EndStreams
    /\ UNCHANGED <<job, watching>>

(* server.closeAllConnections(). *)
CutAll ==
    /\ conn' = [c \in Conn |-> "none"]
    /\ hub' = {} /\ watching' = {}

(* Seeded bug: the sockets that are left stay open. *)
PoolEndsLeavingSockets ==
    /\ stage = "pool"
    /\ \A j \in Job : job[j] \notin Querying
    /\ pool' = "ended"
    /\ stage' = "sockets"
    /\ UNCHANGED <<job, conn, hub, watching>>

(* pool.end() resolves, and stop() with it: what is still open is cut. *)
PoolEnds ==
    /\ stage = "pool"
    /\ \A j \in Job : job[j] \notin Querying
    /\ pool' = "ended"
    /\ stage' = "sockets"
    /\ CutAll
    /\ UNCHANGED job

(* stop() rejects: everything is cut all the same, and the process exits. *)
PoolEndFails ==
    /\ PoolMayFail
    /\ stage = "pool"
    /\ stage' = "failed"
    /\ CutAll
    /\ UNCHANGED <<pool, job>>

(* The callback of server.close() runs: exit(0). *)
ServerClosed ==
    /\ stage = "sockets"
    /\ \A c \in Conn : conn[c] = "none"
    /\ stage' = "clean"
    /\ UNCHANGED <<pool, job, conn, hub, watching>>

(* The 10 s timer. *)
ForcedExit ==
    /\ stage \in {"scheduler", "retention", "pool", "sockets"}
    /\ stage' = "forced"
    /\ UNCHANGED <<pool, job, conn, hub, watching>>
-----------------------------------------------------------------------------
JobStep(j) == Checked(j) \/ Probed(j) \/ Written(j)
StopStep == SchedulerDrained \/ RetentionDrained \/ PoolEnds \/ ServerClosed

Next ==
    \/ \E j \in Job : JobStep(j) \/ Fire(j)
    \/ \E r \in Req, c \in Conn : Ask(r, c)
    \/ \E c \in Conn : Connect(c) \/ OpenStream(c) \/ Disconnect(c)
    \/ Signal \/ StopStep
    \/ PoolEndFails \/ ForcedExit

Spec == Init /\ [][Next]_vars

(* Probes and queries have timeouts, so jobs settle, and the shutdown goes *)
(* on; the 10 s timer is not relied on, nor is a client that goes away.    *)
FairSpec == Spec /\ (\A j \in Job : WF_vars(JobStep(j))) /\ WF_vars(StopStep)
-----------------------------------------------------------------------------
(* Properties.                                                             *)

(* container.ts:101-102, "Drain any in-flight scheduled run before ending  *)
(* the pool": no run of either scheduler is under way once the pool ends,  *)
(* and none ever had its query refused; only requests can.                 *)
DrainedBeforePoolEnds ==
    /\ pool # "open" => ~Busy(Sched \cup Sweep)
    /\ \A j \in Job : job[j] = "refused" => j \in Req

(* The row of a run that the shutdown drains is still broadcast to every   *)
(* dashboard that was watching when the signal came and has not left.      *)
DrainedRunsAreBroadcast ==
    [][\A j \in Sched :
          job[j] = "writing" /\ job'[j] = "done" => watching \subseteq hub]_vars

(* Exit code 0 means that nothing was given up but the probes of requests: *)
(* the pool is released, no connection is left, no query is out.           *)
CleanExitIsClean ==
    stage = "clean" =>
        /\ pool = "ended" /\ hub = {}
        /\ \A j \in Job : job[j] \in Active => j \in Req /\ job[j] = "probing"

(* close-gracefully.ts:8-12: a shutdown ends by itself, without the forced *)
(* exit, whatever streams are open or reopened meanwhile.                  *)
ShutdownFinishes == (stage # "serving") ~> (stage \in Exited)
=============================================================================
