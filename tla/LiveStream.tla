----------------------------- MODULE LiveStream -----------------------------
(***************************************************************************)
(* The live path of a ping, from 'ping.created' to one open dashboard: the *)
(* SSE hub and the /api/stream route with its replay, the browser's        *)
(* EventSource with its own reconnects, and the useLiveStream hook with    *)
(* its backoff and its refetch after a reconnect.                          *)
(*                                                                         *)
(* Pings are their ids.  Identity values are drawn in order, but commits   *)
(* and publications come in any order (PingService); what the page knows   *)
(* of the REST history is the set of ids its fetches returned.  The list   *)
(* is one that stays on the screen, its attempts are those of RestCall.    *)
(***************************************************************************)
EXTENDS Integers, Sequences, FiniteSets

CONSTANTS
    MaxId,          \* bound: pings
    MaxConn,        \* bound: requests of /api/stream
    ReplayLimit,    \* replayLimit
    MaxFaults       \* bound: broken connections, restarts, failed replays, non-200s,
                    \* failed attempts of the list's fetch

ASSUME MaxIdAssumption == MaxId \in Nat \ {0}
ASSUME ReplayLimitAssumption == ReplayLimit \in Nat \ {0}
(* Each request after the first follows a fault: the bound is never felt.  *)
ASSUME BoundsAssumption ==
    MaxFaults \in Nat /\ MaxConn \in Nat /\ MaxConn > MaxFaults

Id == 1..MaxId
Conn == 1..MaxConn

VARIABLES
    (* server *)
    ping,           \* [Id -> "none", "drawn", "committed" or "published"]
    hub,            \* SseHub.clients
    replay,         \* [Conn -> "none", "asked", "read", "done" or "failed"]: the handler
    missed,         \* [Conn -> Seq(Id)]: what listAfter returned
    (* network *)
    header,         \* [Conn -> Nat]: Last-Event-ID of the request, 0 if none
    wire,           \* [Conn -> Seq(Id)]: events written and not yet dispatched
    (* browser *)
    conn,           \* the request the current EventSource waits on or reads
    es,             \* "connecting", "open", "waiting" (will retry), "failed", "closed"
    lastEventId,    \* of the current EventSource
    hasOpened,      \* of useLiveStream
    reconnectTimer, \* of useLiveStream: armed
    status,         \* of the connection store
    delivered,      \* ids that reached onPingCreated
    fetch,          \* the list query: "asked", "answered"; "idle" once applied;
                    \* "abandoned" if given up, or if Load older took its place
    snapshot,       \* the answer of the fetch under way
    fetched,        \* ids the applied fetches returned
    loaded,         \* the list query has data
    (* history and bounds *)
    fetchFor,       \* the request whose onopen asked for the last fetch, 0 at mount
    before,         \* published when the current request was registered
    owed,           \* published since the stream first opened on a loaded page
    faults

serverVars == <<ping, hub, replay, missed>>
sourceVars == <<conn, es, lastEventId, header>>
hookVars == <<hasOpened, reconnectTimer, status>>
fetchVars == <<fetch, snapshot, fetched, loaded, fetchFor>>
historyVars == <<before, owed>>
pageVars == <<delivered, fetchVars>>
clientVars == <<sourceVars, hookVars, pageVars>>
vars == <<serverVars, wire, sourceVars, hookVars, delivered, fetchVars, before,
          owed, faults>>

Status == {"connecting", "open", "reconnecting", "closed"}

TypeOK ==
    /\ ping \in [Id -> {"none", "drawn", "committed", "published"}]
    /\ hub \in SUBSET Conn
    /\ replay \in [Conn -> {"none", "asked", "read", "done", "failed"}]
    /\ missed \in [Conn -> Seq(Id)] /\ wire \in [Conn -> Seq(Id)]
    /\ header \in [Conn -> 0..MaxId] /\ lastEventId \in 0..MaxId
    /\ conn \in Conn
    /\ es \in {"connecting", "open", "waiting", "failed", "closed"}
    /\ hasOpened \in BOOLEAN /\ reconnectTimer \in BOOLEAN
    /\ status \in Status
    /\ fetch \in {"asked", "answered", "idle", "abandoned"} /\ fetchFor \in 0..MaxConn
    /\ loaded \in BOOLEAN
    /\ \A ids \in {delivered, snapshot, fetched, before, owed} : ids \subseteq Id
    /\ faults \in 0..MaxFaults

(* The page mounts: the list is asked for and connect() makes a source. *)
Init ==
    /\ ping = [i \in Id |-> "none"]
    /\ hub = {}
    /\ replay = [c \in Conn |-> "none"] /\ missed = [c \in Conn |-> <<>>]
    /\ header = [c \in Conn |-> 0] /\ wire = [c \in Conn |-> <<>>]
    /\ conn = 1 /\ es = "connecting" /\ lastEventId = 0
    /\ hasOpened = FALSE /\ reconnectTimer = FALSE /\ status = "connecting"
    /\ delivered = {}
    /\ fetch = "asked" /\ snapshot = {} /\ fetched = {} /\ loaded = FALSE
    /\ fetchFor = 0 /\ before = {} /\ owed = {}
    /\ faults = 0

Published == {i \in Id : ping[i] = "published"}
InTable == {i \in Id : ping[i] \in {"committed", "published"}}
Fetching == fetch \in {"asked", "answered"}
Connected(c) == c = conn /\ es \in {"connecting", "open"}
Fault == faults < MaxFaults /\ faults' = faults + 1
-----------------------------------------------------------------------------
(* The pipeline, as PingService leaves it.                                 *)

Draw(i) ==
    /\ ping[i] = "none"
    /\ \A j \in 1..(i - 1) : ping[j] # "none"
    /\ ping' = [ping EXCEPT ![i] = "drawn"]
    /\ UNCHANGED <<hub, replay, missed, wire, clientVars, historyVars, faults>>

Commit(i) ==
    /\ ping[i] = "drawn"
    /\ ping' = [ping EXCEPT ![i] = "committed"]
    /\ UNCHANGED <<hub, replay, missed, wire, clientVars, historyVars, faults>>

(* bus.publish -> hub.broadcast -> write on every registered response; a   *)
(* response whose connection is gone takes the write and drops it.         *)
Publish(i) ==
    /\ ping[i] = "committed"
    /\ ping' = [ping EXCEPT ![i] = "published"]
    /\ wire' = [c \in Conn |-> IF c \in hub /\ Connected(c)
                               THEN Append(wire[c], i) ELSE wire[c]]
    /\ owed' = IF hasOpened /\ loaded THEN owed \cup {i} ELSE owed
    /\ UNCHANGED <<hub, replay, missed, clientVars, before, faults>>
-----------------------------------------------------------------------------
(* The /api/stream route.                                                  *)

(* Seeded bug: a response that asks for a replay is not registered at once.*)
RegisteredLater(c) == IF header[c] > 0 THEN hub ELSE hub \cup {c}

(* hub.add. *)
Registered(c) == hub \cup {c}

(* Head written, response registered, Last-Event-ID read, all before the   *)
(* handler first awaits. *)
Serve(c) ==
    /\ Connected(c)
    /\ replay[c] = "none"
    /\ hub' = Registered(c)
    /\ replay' = [replay EXCEPT ![c] = IF header[c] > 0 THEN "asked" ELSE "done"]
    /\ before' = Published
    /\ UNCHANGED <<ping, missed, wire, clientVars, owed, faults>>

(* Seeded bug: the first id above is skipped. *)
BehindNext(afterId) == {i \in InTable : i > afterId + 1}

Behind(afterId) == {i \in InTable : i > afterId}

(* The ids > afterId that are in the table, oldest first, at most limit. *)
Rank(ids, i) == Cardinality({j \in ids : j <= i})
ListAfter(afterId, limit) ==
    LET ids == Behind(afterId)
        size == IF Cardinality(ids) > limit THEN limit ELSE Cardinality(ids)
    IN  [k \in 1..size |-> CHOOSE i \in ids : Rank(ids, i) = k]

(* The replay query reads the table ... *)
ReplayRead(c) ==
    /\ replay[c] = "asked"
    /\ replay' = [replay EXCEPT ![c] = "read"]
    /\ missed' = [missed EXCEPT ![c] = ListAfter(header[c], ReplayLimit)]
    /\ UNCHANGED <<ping, hub, wire, clientVars, historyVars, faults>>

(* ... and its answer is written in one go, behind the broadcasts that     *)
(* were written meanwhile. *)
ReplayWrite(c) ==
    /\ replay[c] = "read"
    /\ replay' = [replay EXCEPT ![c] = "done"]
    /\ wire' = IF Connected(c) THEN [wire EXCEPT ![c] = @ \o missed[c]] ELSE wire
    /\ missed' = [missed EXCEPT ![c] = <<>>]
    /\ UNCHANGED <<ping, hub, clientVars, historyVars, faults>>

(* A failed replay is logged and the stream goes on. *)
ReplayFails(c) ==
    /\ replay[c] = "asked"
    /\ replay' = [replay EXCEPT ![c] = "failed"]
    /\ Fault
    /\ UNCHANGED <<ping, hub, missed, wire, clientVars, historyVars>>

(* 'close' of a response whose connection is gone. *)
Remove(c) ==
    /\ c \in hub /\ ~Connected(c)
    /\ hub' = hub \ {c}
    /\ UNCHANGED <<ping, replay, missed, wire, clientVars, historyVars, faults>>
-----------------------------------------------------------------------------
(* The browser's EventSource and the handlers useLiveStream gives it.      *)

(* Seeded bugs: no refetch; a fetch under way is joined, not restarted. *)
NoRefetch == FALSE
Unrestarted == IF Fetching THEN fetch ELSE "asked"

(* What onopen invalidates is read again, but for a list not loaded yet,   *)
(* whose first fetch is left alone if it is under way.                     *)
Refetches == hasOpened /\ (loaded \/ ~Fetching)
Restarted == "asked"

(* The response head arrives: onopen. *)
Open ==
    /\ es = "connecting"
    /\ replay[conn] # "none"
    /\ es' = "open"
    /\ IF Refetches
       THEN fetch' = Restarted /\ fetchFor' = conn
       ELSE UNCHANGED <<fetch, fetchFor>>
    /\ hasOpened' = TRUE
    /\ status' = "open"
    /\ UNCHANGED <<serverVars, wire, conn, lastEventId, header, reconnectTimer,
                   delivered, snapshot, fetched, loaded, historyVars, faults>>

(* An event is dispatched: onPingCreated. *)
Deliver ==
    /\ es = "open"
    /\ wire[conn] # <<>>
    /\ lastEventId' = Head(wire[conn])
    /\ delivered' = delivered \cup {Head(wire[conn])}
    /\ wire' = [wire EXCEPT ![conn] = Tail(@)]
    /\ UNCHANGED <<serverVars, conn, es, header, hookVars, fetchVars,
                   historyVars, faults>>

(* The connection breaks, and what was on it is lost: onerror with a       *)
(* source that will retry. *)
Drop ==
    /\ es' = "waiting"
    /\ status' = "reconnecting"
    /\ wire' = [wire EXCEPT ![conn] = <<>>]
    /\ UNCHANGED <<ping, missed, conn, lastEventId, header, hasOpened,
                   reconnectTimer, pageVars, historyVars>>

Break ==
    /\ es \in {"connecting", "open"}
    /\ Fault
    /\ Drop
    /\ UNCHANGED <<hub, replay>>

(* The API process restarts: its hub and its handlers are gone as well. *)
Restart ==
    /\ es \in {"connecting", "open"}
    /\ Fault
    /\ Drop
    /\ hub' = {}
    /\ replay' = [c \in Conn |-> IF c <= conn THEN "done" ELSE replay[c]]

(* A new request, of this source (with its Last-Event-ID) or of a new one. *)
Request(lastId) ==
    /\ conn < MaxConn
    /\ conn' = conn + 1
    /\ es' = "connecting"
    /\ header' = [header EXCEPT ![conn + 1] = lastId]
    /\ lastEventId' = lastId

(* Seeded bug: the source asks from the id after the last. *)
NextEventId == lastEventId + 1

SentEventId == lastEventId

(* The retry: delay passed, the browser tries again. *)
Retry ==
    /\ es = "waiting"
    /\ Request(SentEventId)
    /\ UNCHANGED <<serverVars, wire, hookVars, pageVars, historyVars, faults>>

(* Seeded bug: a fatal error is taken for a transient one. *)
NoBackoff == FALSE

(* readyState tells that the source is CLOSED. *)
Backoff == TRUE

(* The answer is not a 200 (a proxy during a deploy): the source is CLOSED,*)
(* and onerror arms the backoff. *)
Fatal ==
    /\ es = "connecting"
    /\ replay[conn] = "none"
    /\ Fault
    /\ es' = "failed"
    /\ status' = "reconnecting"
    /\ reconnectTimer' = Backoff
    /\ UNCHANGED <<serverVars, wire, conn, lastEventId, header, hasOpened,
                   pageVars, historyVars>>

(* The backoff ends: connect() with a fresh EventSource. *)
Reconnect ==
    /\ reconnectTimer
    /\ reconnectTimer' = FALSE
    /\ Request(0)
    /\ status' = "connecting"
    /\ UNCHANGED <<serverVars, wire, hasOpened, pageVars, historyVars, faults>>

(* The effect's cleanup. *)
Unmount ==
    /\ es # "closed"
    /\ es' = "closed"
    /\ status' = "closed"
    /\ reconnectTimer' = FALSE
    /\ UNCHANGED <<serverVars, wire, conn, lastEventId, header, hasOpened,
                   pageVars, historyVars, faults>>
-----------------------------------------------------------------------------
(* The list query: the server reads the table, the page takes the answer.  *)

FetchRead ==
    /\ fetch = "asked"
    /\ fetch' = "answered"
    /\ snapshot' = InTable
    /\ UNCHANGED <<serverVars, wire, sourceVars, hookVars, delivered, fetched,
                   loaded, fetchFor, historyVars, faults>>

FetchApply ==
    /\ fetch = "answered"
    /\ fetch' = "idle"
    /\ fetched' = fetched \cup snapshot
    /\ loaded' = TRUE
    /\ UNCHANGED <<serverVars, wire, sourceVars, hookVars, delivered, snapshot,
                   fetchFor, historyVars, faults>>

FetchGoesTo(state) ==
    /\ fetch' = state
    /\ UNCHANGED <<serverVars, wire, sourceVars, hookVars, delivered, snapshot,
                   fetched, loaded, fetchFor, historyVars>>

(* An attempt fails: there is another, or it was the last of three.        *)
AttemptFails ==
    /\ Fetching
    /\ Fault
    /\ FetchGoesTo("asked") \/ FetchGoesTo("abandoned")

(* "Load older" cancels a refetch under way, and its success clears the    *)
(* mark; what it appends is older than the pings modelled here.            *)
LoadOlder ==
    /\ loaded /\ Fetching
    /\ FetchGoesTo("abandoned")
    /\ UNCHANGED faults

(* "Retry" of the notice that a failed fetch leaves, or the list comes to  *)
(* be shown again and its data is old.                                     *)
FetchAgain ==
    /\ fetch = "abandoned"
    /\ FetchGoesTo("asked")
    /\ UNCHANGED faults
-----------------------------------------------------------------------------
RouteStep(c) == Serve(c) \/ ReplayRead(c) \/ ReplayWrite(c)
SourceStep == Open \/ Deliver \/ Retry \/ Reconnect

Next ==
    \/ \E i \in Id : Draw(i) \/ Commit(i) \/ Publish(i)
    \/ \E c \in Conn : RouteStep(c) \/ ReplayFails(c) \/ Remove(c)
    \/ SourceStep
    \/ Break \/ Restart \/ Fatal \/ Unmount
    \/ FetchRead \/ FetchApply \/ AttemptFails \/ LoadOlder \/ FetchAgain

Spec == Init /\ [][Next]_vars

(* Handlers resume, the network delivers, the browser retries and timers   *)
(* fire; nobody promises that a ping is made, that the page stays open or  *)
(* that its user retries.                                                  *)
FairSpec ==
    /\ Spec
    /\ \A c \in Conn : WF_vars(RouteStep(c))
    /\ WF_vars(SourceStep) /\ WF_vars(FetchRead) /\ WF_vars(FetchApply)
-----------------------------------------------------------------------------
(* Properties.                                                             *)

OnWire == {wire[conn][k] : k \in DOMAIN wire[conn]}
Told == delivered \cup fetched
Above(afterId) == {i \in Id : i > afterId}

(* stream.routes.ts:27: nothing published since the response was           *)
(* registered is lost, replay or not; it is delivered or on the wire.      *)
NothingLostWhileRegistered ==
    es \in {"connecting", "open"} /\ replay[conn] # "none"
        => Published \ before \subseteq delivered \cup OnWire

(* The safety net: once the refetch asked for by an onopen is applied, a   *)
(* page whose stream stays open has missed nothing at all, whatever the    *)
(* replay did: what the refetch was too early for came after hub.add.      *)
RefetchClosesTheGap ==
    es = "open" /\ fetch = "idle" /\ fetchFor = conn
        => Published \subseteq Told \cup OnWire

(* Every ping published once the stream had opened on a loaded page gets   *)
(* to the page in the end, by broadcast, replay or refetch, through broken *)
(* connections, restarts and fatal answers, unless the page goes away or   *)
(* is left with a stream that is up and a refetch that failed three times  *)
(* or that "Load older" took the place of.                                 *)
Unrepaired == es = "open" /\ fetch = "abandoned"
OwedIsTold == \A i \in Id : (i \in owed) ~> (i \in Told \/ es = "closed" \/ Unrepaired)

(* The stream comes back after transient and fatal errors.                 *)
StreamComesBack ==
    (es \in {"connecting", "waiting", "failed"}) ~> (es \in {"open", "closed"})

(* docs/adr/0003:21, "replay makes brief disconnects lossless": once the   *)
(* replay of a reconnect is written and was not cut at its limit, all that *)
(* is published above the last id the browser saw has come, or is on its   *)
(* way.  Of a ping with a lower id, published late, it says nothing.       *)
ReplayBringsWhatIsAbove ==
    es = "open" /\ header[conn] > 0 /\ replay[conn] = "done"
        /\ Cardinality(Above(header[conn])) <= ReplayLimit
        => Published \cap Above(header[conn]) \subseteq delivered \cup OnWire

(* use-live-stream.ts:21-22, "after any reconnect we also refetch every    *)
(* ping query as a safety net": behind a reconnect, with no fetch under    *)
(* way, the page has missed nothing.                                       *)
ReconnectMissesNothing ==
    es = "open" /\ conn > 1 /\ fetch = "idle" => Published \subseteq Told \cup OnWire
=============================================================================
