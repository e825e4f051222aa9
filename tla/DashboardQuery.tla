--------------------------- MODULE DashboardQuery ---------------------------
(***************************************************************************)
(* A panel of the dashboard: the queries of one kind (the list, the stats, *)
(* the series, the detail of a ping), one of them shown, each fetch of it  *)
(* a call of RestCall; kept up to date by live pings, by reconnects of the *)
(* stream and, for the stats, by an interval.  The kind is the route of    *)
(* RestCall's request; calls of routes the page has no panel for settle by *)
(* themselves.                                                             *)
(*                                                                         *)
(* External, modelled from how the code uses it: TanStack Query.  A fetch  *)
(* of a query that has data restarts when it is asked for again, one that  *)
(* has none is joined; success clears the mark of invalidateQueries and    *)
(* the error; so does setQueryData; an error leaves the data and marks the *)
(* query; invalidateQueries refetches what is shown and marks the rest; a  *)
(* query is fetched when it comes to be shown and is stale; leaving it     *)
(* cancels its fetch; fetchNextPage is a fetch that appends to the pages   *)
(* there were when it began.  The windows of the stats and the series do   *)
(* not move and hold all pings.  Of a list, the pings recorded since the   *)
(* page mounted are modelled, all in the first page; its pages are the     *)
(* matter of DashboardCache.                                               *)
(***************************************************************************)
EXTENDS RestCall, FiniteSets

CONSTANTS
    Key,            \* the windows, filters or ids of the kind
    Narrow,         \* of the lists, the filter that not every ping matches
    LongLists,      \* of the lists, those with more rows than a page from the start
    NoKey,          \* the drawer is closed
    SeriesLimit,    \* the points the chart is given, 5000
    MaxPings,       \* bound: pings recorded
    MaxDisturbances \* bound: failed attempts, lost events and reopenings of the
                    \* stream, what the user does, data that grows old

ASSUME KeyAssumption ==
    /\ IsFiniteSet(Key) /\ Narrow \in Key /\ Key # {Narrow}
    /\ NoKey \notin Key
    /\ LongLists \subseteq Key
ASSUME PageBoundsAssumption == MaxPings \in Nat /\ MaxDisturbances \in Nat
(* A window has room in the chart (docs/adr/0002: 288 pings a day).        *)
ASSUME SeriesLimitAssumption == SeriesLimit \in Nat /\ SeriesLimit >= MaxPings

VARIABLES
    shown,          \* the key on the screen
    entry,          \* [Key -> Entry]: the query cache
    recorded,       \* the pings 1..recorded are in the database
    delivered,      \* the events of 1..delivered arrived or were lost
    carried,        \* the last data response was read with 1..carried there
    older,          \* fetchMeta: the last fetch of the panel is a "Load older"
    oldPages,       \* the data it appends to, while it is under way
    gap,            \* an event was lost and the stream has not reopened since
    excused,        \* history: the keys that miss a ping for a known reason
    disturbances

moreVars == <<older, oldPages>>
fetchVars == <<request, phase, answers, response, outcome, carried, older, oldPages>>
serverVars == <<recorded, delivered, gap>>
pageVars == <<shown, entry, recorded, delivered, carried, older, oldPages, gap,
              excused, disturbances>>
queryVars == <<request, phase, answers, response, outcome, shown, entry, recorded,
               delivered, carried, older, oldPages, gap, excused, disturbances>>

Ping == 1..MaxPings
Entry == [loaded : BOOLEAN, data : SUBSET Ping, marked : BOOLEAN,
          old : BOOLEAN, failed : BOOLEAN]
Empty == [loaded |-> FALSE, data |-> {}, marked |-> FALSE, old |-> FALSE, failed |-> FALSE]

Kind == request.route
Fetching == phase # "settled"

QueryTypeOK ==
    /\ TypeOK
    /\ shown \in Key \cup {NoKey}
    /\ entry \in [Key -> Entry]
    /\ \A k \in Key : entry[k].loaded \/ (entry[k].data = {} /\ ~entry[k].old)
    /\ recorded \in 0..MaxPings /\ delivered \in 0..recorded /\ carried \in 0..recorded
    /\ older \in BOOLEAN /\ oldPages \subseteq Ping
    /\ gap \in BOOLEAN /\ excused \subseteq Key
    /\ disturbances \in 0..MaxDisturbances
    /\ shown = NoKey => ~ByWeb \/ (Kind = "detail" /\ ~Fetching)

QueryInit ==
    /\ Init
    \* Mounted; for the detail, the drawer is opened.
    /\ shown = IF ByWeb THEN CHOOSE k \in Key \ {Narrow} : TRUE ELSE NoKey
    /\ entry = [k \in Key |-> Empty]
    /\ recorded = 0 /\ delivered = 0 /\ carried = 0
    /\ older = FALSE /\ oldPages = {}
    /\ gap = FALSE /\ excused = {}
    /\ disturbances = 0
-----------------------------------------------------------------------------
(* What the page shows: fetch state and data by themselves decide.         *)

(* RefreshError above the contents; or below, of the older pages only.     *)
Notice(e) ==
    IF ~e.failed THEN {} ELSE {IF older THEN "OlderError" ELSE "RefreshError"}

(* ErrorState takes the place of the contents, a notice is put next to it. *)
Panel(e, contents) ==
    IF ~e.loaded THEN {IF e.failed THEN "ErrorState" ELSE "Skeleton"}
    ELSE {contents} \cup Notice(e)

(* Seeded bug: isError is looked at before the data. *)
StatsCardsErrorFirst(e) ==
    IF e.failed THEN {"ErrorState"} ELSE Panel(e, "data")

StatsCards(e) == Panel(e, "data")

ResponseTimeChart(e) == Panel(e, IF e.data = {} THEN "EmptyState" ELSE "data")

NoRows(e) == e.data = {} /\ shown \notin LongLists
PingTable(e) == Panel(e, IF NoRows(e) THEN "EmptyState" ELSE "data")

(* The error of a refetch is above the ping. *)
PingDetailDrawer(e) ==
    {part \in {"Skeleton"} : ~e.loaded /\ ~e.failed}
      \cup {part \in {"ErrorState"} : e.failed}
      \cup {part \in {"data"} : e.loaded}

Parts(e) ==
    CASE Kind = "list" -> PingTable(e)
      [] Kind = "stats" -> StatsCards(e)
      [] Kind = "series" -> ResponseTimeChart(e)
      [] Kind = "detail" -> PingDetailDrawer(e)

OnScreen == IF shown = NoKey THEN {} ELSE Parts(entry[shown])
-----------------------------------------------------------------------------
Disturbance == disturbances < MaxDisturbances /\ disturbances' = disturbances + 1

(* A fetch of k starts; the error of a query without data goes. *)
Started(entries, k) == [entries EXCEPT ![k].failed = @ /\ entries[k].loaded]

AskFor(more, pages) ==
    /\ phase' = "asked" /\ answers' = <<>> /\ response' = <<>> /\ outcome' = Pending
    /\ older' = more /\ oldPages' = pages
    /\ UNCHANGED <<request, carried>>

Ask == AskFor(FALSE, {})

(* Seeded bug: a fetch under way is joined although there is data. *)
JoinedAlways(e) == TRUE

(* A fetch under way is joined, not restarted. *)
Joined(e) == ~e.loaded

(* refetch of the shown query, with entries in the cache. *)
Refetch(entries) ==
    IF shown = NoKey \/ (Fetching /\ Joined(entries[shown]))
    THEN entry' = entries /\ UNCHANGED fetchVars
    ELSE entry' = Started(entries, shown) /\ Ask

(* invalidateQueries of all keys of the kind. *)
Invalidate == Refetch([k \in Key |-> [entry[k] EXCEPT !.marked = TRUE]])

Stale(e) == ~e.loaded \/ e.marked \/ e.old

(* The answer that is being read has not seen this ping. *)
Outdated(ping) ==
    ~older /\ phase = "reading" /\ response[1].shape = "data" /\ carried < ping
-----------------------------------------------------------------------------
(* What the API answers with the pings 1..n in the table.                  *)

(* matchesFilter. *)
Matches(ping, k) == k = Narrow => ping % 2 = 0

List(k, n) == {ping \in 1..n : Matches(ping, k)}

Stats(n) == 1..n

(* The oldest ones. *)
Series(n) == {ping \in 1..n : ping <= SeriesLimit}

(* A detail is the ping itself. *)
Contents(k, n) ==
    CASE Kind = "list" -> List(k, n)
      [] Kind = "stats" -> Stats(n)
      [] Kind = "series" -> Series(n)
      [] Kind = "detail" -> {}
-----------------------------------------------------------------------------
(* The fetch of the shown query.                                           *)

(* The API reads the database and the head of its answer arrives. *)
Answer ==
    /\ Answered
    /\ carried' = IF response'[1].shape = "data" THEN recorded ELSE carried
    /\ IF response'[1].status >= 500 THEN Disturbance ELSE UNCHANGED disturbances
    /\ UNCHANGED <<shown, entry, excused>> /\ UNCHANGED serverVars /\ UNCHANGED moreVars

(* A "Load older" does not read the first page again: the pages there were *)
(* when it began stay, and what was merged since is overwritten.           *)
ReadPages == IF older THEN oldPages ELSE Contents(shown, carried)
Overwrites == older /\ oldPages # entry[shown].data

Load ==
    /\ ReadData
    /\ entry' = [entry EXCEPT ![shown] =
                     [Empty EXCEPT !.loaded = TRUE, !.data = ReadPages]]
    /\ excused' = IF Overwrites THEN excused \cup {shown}
                  ELSE IF older \/ carried < delivered THEN excused ELSE excused \ {shown}
    /\ older' = FALSE /\ oldPages' = {}
    /\ UNCHANGED <<shown, carried, disturbances>> /\ UNCHANGED serverVars

Errored(e) == [e EXCEPT !.failed = TRUE, !.marked = TRUE]

(* An attempt fails; the last one fails the fetch. *)
AttemptFails ==
    /\ \/ ReadFailure /\ UNCHANGED disturbances
       \/ (Unreachable \/ BodyBreaks) /\ Disturbance
    /\ IF phase' = "settled"
       THEN entry' = [entry EXCEPT ![shown] = Errored(@)] /\ oldPages' = {}
       ELSE UNCHANGED <<entry, oldPages>>
    /\ UNCHANGED <<shown, carried, older, excused>> /\ UNCHANGED serverVars

RetryDelayEnds == AskAgain /\ UNCHANGED pageVars

FetchStep == Answer \/ Load \/ AttemptFails \/ RetryDelayEnds
-----------------------------------------------------------------------------
(* What keeps the panel up to date.                                        *)

PingIsRecorded ==
    /\ ByWeb
    /\ recorded < MaxPings
    /\ recorded' = recorded + 1
    /\ UNCHANGED <<shown, entry, delivered, gap, excused, disturbances>>
    /\ UNCHANGED fetchVars

(* setQueryData of one list. *)
WithPing(e, k, ping) ==
    IF e.loaded /\ Matches(ping, k)
    THEN [Empty EXCEPT !.loaded = TRUE, !.data = e.data \cup {ping}] ELSE e

(* applyPingToCache: a live ping goes into the lists, and has the stats and*)
(* series fetched again.  A list that misses another ping, or whose fetch  *)
(* is older than this one, is not made whole by it, and no longer marked.  *)
LivePing ==
    /\ delivered < recorded
    /\ delivered' = delivered + 1
    /\ CASE Kind = "list" ->
              /\ entry' = [k \in Key |-> WithPing(entry[k], k, delivered')]
              /\ excused' = excused \cup {k \in Key : Matches(delivered', k) /\
                   ((entry[k].loaded /\ entry[k].marked) \/ (k = shown /\ Outdated(delivered')))}
              /\ UNCHANGED fetchVars
         [] Kind \in {"stats", "series"} ->
              /\ Invalidate
              /\ excused' = excused \cup {k \in {shown} : Outdated(delivered') /\ ~entry[k].loaded}
         [] Kind = "detail" ->
              UNCHANGED <<entry, excused>> /\ UNCHANGED fetchVars
    /\ UNCHANGED <<shown, recorded, gap, disturbances>>

EventIsLost ==
    /\ delivered < recorded
    /\ Disturbance
    /\ delivered' = delivered + 1
    /\ gap' = TRUE
    /\ UNCHANGED <<shown, entry, recorded, excused>> /\ UNCHANGED fetchVars

(* onopen after the first: every ping query is invalidated. *)
StreamReopens ==
    /\ ByWeb
    /\ Disturbance
    /\ Invalidate
    /\ gap' = FALSE
    /\ excused' = excused \cup {k \in {shown} \ {NoKey} :
                                  Outdated(delivered) /\ ~entry[k].loaded}
    /\ UNCHANGED <<shown, recorded, delivered>>

(* Seeded bug: no refetchInterval. *)
NoInterval == {}

(* The queries with a refetchInterval. *)
WithInterval == {"stats"}

(* It is over, and no fetch is under way to be joined. *)
IntervalEnds ==
    /\ Kind \in WithInterval
    /\ ~Fetching
    /\ Refetch(entry)
    /\ UNCHANGED <<shown, excused, disturbances>> /\ UNCHANGED serverVars

(* "Retry" and "Try again". *)
RetryIsClicked ==
    /\ OnScreen \cap {"RefreshError", "ErrorState"} # {}
    /\ Disturbance
    /\ Refetch(entry)
    /\ UNCHANGED <<shown, excused>> /\ UNCHANGED serverVars

(* "Load older responses": it is disabled while such a fetch is under way, *)
(* the retry of one that failed is not.  It cancels a refetch, and neither *)
(* that nor the notice of one that failed comes back when it succeeds.     *)
LoadOlder ==
    /\ Kind = "list" /\ shown \in LongLists
    /\ entry[shown].loaded
    /\ Fetching /\ older => "OlderError" \in OnScreen
    /\ Disturbance
    /\ AskFor(TRUE, entry[shown].data)
    /\ excused' = IF entry[shown].marked THEN excused \cup {shown} ELSE excused
    /\ UNCHANGED <<shown, entry>> /\ UNCHANGED serverVars

(* A window or filter is chosen: the first, the next, any of them. *)
Chosen(k) == Kind # "detail" /\ k \in Key \ {shown}

(* A ping of the table; the drawer covers the others while it is open. *)
Selected(k) == Kind = "detail" /\ shown = NoKey /\ k \in Key

Closed(k) == Kind = "detail" /\ shown # NoKey /\ k = NoKey

Show(k) ==
    /\ ByWeb
    /\ Chosen(k) \/ Selected(k) \/ Closed(k)
    /\ Disturbance
    /\ shown' = k
    /\ IF k # NoKey /\ Stale(entry[k])
       THEN entry' = Started(entry, k) /\ Ask
       ELSE /\ Cancel \/ (~Fetching /\ UNCHANGED vars)
            /\ older' = FALSE /\ oldPages' = {}
            /\ UNCHANGED <<entry, carried>>
    /\ UNCHANGED excused /\ UNCHANGED serverVars

(* staleTime is over for the data of k. *)
GrowsOld(k) ==
    /\ entry[k].loaded /\ ~entry[k].old
    /\ Disturbance
    /\ entry' = [entry EXCEPT ![k].old = TRUE]
    /\ UNCHANGED <<shown, excused>> /\ UNCHANGED serverVars /\ UNCHANGED fetchVars

(* A query nobody shows is thrown away. *)
IsCollected(k) ==
    /\ k # shown /\ entry[k] # Empty
    /\ Disturbance
    /\ entry' = [entry EXCEPT ![k] = Empty]
    /\ excused' = excused \ {k}
    /\ UNCHANGED shown /\ UNCHANGED serverVars /\ UNCHANGED fetchVars

(* A call of a route the page does not call. *)
OtherCall == ((~ByWeb /\ Answered) \/ TakenByOther) /\ UNCHANGED pageVars

QueryNext ==
    \/ ByWeb /\ FetchStep
    \/ PingIsRecorded \/ LivePing \/ EventIsLost \/ StreamReopens
    \/ IntervalEnds \/ RetryIsClicked \/ LoadOlder
    \/ \E k \in Key \cup {NoKey} : Show(k)
    \/ \E k \in Key : GrowsOld(k) \/ IsCollected(k)
    \/ OtherCall

QuerySpec == QueryInit /\ [][QueryNext]_queryVars

(* fetch settles and the retry delay ends; setInterval goes on, while the  *)
(* page is visible.                                                        *)
FairQuerySpec ==
    QuerySpec /\ WF_queryVars(ByWeb /\ FetchStep) /\ WF_queryVars(IntervalEnds)
-----------------------------------------------------------------------------
(* Properties.                                                             *)

(* RefreshError.tsx:8, "never replaces the data the user can already see": *)
(* a panel that shows data goes on showing it, through refetches, their    *)
(* failures, retries and reconnects, until another key is shown, and what  *)
(* stats, series and details show never goes back to an earlier reading.   *)
ShowsData == OnScreen \cap {"data", "EmptyState"} # {}
NeverBackwards ==
    [][ShowsData /\ shown' = shown =>
           ShowsData' /\ (Kind = "list" \/ entry[shown].data \subseteq entry'[shown].data)]_queryVars

(* While nothing is under way, a panel is up to date with the database or  *)
(* says that it may not be; or the stream lost an event and has not        *)
(* reopened (LiveIndicator says so), or one of the things came about that  *)
(* cost a query a ping: an event or a reopening joined to a first load     *)
(* already answered; a list overwritten by an answer, or by a "Load older",*)
(* older than its last event; the mark of a hidden or failed list cleared  *)
(* by a live ping; a "Load older" in place of a refetch that was under way *)
(* or had failed.                                                          *)
Belongs(ping) == Kind = "list" => Matches(ping, shown)
Current ==
    shown # NoKey /\ entry[shown].data = {ping \in 1..recorded : Belongs(ping)}
CurrentOrFlagged ==
    (shown # NoKey /\ Kind # "detail" /\ ~Fetching /\ delivered = recorded)
        => \/ Current
           \/ OnScreen \cap {"RefreshError", "ErrorState"} # {}
           \/ gap \/ shown \in excused

(* hooks.ts:19, "keeps ... fresh between live events": whatever is lost or *)
(* joined, the stats come to show all that is recorded, for good.          *)
CatchUp ==
    (Kind = "stats" /\ ~AtFault) => <>[]Current
=============================================================================
