--------------------------- MODULE DashboardCache ---------------------------
(***************************************************************************)
(* The list of pings a dashboard keeps for one status filter: REST pages   *)
(* by keyset cursor, live pings merged into the first page, refetches and  *)
(* "Load older", all of them asynchronous and all writing the same cache   *)
(* entry.  useInfiniteQuery is modelled from the calls the dashboard makes *)
(* of it: a fetch reads page after page and replaces the data at its end;  *)
(* "Load older" appends to the pages there were when it began; a new fetch *)
(* cancels the one under way, unless there is no data yet.                 *)
(***************************************************************************)
EXTENDS Integers, Sequences, FiniteSets

CONSTANTS
    MaxId,          \* bound: pings
    PageSize,       \* PAGE_SIZE
    MaxPending,     \* bound: events under way at a time
    Replays,        \* the server may send old events again (Last-Event-ID)
    Lossy           \* events may get lost (a broken stream)

ASSUME MaxIdAssumption == MaxId \in Nat /\ MaxPending \in Nat
ASSUME PageSizeAssumption == PageSize \in Nat \ {0}
ASSUME StreamAssumption == Replays \in BOOLEAN /\ Lossy \in BOOLEAN

Id == 1..MaxId

VARIABLES
    table,      \* ping_results
    matching,   \* the pings of Id the filter lets through
    pending,    \* 'ping.created' events on their way
    lastEventId,\* the last event that arrived (0 before the first)
    loaded,     \* data is not undefined
    pages,      \* data.pages: data, newest first, and nextCursor (0 for null)
    fetch,      \* the fetch under way (see Fetch)
    stale,      \* history: an event was missed since the last complete refetch
    misplaced   \* history: since then a ping that belongs below the first page
                \* was merged into it

vars == <<table, matching, pending, lastEventId, loaded, pages, fetch, stale, misplaced>>

Page == [data : Seq(Id), next : 0..MaxId]

(* kind; the pages it starts from; how many it wants; those it has; whether*)
(* an event was missed or may be overwritten since it began.               *)
Fetch == [kind : {"idle", "all", "older"}, old : Seq(Page), want : Nat,
          got : Seq(Page), raced : BOOLEAN]
Idle == [kind |-> "idle", old |-> <<>>, want |-> 0, got |-> <<>>, raced |-> FALSE]

TypeOK ==
    /\ table \subseteq Id /\ matching \subseteq Id /\ pending \subseteq table
    /\ lastEventId \in 0..MaxId
    /\ loaded \in BOOLEAN /\ stale \in BOOLEAN /\ misplaced \in BOOLEAN
    /\ pages \in Seq(Page) /\ (loaded <=> pages # <<>>)
    /\ fetch \in Fetch

(* The page mounts on a table with some history: the first fetch starts.   *)
Init ==
    /\ table \in {1..n : n \in 0..MaxId}
    /\ matching \in SUBSET Id
    /\ pending = {} /\ lastEventId = 0
    /\ loaded = FALSE
    /\ pages = <<>>
    /\ fetch = [Idle EXCEPT !.kind = "all", !.want = 1]
    /\ stale = FALSE /\ misplaced = FALSE
-----------------------------------------------------------------------------
(* The sort of a family of ids, newest first: an entry stands behind those *)
(* above it and, of equal ones, behind those before it. *)
Before(ids, j, k) == ids[j] > ids[k] \/ (ids[j] = ids[k] /\ j <= k)
Place(ids, k) == Cardinality({j \in DOMAIN ids : Before(ids, j, k)})
Sorted(ids) ==
    [n \in 1..Cardinality(DOMAIN ids) |-> ids[CHOOSE k \in DOMAIN ids : Place(ids, k) = n]]

Descending(ids) == Sorted([i \in ids |-> i])

(* Seeded bug: the page after a cursor starts one id too late. *)
UnderNext(cursor) == {i \in table \cap matching : cursor = 0 \/ i < cursor - 1}

Under(cursor) == {i \in table \cap matching : cursor = 0 \/ i < cursor}

(* PingRepository.list: the newest rows under the cursor, and the last id  *)
(* as the next cursor if there are more. *)
List(cursor) ==
    LET rows == Under(cursor)
        page == {i \in rows : Cardinality({j \in rows : j > i}) < PageSize}
        last == Descending(page)[Cardinality(page)]
    IN  [data |-> Descending(page), next |-> IF page = rows THEN 0 ELSE last]

Ids(page) == {page.data[k] : k \in DOMAIN page.data}
Shown == UNION {Ids(pages[k]) : k \in DOMAIN pages}

(* Seeded bug: no look for an id that is there already. *)
InsertPingUnchecked(i) ==
    IF ~loaded THEN pages
    ELSE [pages EXCEPT ![1].data = Sorted(Append(@, i))]

(* insertPing: into the first page, in its place; the cursors stay. *)
InsertPing(i) ==
    IF ~loaded \/ i \in Shown THEN pages
    ELSE [pages EXCEPT ![1].data = Sorted(Append(@, i))]
-----------------------------------------------------------------------------
(* The server records and announces a ping, in any order of the ids.       *)
Record(i) ==
    /\ i \notin table
    /\ Cardinality(pending) < MaxPending
    /\ table' = table \cup {i}
    /\ pending' = pending \cup {i}
    /\ UNCHANGED <<matching, lastEventId, loaded, pages, fetch, stale, misplaced>>

(* A live ping while a fetch is under way: when that ends, the page as it  *)
(* was read replaces the page the ping was merged into.                    *)
Missed == fetch' = IF fetch.kind = "idle" THEN fetch ELSE [fetch EXCEPT !.raced = TRUE]

(* A ping the list does not have, below the cursor of the first page. *)
BelowFirstPage(i) ==
    /\ loaded /\ i \in matching \ Shown
    /\ i < pages[1].next

(* applyPingToCache for this filter. *)
Apply(i) ==
    /\ pages' = IF i \in matching THEN InsertPing(i) ELSE pages
    /\ Missed
    /\ misplaced' = (misplaced \/ BelowFirstPage(i))
    /\ lastEventId' = i
    /\ UNCHANGED <<table, matching, loaded, stale>>

Deliver(i) ==
    /\ i \in pending
    /\ pending' = pending \ {i}
    /\ Apply(i)

(* The replay of a reconnect: the ids after the last event, in order.      *)
Redeliver(i) ==
    /\ Replays /\ lastEventId > 0
    /\ i \in table /\ i > lastEventId
    /\ \A j \in table : j > lastEventId => i <= j
    /\ Apply(i)
    /\ UNCHANGED pending

(* An event is lost with its connection. *)
Lose(i) ==
    /\ Lossy
    /\ i \in pending
    /\ pending' = pending \ {i}
    /\ stale' = TRUE
    /\ Missed
    /\ UNCHANGED <<table, matching, lastEventId, loaded, pages, misplaced>>
-----------------------------------------------------------------------------
(* invalidateQueries after a reconnect, or a retry button: all pages there *)
(* are read again.  With no data yet, a fetch under way is kept.           *)
Refetch ==
    /\ loaded \/ fetch.kind = "idle"
    /\ fetch' = [kind |-> "all", old |-> pages, got |-> <<>>, raced |-> FALSE,
                 want |-> IF loaded THEN Len(pages) ELSE 1]
    /\ UNCHANGED <<table, matching, pending, lastEventId, loaded, pages, stale, misplaced>>

(* "Load older responses": the button is there when rows are shown and the *)
(* last page has a cursor, and enabled unless it is loading already.       *)
LoadOlder ==
    /\ loaded /\ Shown # {}
    /\ pages[Len(pages)].next # 0
    /\ fetch.kind # "older"
    /\ fetch' = [kind |-> "older", old |-> pages, got |-> <<>>, raced |-> FALSE, want |-> 1]
    /\ UNCHANGED <<table, matching, pending, lastEventId, loaded, pages, stale, misplaced>>

(* The pages the fetch has so far. *)
Coming == IF fetch.kind = "older" THEN fetch.old \o fetch.got ELSE fetch.got

(* The cursor of its next request. *)
NextParam == IF Coming = <<>> THEN 0 ELSE Coming[Len(Coming)].next

Complete ==
    \/ Len(fetch.got) = fetch.want
    \/ Len(fetch.got) > 0 /\ NextParam = 0

(* One GET /api/pings of the fetch. *)
FetchPage ==
    /\ fetch.kind # "idle"
    /\ ~Complete
    /\ fetch' = [fetch EXCEPT !.got = Append(@, List(NextParam))]
    /\ UNCHANGED <<table, matching, pending, lastEventId, loaded, pages, stale, misplaced>>

(* The fetch ends: its result replaces the data. *)
FetchDone ==
    /\ fetch.kind # "idle"
    /\ Complete
    /\ pages' = Coming
    /\ loaded' = TRUE
    /\ stale' = (fetch.raced \/ (fetch.kind = "older" /\ stale))
    /\ misplaced' = (fetch.kind = "older" /\ misplaced)
    /\ fetch' = Idle
    /\ UNCHANGED <<table, matching, pending, lastEventId>>

(* Seeded bug: a failed fetch takes the data away. *)
NoPages == <<>>

PagesBefore == pages

(* A request and its retries fail: the data stays as it is. *)
FetchFails ==
    /\ fetch.kind # "idle"
    /\ ~Complete
    /\ fetch' = Idle
    /\ pages' = PagesBefore
    /\ UNCHANGED <<table, matching, pending, lastEventId, loaded, stale, misplaced>>
-----------------------------------------------------------------------------
Next ==
    \/ \E i \in Id : Record(i) \/ Deliver(i) \/ Redeliver(i) \/ Lose(i)
    \/ Refetch \/ LoadOlder
    \/ FetchPage \/ FetchDone \/ FetchFails

Spec == Init /\ [][Next]_vars
-----------------------------------------------------------------------------
(* Properties.                                                             *)

(* PingTable.tsx:79, "newest first", and cache.ts:17, "no duplicates (the  *)
(* server may replay events after a reconnect)": so are the rows over all  *)
(* pages, however fetches, "Load older", live pings and replays interleave,*)
(* unless an event late by more than a page was merged into the first one: *)
(* "Load older" may then show it again.                                    *)
NewestFirst ==
    ~misplaced =>
        /\ \A k \in DOMAIN pages : \A n \in 1..(Len(pages[k].data) - 1) :
              pages[k].data[n] > pages[k].data[n + 1]
        /\ \A k, l \in DOMAIN pages : k < l =>
              \A i \in Ids(pages[k]), j \in Ids(pages[l]) : i > j

(* The list is whole at every moment: every row down to the last page's    *)
(* cursor that the filter lets through is shown, but for those announced   *)
(* and yet to arrive, unless an event was missed that no full refetch has  *)
(* repaired; and nothing below that cursor is, unless a ping was misplaced.*)
Window ==
    LET next == pages[Len(pages)].next
    IN  {i \in table \cap matching : next = 0 \/ i >= next}
ListIsWhole ==
    loaded => /\ ~stale => Window \subseteq Shown \cup pending
              /\ ~misplaced => Shown \subseteq Window

(* docs/adr/0005:8, REST and SSE "must converge on one consistent view":   *)
(* with nothing under way, no row is missing.                              *)
ChannelsConverge ==
    loaded /\ fetch.kind = "idle" /\ pending = {} => Window \subseteq Shown

=============================================================================
