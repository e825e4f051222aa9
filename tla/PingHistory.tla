---------------------------- MODULE PingHistory ----------------------------
(***************************************************************************)
(* PingRepository as a reader of the history meets it: a client walks the  *)
(* pages of list() while inserts commit late and out of order and the      *)
(* retention sweep deletes.  Every statement reads one snapshot.           *)
(*                                                                         *)
(* A ping's requestedAt is read before its probe and its id is drawn by    *)
(* its INSERT, so neither order says anything of the other, or of the      *)
(* order in which rows become visible.                                     *)
(***************************************************************************)
EXTENDS Integers, Sequences, FiniteSets

CONSTANTS
    MaxId,      \* bound: pings
    MaxNow,     \* bound: the time at which the clock stops
    MaxDelay,   \* from a ping's requestedAt to its INSERT: all timeouts together
    Retain,     \* RETENTION_DAYS
    Limit       \* limit: rows of a page

ASSUME BoundsAssumption == MaxId \in Nat /\ MaxNow \in Nat /\ MaxDelay \in Nat
ASSUME RetainAssumption == Retain \in Nat \ {0}
ASSUME LimitAssumption == Limit \in Nat \ {0}

Id == 1..MaxId
Row == [id : Id, requestedAt : 0..MaxNow, ok : BOOLEAN]
Filter == {"all", "success", "failure"}

VARIABLES
    now,
    nextId,     \* the identity sequence
    inserting,  \* rows whose id is drawn and that are not committed
    table,      \* ping_results
    cutoff,     \* of the sweep under way, -1 for none
    status,     \* the filter of the walk
    cursor,     \* its next cursor: 0 for none (first page), -1 for null (the end)
    got,        \* the rows of its pages, in order
    kept,       \* history: rows there since the walk began
    seen,       \* history: rows there at some time since the walk began
    swept       \* history: rows deleted, and when: [row, at]

walkVars == <<status, cursor, got, kept, seen>>
vars == <<now, nextId, inserting, table, cutoff, walkVars, swept>>

TypeOK ==
    /\ now \in 0..MaxNow
    /\ nextId \in 1..(MaxId + 1)
    /\ inserting \in SUBSET Row /\ table \in SUBSET Row
    /\ \A row \in table \cup inserting :
          row.id < nextId /\ \A other \in table \cup inserting : row.id = other.id => row = other
    /\ cutoff \in -1..MaxNow
    /\ status \in Filter
    /\ cursor \in -1..MaxId
    /\ got \in Seq(Row)
    /\ kept \subseteq table /\ kept \subseteq seen /\ seen \in SUBSET Row
    /\ swept \in SUBSET [row : Row, at : 0..MaxNow]

Init ==
    /\ now = 0
    /\ nextId = 1
    /\ inserting = {} /\ table = {}
    /\ cutoff = -1
    /\ status \in Filter
    /\ cursor = -1 /\ got = <<>>
    /\ kept = {} /\ seen = {}
    /\ swept = {}
-----------------------------------------------------------------------------
Tick ==
    /\ now < MaxNow
    /\ now' = now + 1
    /\ UNCHANGED <<nextId, inserting, table, cutoff, walkVars, swept>>

(* Seeded bug: an id above those in the table instead of a sequence. *)
IdAboveTable == CHOOSE i \in Id : \A row \in table : row.id < i

DrawnId == nextId

(* An INSERT of a ping requested a while ago draws its id ... *)
Draw(requestedAt, ok) ==
    /\ nextId <= MaxId
    /\ requestedAt <= now /\ now <= requestedAt + MaxDelay
    /\ inserting' = inserting \cup {[id |-> DrawnId, requestedAt |-> requestedAt, ok |-> ok]}
    /\ nextId' = nextId + 1
    /\ UNCHANGED <<now, table, cutoff, walkVars, swept>>

(* ... and commits. *)
Commit(row) ==
    /\ row \in inserting
    /\ inserting' = inserting \ {row}
    /\ table' = table \cup {row}
    /\ seen' = seen \cup {row}
    /\ UNCHANGED <<now, nextId, cutoff, status, cursor, got, kept, swept>>

(* The retention job reads the clock ... *)
SweepBegins ==
    /\ cutoff = -1
    /\ now >= Retain
    /\ cutoff' = now - Retain
    /\ UNCHANGED <<now, nextId, inserting, table, walkVars, swept>>

(* Seeded bug: lte in the place of lt. *)
NotNewer(row) == row.requestedAt <= cutoff

Older(row) == row.requestedAt < cutoff

(* ... and deleteOlderThan deletes what is older. *)
DeleteOlderThan ==
    /\ cutoff # -1
    /\ LET old == {row \in table : Older(row)} IN
         /\ table' = table \ old
         /\ kept' = kept \ old
         /\ swept' = swept \cup {[row |-> row, at |-> now] : row \in old}
    /\ cutoff' = -1
    /\ UNCHANGED <<now, nextId, inserting, status, cursor, got, seen>>
-----------------------------------------------------------------------------
(* Newest first: a set of rows as a sequence. *)
Rank(rows, row) == Cardinality({other \in rows : other.id >= row.id})
NewestFirst(rows) ==
    [k \in 1..Cardinality(rows) |-> CHOOSE row \in rows : Rank(rows, row) = k]

Matches(row, filter) == filter = "all" \/ row.ok = (filter = "success")

(* Seeded bug: the id that limit + 1 found becomes the cursor. *)
CursorBehind == Limit + 1

CursorAt == Limit

(* list: one row more than the page tells whether there are more. *)
List(filter, before) ==
    LET rows == {row \in table : Matches(row, filter) /\ (before > 0 => row.id < before)}
        found == {row \in rows : Rank(rows, row) <= Limit + 1}
        page == {row \in rows : Rank(rows, row) <= Limit}
    IN  [rows |-> NewestFirst(page),
         nextCursor |-> IF found = page THEN -1 ELSE NewestFirst(found)[CursorAt].id]

(* A client asks for the first page of a filter. *)
WalkBegins(filter) ==
    LET page == List(filter, 0) IN
    /\ cursor = -1
    /\ status' = filter
    /\ got' = page.rows
    /\ cursor' = page.nextCursor
    /\ kept' = table /\ seen' = table
    /\ UNCHANGED <<now, nextId, inserting, table, cutoff, swept>>

(* It asks for the page after. *)
WalkOn ==
    LET page == List(status, cursor) IN
    /\ cursor > 0
    /\ got' = got \o page.rows
    /\ cursor' = page.nextCursor
    /\ UNCHANGED <<now, nextId, inserting, table, cutoff, status, kept, seen, swept>>
-----------------------------------------------------------------------------
Next ==
    \/ Tick
    \/ \E at \in 0..MaxNow, ok \in BOOLEAN : Draw(at, ok)
    \/ \E row \in inserting : Commit(row)
    \/ SweepBegins \/ DeleteOlderThan
    \/ \E filter \in Filter : WalkBegins(filter)
    \/ WalkOn

Spec == Init /\ [][Next]_vars
-----------------------------------------------------------------------------
(* Properties.                                                             *)

(* ping-repository.ts:104, "stable under concurrent inserts, unlike        *)
(* OFFSET": over all its pages a walk shows rows newest first, none twice, *)
(* each one a row of the filter that was there; and of the rows that were  *)
(* there from its beginning it has missed none down to its cursor.         *)
Passed(row) == cursor = -1 \/ row.id >= cursor
WalkIsStable ==
    /\ \A k \in 1..(Len(got) - 1) : got[k].id > got[k + 1].id
    /\ \A k \in DOMAIN got : got[k] \in seen /\ Matches(got[k], status)
    /\ got # <<>> \/ cursor # -1 =>
         \A row \in kept : Matches(row, status) /\ Passed(row) =>
             \E k \in DOMAIN got : got[k] = row

(* docs/DATABASE.md:61, "deletes pings requested more than RETENTION_DAYS  *)
(* ago": a ping is kept that long, however late its row became visible and *)
(* however long the sweep takes.                                           *)
RecentPingsAreKept ==
    \A gone \in swept : gone.row.requestedAt + Retain < gone.at
=============================================================================
