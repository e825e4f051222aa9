------------------------- MODULE PingHistoryProofs -------------------------
(***************************************************************************)
(* Safety of PingHistory for every number of pings, delay, retention and   *)
(* size of a page.                                                         *)
(***************************************************************************)
EXTENDS PingHistory, FiniteSetTheorems, TLAPS

(* What the primary key makes of a set of rows.                            *)
Keyed(rows) == rows \in SUBSET Row /\ \A row, other \in rows : row.id = other.id => row = other

LEMMA RowIds == \A row \in Row : row.id \in Id /\ row.id \in Int /\ row.id > 0
  BY DEF Row, Id

LEMMA KeyedSubset ==
    ASSUME NEW rows, Keyed(rows), NEW some \in SUBSET rows
    PROVE  Keyed(some)
  BY DEF Keyed

LEMMA KeyedFinite ==
    ASSUME NEW rows, Keyed(rows)
    PROVE  IsFiniteSet(rows) /\ Cardinality(rows) \in Nat
<1> DEFINE ids == [row \in rows |-> row.id]
<1>1. IsFiniteSet(Id)
  BY BoundsAssumption, FS_Interval DEF Id
<1>2. ids \in [rows -> Id]
  BY RowIds DEF Keyed
<1>3. \A row, other \in rows : ids[row] = ids[other] => row = other
  BY DEF Keyed
<1>4. ids \in Injection(rows, Id)
  <2> HIDE DEF ids
  <2>1. QED
    BY <1>2, <1>3 DEF Injection, IsInjective
<1>5. QED
  BY <1>1, <1>4, FS_Injection, FS_CardinalityType

(* The rank of a row tells where it stands: the newest is first.           *)
LEMMA RankOrder ==
    ASSUME NEW rows, Keyed(rows)
    PROVE  /\ \A row \in rows : Rank(rows, row) \in 1..Cardinality(rows)
           /\ \A row, other \in rows : row.id > other.id => Rank(rows, row) < Rank(rows, other)
           /\ \A row, other \in rows : Rank(rows, row) = Rank(rows, other) => row = other
<1> DEFINE Upper(row) == {other \in rows : other.id >= row.id}
<1>1. IsFiniteSet(rows) /\ Cardinality(rows) \in Nat
  BY KeyedFinite
<1>2. \A row \in rows : row.id \in Int
  BY RowIds DEF Keyed
<1>3. ASSUME NEW row \in rows
      PROVE  /\ IsFiniteSet(Upper(row)) /\ Cardinality(Upper(row)) \in Nat
             /\ Cardinality(Upper(row)) <= Cardinality(rows) /\ Cardinality(Upper(row)) # 0
  <2>1. IsFiniteSet(Upper(row)) /\ Cardinality(Upper(row)) <= Cardinality(rows)
    BY <1>1, FS_Subset
  <2>2. row \in Upper(row)
    BY <1>2
  <2>3. QED
    BY <2>1, <2>2, FS_EmptySet, FS_CardinalityType
<1>4. ASSUME NEW row \in rows, NEW other \in rows, row.id > other.id
      PROVE  Cardinality(Upper(row)) < Cardinality(Upper(other))
  <2>1. Upper(row) \subseteq Upper(other)
    <3>1. \A r \in rows : r.id >= row.id => r.id >= other.id
      BY <1>2, <1>4
    <3>2. QED
      BY <3>1
  <2>2. other \in Upper(other) /\ other \notin Upper(row)
    BY <1>2, <1>4
  <2>3. /\ IsFiniteSet(Upper(other)) /\ Cardinality(Upper(other)) \in Nat
        /\ Cardinality(Upper(row)) \in Nat
    BY <1>3
  <2> HIDE DEF Upper
  <2>4. /\ Cardinality(Upper(row)) <= Cardinality(Upper(other))
        /\ Cardinality(Upper(row)) # Cardinality(Upper(other))
    BY <2>1, <2>2, <2>3, FS_Subset
  <2>5. QED
    BY <2>3, <2>4
<1>5. \A row \in rows : Rank(rows, row) = Cardinality(Upper(row))
  BY DEF Rank
<1> HIDE DEF Upper
<1>6. \A row \in rows : Rank(rows, row) \in 1..Cardinality(rows)
  BY <1>1, <1>3, <1>5
<1>7. \A row, other \in rows : row.id > other.id => Rank(rows, row) < Rank(rows, other)
  BY <1>4, <1>5
<1>8. ASSUME NEW row \in rows, NEW other \in rows, Rank(rows, row) = Rank(rows, other)
      PROVE  row = other
  <2>1. ~(row.id > other.id) /\ ~(other.id > row.id)
    BY <1>6, <1>7, <1>8
  <2>2. row.id = other.id
    BY <1>2, <2>1
  <2>3. QED
    BY <2>2 DEF Keyed
<1>9. QED
  BY <1>6, <1>7, <1>8

LEMMA RankOnto ==
    ASSUME NEW rows, Keyed(rows), NEW k \in 1..Cardinality(rows)
    PROVE  \E row \in rows : Rank(rows, row) = k
<1> DEFINE places == 1..Cardinality(rows)
           rank == [row \in rows |-> Rank(rows, row)]
<1>1. rank \in Injection(rows, places)
  <2>1. rank \in [rows -> places]
    BY RankOrder
  <2>2. \A row, other \in rows : rank[row] = rank[other] => row = other
    BY RankOrder
  <2> HIDE DEF rank, places
  <2>3. QED
    BY <2>1, <2>2 DEF Injection, IsInjective
<1>2. IsFiniteSet(places) /\ Cardinality(places) = Cardinality(rows)
  <2>1. Cardinality(rows) \in Nat
    BY KeyedFinite
  <2>2. \A n \in Nat : IsFiniteSet(1..n) /\ Cardinality(1..n) = n
    BY FS_Interval
  <2>3. QED
    BY <2>1, <2>2
<1> HIDE DEF rank, places
<1>3. rank \in Surjection(rows, places)
  BY <1>1, <1>2, FS_Injection
<1> USE DEF rank, places
<1>4. \A n \in places : \E row \in rows : rank[row] = n
  BY <1>3 DEF Surjection
<1>5. QED
  BY <1>4

(* The order in which a page is returned.                                  *)
LEMMA NewestFirstReturns ==
    ASSUME NEW rows, Keyed(rows)
    PROVE  /\ NewestFirst(rows) \in Seq(rows)
           /\ Len(NewestFirst(rows)) = Cardinality(rows)
           /\ \A k \in 1..Cardinality(rows) :
                 NewestFirst(rows)[k] \in rows /\ Rank(rows, NewestFirst(rows)[k]) = k
           /\ \A row \in rows : NewestFirst(rows)[Rank(rows, row)] = row
           /\ \A k \in 1..(Len(NewestFirst(rows)) - 1) :
                 NewestFirst(rows)[k].id > NewestFirst(rows)[k + 1].id
<1> DEFINE size == Cardinality(rows)
           At(k) == CHOOSE row \in rows : Rank(rows, row) = k
<1>1. size \in Nat
  BY KeyedFinite
<1>2. NewestFirst(rows) = [k \in 1..size |-> At(k)]
  BY DEF NewestFirst
<1>3. \A k \in 1..size : At(k) \in rows /\ Rank(rows, At(k)) = k
  BY RankOnto
<1>4. \A row \in rows : At(Rank(rows, row)) = row
  BY RankOrder
<1>5. \A row \in rows : row.id \in Int
  BY RowIds DEF Keyed
<1>6. \A row \in rows : Rank(rows, row) \in 1..size
  BY RankOrder
<1> HIDE DEF At, size
<1>7. ASSUME NEW k \in 1..(size - 1)
      PROVE  At(k).id > At(k + 1).id
  <2>1. k \in 1..size /\ k + 1 \in 1..size /\ k < k + 1 /\ k # k + 1
    BY <1>1
  <2>2. At(k) \in rows /\ At(k + 1) \in rows
    BY <1>3, <2>1
  <2>3. Rank(rows, At(k)) = k /\ Rank(rows, At(k + 1)) = k + 1
    BY <1>3, <2>1
  <2>4. ~(At(k + 1).id > At(k).id)
    <3>1. At(k + 1).id > At(k).id => Rank(rows, At(k + 1)) < Rank(rows, At(k))
      BY <2>2, RankOrder
    <3>2. QED
      BY <2>1, <2>3, <3>1
  <2>5. At(k + 1).id # At(k).id
    BY <2>1, <2>2, <2>3 DEF Keyed
  <2>6. QED
    BY <1>5, <2>2, <2>4, <2>5
<1>8. [k \in 1..size |-> At(k)] \in Seq(rows) /\ Len([k \in 1..size |-> At(k)]) = size
  BY <1>1, <1>3
<1>9. \A k \in 1..size : [j \in 1..size |-> At(j)][k] = At(k)
  OBVIOUS
<1>10. \A k \in 1..(size - 1) : k \in 1..size /\ k + 1 \in 1..size
  BY <1>1
<1> DEFINE listed == [k \in 1..size |-> At(k)]
<1>11. listed \in Seq(rows) /\ Len(listed) = size /\ \A k \in 1..size : listed[k] = At(k)
  BY <1>8, <1>9
<1> HIDE DEF listed
<1>12. \A k \in 1..size : listed[k] \in rows /\ Rank(rows, listed[k]) = k
  BY <1>3, <1>11
<1>13. \A row \in rows : listed[Rank(rows, row)] = row
  BY <1>4, <1>6, <1>11
<1>14. \A k \in 1..(size - 1) : listed[k].id > listed[k + 1].id
  BY <1>7, <1>10, <1>11
<1>15. NewestFirst(rows) = listed
  BY <1>2 DEF listed
<1>16. QED
  BY <1>11, <1>12, <1>13, <1>14, <1>15 DEF size

(* The first rows of a set keep their ranks.                               *)
LEMMA FirstRows ==
    ASSUME NEW rows, Keyed(rows), NEW n \in Nat,
           NEW row \in {r \in rows : Rank(rows, r) <= n}
    PROVE  Rank({r \in rows : Rank(rows, r) <= n}, row) = Rank(rows, row)
<1> DEFINE top == {r \in rows : Rank(rows, r) <= n}
<1>1. \A r \in rows : r.id \in Int
  BY RowIds DEF Keyed
<1>2. ASSUME NEW other \in rows, other.id >= row.id
      PROVE  other \in top
  <2>1. other = row \/ other.id > row.id
    BY <1>1, <1>2 DEF Keyed
  <2>2. Rank(rows, other) <= Rank(rows, row)
    BY <2>1, RankOrder
  <2>3. Rank(rows, other) \in Int /\ Rank(rows, row) \in Int
    BY RankOrder
  <2>4. QED
    BY <2>2, <2>3
<1>3. {other \in top : other.id >= row.id} = {other \in rows : other.id >= row.id}
  BY <1>2
<1>4. QED
  BY <1>3 DEF Rank

(* The rows of the table that a page and those behind it are drawn from.   *)
Wanted(filter, before) ==
    {row \in table : Matches(row, filter) /\ (before > 0 => row.id < before)}

(* A page holds rows that were asked for, newest first; and all of them    *)
(* down to its cursor, or all there are when it has none.                  *)
LEMMA ListReturns ==
    ASSUME Keyed(table), NEW filter, NEW before
    PROVE  LET page == List(filter, before) IN
             /\ page.rows \in Seq(Wanted(filter, before))
             /\ \A k \in 1..(Len(page.rows) - 1) : page.rows[k].id > page.rows[k + 1].id
             /\ page.nextCursor = -1 \/ \E row \in Wanted(filter, before) : page.nextCursor = row.id
             /\ \A k \in DOMAIN page.rows : page.nextCursor <= page.rows[k].id
             /\ \A row \in Wanted(filter, before) :
                   page.nextCursor = -1 \/ row.id >= page.nextCursor
                      => \E k \in DOMAIN page.rows : page.rows[k] = row
<1> DEFINE rows == Wanted(filter, before)
           found == {row \in rows : Rank(rows, row) <= Limit + 1}
           page == {row \in rows : Rank(rows, row) <= Limit}
           nextCursor == IF found = page THEN -1 ELSE NewestFirst(found)[Limit].id
<1>1. List(filter, before) = [rows |-> NewestFirst(page), nextCursor |-> nextCursor]
  BY DEF List, Wanted, CursorAt
<1>2. rows \in SUBSET table
  BY DEF Wanted
<1>3. Keyed(rows)
  BY <1>2, KeyedSubset
<1> HIDE DEF rows
<1>4. page \in SUBSET rows /\ found \in SUBSET rows
  OBVIOUS
<1>5. Keyed(page) /\ Keyed(found)
  BY <1>3, <1>4, KeyedSubset
<1>6. /\ Limit \in Nat /\ Limit # 0 /\ Cardinality(rows) \in Nat
      /\ \A row \in rows : Rank(rows, row) \in 1..Cardinality(rows)
      /\ \A row \in rows : row.id \in Id /\ row.id \in Int /\ row.id > 0
  BY <1>3, LimitAssumption, KeyedFinite, RankOrder, RowIds DEF Keyed
(* With no more rows than the page has room for it holds them all.         *)
<1>7. CASE found = page
  <2>1. \A row \in rows : Rank(rows, row) # Limit + 1
    BY <1>6, <1>7
  <2>2. Limit + 1 \notin 1..Cardinality(rows)
    BY <1>3, <2>1, RankOnto
  <2>3. page = rows
    BY <1>6, <2>2
  <2>4. nextCursor = -1
    BY <1>7
  <2> HIDE DEF page, nextCursor
  <2>5. NewestFirst(page) \in Seq(rows) /\ DOMAIN NewestFirst(page) = 1..Cardinality(page)
    BY <1>5, <2>3, NewestFirstReturns
  <2>6. \A k \in DOMAIN NewestFirst(page) : NewestFirst(page)[k] \in rows
    BY <1>5, <2>3, <2>5, NewestFirstReturns
  <2>7. \A row \in rows : \E k \in DOMAIN NewestFirst(page) : NewestFirst(page)[k] = row
    BY <1>5, <2>3, <2>5, NewestFirstReturns, RankOrder
  <2>8. \A k \in 1..(Len(NewestFirst(page)) - 1) :
           NewestFirst(page)[k].id > NewestFirst(page)[k + 1].id
    BY <1>5, NewestFirstReturns
  <2>9. \A k \in DOMAIN NewestFirst(page) : nextCursor <= NewestFirst(page)[k].id
    BY <1>6, <2>4, <2>6
  <2>10. QED
    BY <1>1, <2>4, <2>5, <2>7, <2>8, <2>9 DEF rows
(* The last row of the page is the cursor.                                 *)
<1>8. CASE found # page
  <2>1. PICK more \in rows : Rank(rows, more) = Limit + 1
    BY <1>4, <1>6, <1>8
  <2>2. Limit + 1 <= Cardinality(rows)
    BY <1>6, <2>1
  <2>3. Limit \in 1..Cardinality(rows)
    BY <1>6, <2>2
  <2>4. PICK last \in rows : Rank(rows, last) = Limit
    BY <1>3, <2>3, RankOnto
  <2>5. last \in found
    BY <1>6, <2>4
  <2>6. Rank(found, last) = Limit
    BY <1>3, <1>6, <2>4, <2>5, FirstRows
  <2>7. NewestFirst(found)[Limit] = last
    BY <1>5, <2>5, <2>6, NewestFirstReturns
  <2>8. nextCursor = last.id
    BY <1>8, <2>7
  <2>9. ASSUME NEW row \in rows
        PROVE  row \in page <=> row.id >= last.id
    <3>1. row.id > last.id => Rank(rows, row) < Limit
      BY <1>3, <2>4, RankOrder
    <3>2. last.id > row.id => Limit < Rank(rows, row)
      BY <1>3, <2>4, RankOrder
    <3>3. row.id = last.id => row = last
      BY <1>3 DEF Keyed
    <3>4. QED
      BY <1>6, <2>4, <3>1, <3>2, <3>3
  <2> HIDE DEF page, found, nextCursor
  <2>10. /\ NewestFirst(page) \in Seq(page)
         /\ DOMAIN NewestFirst(page) = 1..Cardinality(page)
    BY <1>5, NewestFirstReturns
  <2>11. NewestFirst(page) \in Seq(rows)
    BY <1>4, <2>10
  <2>12. \A k \in DOMAIN NewestFirst(page) : NewestFirst(page)[k] \in page
    BY <1>5, <2>10, NewestFirstReturns
  <2>13. \A row \in page : \E k \in DOMAIN NewestFirst(page) : NewestFirst(page)[k] = row
    BY <1>5, <2>10, NewestFirstReturns, RankOrder
  <2>14. \A k \in 1..(Len(NewestFirst(page)) - 1) :
            NewestFirst(page)[k].id > NewestFirst(page)[k + 1].id
    BY <1>5, NewestFirstReturns
  <2>15. \A k \in DOMAIN NewestFirst(page) : nextCursor <= NewestFirst(page)[k].id
    BY <1>4, <1>6, <2>8, <2>9, <2>12
  <2>16. \E row \in rows : nextCursor = row.id
    BY <2>8
  <2>17. \A row \in rows : row.id >= nextCursor
            => \E k \in DOMAIN NewestFirst(page) : NewestFirst(page)[k] = row
    BY <2>8, <2>9, <2>13
  <2>18. /\ List(filter, before).rows = NewestFirst(page)
         /\ List(filter, before).nextCursor = nextCursor
    BY <1>1
  <2>19. /\ NewestFirst(page) \in Seq(Wanted(filter, before))
         /\ \E row \in Wanted(filter, before) : nextCursor = row.id
         /\ \A row \in Wanted(filter, before) : row.id >= nextCursor
               => \E k \in DOMAIN NewestFirst(page) : NewestFirst(page)[k] = row
         /\ nextCursor # -1
    <3>1. nextCursor # -1
      BY <1>6, <2>16
    <3>2. QED
      BY <2>11, <2>16, <2>17, <3>1 DEF rows
  <2>20. QED
    BY <2>14, <2>15, <2>18, <2>19
<1>9. QED
  BY <1>7, <1>8
-----------------------------------------------------------------------------
(* Types.                                                                  *)

LEMMA TableIsKeyed ==
    ASSUME TypeOK
    PROVE  Keyed(table)
  BY DEF TypeOK, Keyed

LEMMA ListTyped ==
    ASSUME TypeOK, NEW filter, NEW before
    PROVE  /\ List(filter, before).rows \in Seq(Row)
           /\ List(filter, before).nextCursor \in -1..MaxId
<1>1. Wanted(filter, before) \subseteq Row
  BY DEF Wanted, TypeOK
<1>2. \A row \in Row : row.id \in -1..MaxId
  BY BoundsAssumption, RowIds DEF Id
<1>3. -1 \in -1..MaxId
  BY BoundsAssumption
<1>4. QED
  BY <1>1, <1>2, <1>3, TableIsKeyed, ListReturns

LEMMA TypesKept ==
    ASSUME TypeOK, [Next]_vars
    PROVE  TypeOK'
<1> USE DEF TypeOK
<1>1. CASE Tick
  BY <1>1, BoundsAssumption DEF Tick, walkVars
<1>2. ASSUME NEW at \in 0..MaxNow, NEW ok \in BOOLEAN, Draw(at, ok)
      PROVE  TypeOK'
  <2> DEFINE drawn == [id |-> DrawnId, requestedAt |-> at, ok |-> ok]
  <2>1. nextId \in Id /\ nextId' \in 1..(MaxId + 1) /\ nextId' = nextId + 1
    BY <1>2, BoundsAssumption DEF Draw, Id
  <2>2. drawn \in Row /\ drawn.id = nextId
    BY <2>1, Zenon DEF Row, DrawnId
  <2> HIDE DEF drawn
  <2>3. inserting' = inserting \cup {drawn} /\ table' = table
    BY <1>2 DEF Draw, drawn
  <2>4. \A row \in table' \cup inserting' :
          row.id < nextId' /\ \A other \in table' \cup inserting' : row.id = other.id => row = other
    <3>1. \A row \in table \cup inserting : row.id < nextId /\ row.id \in Int
      BY RowIds
    <3>2. QED
      BY <2>1, <2>2, <2>3, <3>1
  <2>5. QED
    BY <1>2, <2>1, <2>2, <2>3, <2>4 DEF Draw, walkVars
<1>3. ASSUME NEW row \in inserting, Commit(row)
      PROVE  TypeOK'
  <2>1. table' \cup inserting' = table \cup inserting /\ nextId' = nextId
    BY <1>3 DEF Commit
  <2>2. QED
    BY <1>3, <2>1 DEF Commit
<1>4. CASE SweepBegins
  BY <1>4, RetainAssumption, BoundsAssumption DEF SweepBegins, walkVars
<1>5. CASE DeleteOlderThan
  <2>1. PICK old \in SUBSET table :
           /\ table' = table \ old /\ kept' = kept \ old
           /\ swept' = swept \cup {[row |-> row, at |-> now] : row \in old}
    BY <1>5 DEF DeleteOlderThan
  <2>2. swept' \in SUBSET [row : Row, at : 0..MaxNow]
    BY <2>1
  <2>3. cutoff' = -1 /\ -1 \in -1..MaxNow
    BY <1>5, BoundsAssumption DEF DeleteOlderThan
  <2>4. QED
    BY <1>5, <2>1, <2>2, <2>3 DEF DeleteOlderThan
<1>6. ASSUME NEW filter \in Filter, WalkBegins(filter)
      PROVE  TypeOK'
  BY <1>6, ListTyped DEF WalkBegins
<1>7. CASE WalkOn
  <2>1. got' \in Seq(Row) /\ cursor' \in -1..MaxId
    BY <1>7, ListTyped DEF WalkOn
  <2>2. QED
    BY <1>7, <2>1 DEF WalkOn
<1>8. CASE UNCHANGED vars
  BY <1>8 DEF vars, walkVars
<1>9. QED
  BY <1>1, <1>2, <1>3, <1>4, <1>5, <1>6, <1>7, <1>8 DEF Next

(* PingHistory's state keeps its types, and ids stay a key.                *)
THEOREM TypeCorrect == Spec => []TypeOK
<1>1. Init => TypeOK
  <2>1. /\ 0 \in 0..MaxNow /\ 1 \in 1..(MaxId + 1) /\ -1 \in -1..MaxNow /\ -1 \in -1..MaxId
        /\ <<>> \in Seq(Row)
    BY BoundsAssumption
  <2>2. QED
    BY <2>1 DEF Init, TypeOK
<1>2. QED
  BY <1>1, TypesKept, PTL DEF Spec
-----------------------------------------------------------------------------
(* Retention.                                                              *)

(* A sweep's cutoff lies Retain in the past, however long it takes.        *)
CutoffIsPast == cutoff # -1 => cutoff + Retain <= now

LEMMA RecentPingsStay ==
    ASSUME TypeOK, CutoffIsPast, RecentPingsAreKept, [Next]_vars
    PROVE  (CutoffIsPast /\ RecentPingsAreKept)'
<1> USE DEF CutoffIsPast
<1>1. now \in Nat /\ now' \in Nat /\ now' >= now /\ Retain \in Nat
  <2>1. now' = now \/ now' = now + 1
    BY DEF Next, Tick, Draw, Commit, SweepBegins, DeleteOlderThan, WalkBegins, WalkOn, vars
  <2>2. QED
    BY <2>1, RetainAssumption DEF TypeOK
<1>2. CASE DeleteOlderThan
  <2>1. PICK old \in SUBSET table :
           /\ \A row \in old : row.requestedAt < cutoff
           /\ swept' = swept \cup {[row |-> row, at |-> now] : row \in old}
    BY <1>2 DEF DeleteOlderThan, Older
  <2>2. cutoff # -1 /\ cutoff' = -1 /\ cutoff \in Int
    BY <1>2 DEF DeleteOlderThan, TypeOK
  <2>3. \A row \in old : row.requestedAt \in Int
    BY DEF TypeOK, Row
  <2>4. \A row \in old : row.requestedAt + Retain < now
    BY <1>1, <2>1, <2>2, <2>3
  <2>5. \A gone \in swept' : gone.row.requestedAt + Retain < gone.at
    BY <2>1, <2>4 DEF RecentPingsAreKept
  <2>6. QED
    BY <2>2, <2>5 DEF RecentPingsAreKept
<1>3. CASE SweepBegins
  BY <1>1, <1>3 DEF SweepBegins, RecentPingsAreKept
<1>4. CASE ~DeleteOlderThan /\ ~SweepBegins
  <2>1. UNCHANGED <<cutoff, swept>>
    BY <1>4 DEF Next, Tick, Draw, Commit, WalkBegins, WalkOn, vars
  <2>2. cutoff \in Int
    BY DEF TypeOK
  <2>3. QED
    BY <1>1, <2>1, <2>2 DEF RecentPingsAreKept
<1>5. QED
  BY <1>2, <1>3, <1>4

(* No sweep deletes a ping requested at most Retain ago.                   *)
THEOREM RecentPingsAreKeptInvariant == Spec => []RecentPingsAreKept
<1>1. Init => CutoffIsPast /\ RecentPingsAreKept
  BY DEF Init, CutoffIsPast, RecentPingsAreKept
<1>2. QED
  BY <1>1, TypeCorrect, RecentPingsStay, PTL DEF Spec
-----------------------------------------------------------------------------
(* The walk.                                                               *)

Rows(s) == {s[k] : k \in DOMAIN s}

(* What a walk has shown lies above its cursor, newest first, and is all   *)
(* there is above it of the rows that were there from its beginning; what  *)
(* is there now has been seen.                                             *)
Walk ==
    /\ table \subseteq seen
    /\ cursor # 0
    /\ \A row \in Rows(got) : cursor <= row.id /\ row \in seen /\ Matches(row, status)
    /\ \A k \in 1..(Len(got) - 1) : got[k].id > got[k + 1].id
    /\ \A row \in kept : Matches(row, status) /\ Passed(row) => row \in Rows(got)

LEMMA WalkImplies == Walk => WalkIsStable
  BY DEF Walk, WalkIsStable, Rows

(* A page that lies below what was shown goes behind it.                   *)
LEMMA PageBehind ==
    ASSUME NEW s \in Seq(Row), NEW t \in Seq(Row), NEW bound \in Int,
           \A row \in Rows(s) : bound <= row.id,
           \A row \in Rows(t) : row.id < bound,
           \A k \in 1..(Len(s) - 1) : s[k].id > s[k + 1].id,
           \A k \in 1..(Len(t) - 1) : t[k].id > t[k + 1].id
    PROVE  /\ Rows(s \o t) = Rows(s) \cup Rows(t)
           /\ \A k \in 1..(Len(s \o t) - 1) : (s \o t)[k].id > (s \o t)[k + 1].id
<1>1. /\ DOMAIN s = 1..Len(s) /\ DOMAIN t = 1..Len(t) /\ Len(s) \in Nat /\ Len(t) \in Nat
      /\ DOMAIN (s \o t) = 1..(Len(s) + Len(t)) /\ Len(s \o t) = Len(s) + Len(t)
  OBVIOUS
<1>2. \A k \in 1..Len(s) : (s \o t)[k] = s[k]
  OBVIOUS
<1>3. \A k \in 1..Len(t) : (s \o t)[Len(s) + k] = t[k]
  OBVIOUS
<1>4. \A k \in 1..(Len(s) + Len(t)) :
         k \in 1..Len(s) \/ \E j \in 1..Len(t) : k = Len(s) + j
  <2>1. ASSUME NEW k \in 1..(Len(s) + Len(t)), k \notin 1..Len(s)
        PROVE  \E j \in 1..Len(t) : k = Len(s) + j
    <3>1. k - Len(s) \in 1..Len(t) /\ k = Len(s) + (k - Len(s))
      BY <1>1, <2>1
    <3>2. QED
      BY <3>1
  <2>2. QED
    BY <2>1
<1>5. \A k \in 1..Len(s) : k \in 1..(Len(s) + Len(t))
  BY <1>1
<1>6. \A k \in 1..Len(t) : Len(s) + k \in 1..(Len(s) + Len(t))
  BY <1>1
<1>7. \A k \in 1..Len(s) : bound <= s[k].id /\ s[k].id \in Int
  <2>1. \A k \in 1..Len(s) : s[k] \in Row /\ s[k] \in Rows(s)
    BY <1>1 DEF Rows
  <2>2. QED
    BY <2>1, RowIds
<1>8. \A k \in 1..Len(t) : t[k].id < bound /\ t[k].id \in Int
  <2>1. \A k \in 1..Len(t) : t[k] \in Row /\ t[k] \in Rows(t)
    BY <1>1 DEF Rows
  <2>2. QED
    BY <2>1, RowIds
<1>9. Rows(s \o t) = Rows(s) \cup Rows(t)
  <2>1. ASSUME NEW k \in DOMAIN (s \o t)
        PROVE  (s \o t)[k] \in Rows(s) \cup Rows(t)
    BY <1>1, <1>2, <1>3, <1>4 DEF Rows
  <2>2. \A k \in DOMAIN s : s[k] \in Rows(s \o t)
    BY <1>1, <1>2, <1>5 DEF Rows
  <2>3. \A k \in DOMAIN t : t[k] \in Rows(s \o t)
    BY <1>1, <1>3, <1>6 DEF Rows
  <2>4. QED
    BY <2>1, <2>2, <2>3 DEF Rows
<1>10. ASSUME NEW k \in 1..(Len(s \o t) - 1)
       PROVE  (s \o t)[k].id > (s \o t)[k + 1].id
  <2>1. CASE k < Len(s)
    <3>1. k \in 1..Len(s) /\ k + 1 \in 1..Len(s) /\ k \in 1..(Len(s) - 1)
      BY <1>1, <2>1
    <3>2. QED
      BY <1>2, <3>1
  <2>2. CASE k = Len(s)
    <3>1. k \in 1..Len(s) /\ 1 \in 1..Len(t) /\ k + 1 = Len(s) + 1
      BY <1>1, <2>2
    <3>2. (s \o t)[k] = s[k] /\ (s \o t)[k + 1] = t[1]
      BY <1>2, <1>3, <3>1
    <3>3. bound <= s[k].id /\ t[1].id < bound /\ s[k].id \in Int /\ t[1].id \in Int
      BY <1>7, <1>8, <3>1
    <3>4. QED
      BY <3>2, <3>3
  <2>3. CASE k > Len(s)
    <3>1. PICK j \in 1..(Len(t) - 1) : k = Len(s) + j
      <4>1. k - Len(s) \in 1..(Len(t) - 1) /\ k = Len(s) + (k - Len(s))
        BY <1>1, <2>3
      <4>2. QED
        BY <4>1
    <3>2. j \in 1..Len(t) /\ j + 1 \in 1..Len(t) /\ k + 1 = Len(s) + (j + 1)
      BY <1>1, <3>1
    <3>3. (s \o t)[k] = t[j] /\ (s \o t)[k + 1] = t[j + 1]
      BY <1>3, <3>1, <3>2
    <3>4. QED
      BY <3>1, <3>3
  <2>4. k \in Int /\ Len(s) \in Int
    BY <1>1
  <2>5. QED
    BY <2>1, <2>2, <2>3, <2>4
<1>11. QED
  BY <1>9, <1>10

LEMMA WalkStays ==
    ASSUME TypeOK, Walk, [Next]_vars
    PROVE  Walk'
<1>1. CASE Tick \/ SweepBegins \/ UNCHANGED vars \/ \E at \in 0..MaxNow, ok \in BOOLEAN : Draw(at, ok)
  <2>1. UNCHANGED <<table, status, cursor, got, kept, seen>>
    BY <1>1, Zenon DEF Tick, SweepBegins, Draw, vars, walkVars
  <2>2. QED
    BY <2>1 DEF Walk, Passed, Rows
<1>2. ASSUME NEW row \in inserting, Commit(row)
      PROVE  Walk'
  <2>1. /\ table' = table \cup {row} /\ seen' = seen \cup {row}
        /\ UNCHANGED <<status, cursor, got, kept>>
    BY <1>2 DEF Commit
  <2> HIDE DEF Matches
  <2>2. QED
    BY <2>1 DEF Walk, Passed, Rows
<1>3. CASE DeleteOlderThan
  <2>1. /\ table' \subseteq table /\ kept' \subseteq kept
        /\ UNCHANGED <<status, cursor, got, seen>>
    BY <1>3 DEF DeleteOlderThan
  <2>2. QED
    BY <2>1 DEF Walk, Passed, Rows
<1>4. ASSUME NEW filter \in Filter, WalkBegins(filter)
      PROVE  Walk'
  <2> DEFINE page == List(filter, 0)
  <2>1. /\ got' = page.rows /\ cursor' = page.nextCursor /\ status' = filter
        /\ kept' = table /\ seen' = table /\ table' = table
    BY <1>4 DEF WalkBegins
  <2>2. /\ page.rows \in Seq(Wanted(filter, 0))
        /\ \A k \in 1..(Len(page.rows) - 1) : page.rows[k].id > page.rows[k + 1].id
        /\ page.nextCursor = -1 \/ \E row \in Wanted(filter, 0) : page.nextCursor = row.id
        /\ \A k \in DOMAIN page.rows : page.nextCursor <= page.rows[k].id
        /\ \A row \in Wanted(filter, 0) :
              page.nextCursor = -1 \/ row.id >= page.nextCursor
                 => \E k \in DOMAIN page.rows : page.rows[k] = row
    BY TableIsKeyed, ListReturns
  <2> HIDE DEF page
  <2>3. Wanted(filter, 0) = {row \in table : Matches(row, filter)}
    BY DEF Wanted
  <2>4. cursor' # 0
    <3>1. \A row \in Wanted(filter, 0) : row.id # 0
      BY RowIds DEF Wanted, TypeOK
    <3>2. QED
      BY <2>1, <2>2, <3>1
  <2>5. \A row \in Rows(got)' : cursor' <= row.id /\ row \in Wanted(filter, 0)
    BY <2>1, <2>2 DEF Rows
  <2>6. \A row \in kept' : Matches(row, filter) /\ Passed(row)' => row \in Rows(got)'
    BY <2>1, <2>2, <2>3 DEF Passed, Rows
  <2>7. \A row : Matches(row, status)' <=> Matches(row, filter)
    BY <2>1, Zenon DEF Matches
  <2>8. QED
    BY <2>1, <2>2, <2>3, <2>4, <2>5, <2>6, <2>7 DEF Walk
<1>5. CASE WalkOn
  <2> DEFINE page == List(status, cursor)
  <2>1. /\ got' = got \o page.rows /\ cursor' = page.nextCursor /\ cursor > 0
        /\ UNCHANGED <<table, status, kept, seen>>
    BY <1>5 DEF WalkOn
  <2>2. /\ page.rows \in Seq(Wanted(status, cursor))
        /\ \A k \in 1..(Len(page.rows) - 1) : page.rows[k].id > page.rows[k + 1].id
        /\ page.nextCursor = -1 \/ \E row \in Wanted(status, cursor) : page.nextCursor = row.id
        /\ \A k \in DOMAIN page.rows : page.nextCursor <= page.rows[k].id
        /\ \A row \in Wanted(status, cursor) :
              page.nextCursor = -1 \/ row.id >= page.nextCursor
                 => \E k \in DOMAIN page.rows : page.rows[k] = row
    BY TableIsKeyed, ListReturns
  <2> HIDE DEF page
  <2>4. Wanted(status, cursor) = {row \in table : Matches(row, status) /\ row.id < cursor}
    BY <2>1 DEF Wanted
  <2>5. cursor \in Int /\ \A row \in table : row.id \in Int
    BY RowIds DEF TypeOK
  <2>6. \A row \in Rows(page.rows) : row \in Wanted(status, cursor) /\ page.nextCursor <= row.id
    BY <2>2 DEF Rows
  <2>7. \A row \in Rows(page.rows) : row \in table /\ row.id < cursor /\ Matches(row, status)
    BY <2>4, <2>6
  <2>8. got \in Seq(Row) /\ page.rows \in Seq(Row)
    <3>1. Wanted(status, cursor) \subseteq Row
      BY DEF Wanted, TypeOK
    <3>2. QED
      BY <2>2, <3>1 DEF TypeOK
  <2>9. /\ Rows(got') = Rows(got) \cup Rows(page.rows)
        /\ \A k \in 1..(Len(got') - 1) : got'[k].id > got'[k + 1].id
    <3>1. \A row \in Rows(got) : cursor <= row.id
      BY DEF Walk
    <3>2. \A k \in 1..(Len(got) - 1) : got[k].id > got[k + 1].id
      BY DEF Walk
    <3>3. QED
      BY <2>1, <2>2, <2>5, <2>7, <2>8, <3>1, <3>2, PageBehind
  (* The cursor goes down, or to the end.                                  *)
  <2>10. cursor' \in Int /\ cursor' <= cursor /\ cursor' # 0
    <3>1. \A row \in Wanted(status, cursor) : row.id < cursor /\ row.id \in Int /\ row.id # 0
      BY <2>4, <2>5, RowIds DEF TypeOK
    <3>2. QED
      BY <2>1, <2>2, <2>5, <3>1
  <2>11. \A row \in Rows(got') : cursor' <= row.id /\ row \in seen /\ Matches(row, status)
    <3>1. \A row \in Rows(got) : cursor <= row.id /\ row \in seen /\ Matches(row, status)
      BY DEF Walk
    <3>2. \A row \in Rows(got) : row.id \in Int
      BY <2>8, RowIds DEF Rows
    <3>3. \A row \in Rows(got) : cursor' <= row.id
      BY <2>5, <2>10, <3>1, <3>2
    <3>4. \A row \in Rows(page.rows) : cursor' <= row.id /\ row \in seen
      BY <2>1, <2>6, <2>7 DEF Walk
    <3>5. QED
      BY <2>7, <2>9, <3>1, <3>3, <3>4
  <2>12. ASSUME NEW row \in kept, Matches(row, status), cursor' = -1 \/ row.id >= cursor'
         PROVE  row \in Rows(got')
    <3>1. row \in table /\ row.id \in Int
      BY <2>5 DEF TypeOK
    <3>2. CASE row.id >= cursor
      BY <2>9, <2>12, <3>2 DEF Walk, Passed
    <3>3. CASE row.id < cursor
      <4>1. row \in Wanted(status, cursor)
        BY <2>4, <2>12, <3>1, <3>3
      <4>2. row \in Rows(page.rows)
        BY <2>1, <2>2, <2>12, <4>1 DEF Rows
      <4>3. QED
        BY <2>9, <4>2
    <3>4. QED
      BY <2>5, <3>1, <3>2, <3>3
  <2>13. \A row : Matches(row, status)' <=> Matches(row, status)
    BY <2>1, Zenon DEF Matches
  <2>14. Rows(got)' = Rows(got')
    BY DEF Rows
  <2>15. QED
    BY <2>1, <2>9, <2>10, <2>11, <2>12, <2>13, <2>14 DEF Walk, Passed
<1>6. QED
  BY <1>1, <1>2, <1>3, <1>4, <1>5 DEF Next

(* Over all its pages a walk shows rows newest first and none twice, rows  *)
(* of its filter that were there, and of those that were there from its    *)
(* beginning to now it has missed none down to its cursor, whatever        *)
(* commits late and whatever the sweep deletes meanwhile.                  *)
THEOREM WalkIsStableInvariant == Spec => []WalkIsStable
<1>1. Init => Walk
  BY DEF Init, Walk, Rows
<1>2. TypeOK /\ Walk /\ [Next]_vars => Walk'
  BY WalkStays
<1>3. QED
  BY <1>1, <1>2, TypeCorrect, WalkImplies, PTL DEF Spec
=============================================================================
