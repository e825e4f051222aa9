------------------------ MODULE DashboardCacheProofs ------------------------
(***************************************************************************)
(* Safety of DashboardCache for every number of pings, size of a page and  *)
(* number of events under way, with and without losses and replays.        *)
(***************************************************************************)
EXTENDS DashboardCache, FiniteSetTheorems, SequenceTheorems, TLAPS

(* Entries that come before one another in the sort: a total order.        *)
LEMMA BeforeOrder ==
    ASSUME NEW D \in SUBSET Int, NEW ids \in [D -> Int]
    PROVE  /\ \A k \in D : Before(ids, k, k)
           /\ \A j, k \in D : Before(ids, j, k) \/ Before(ids, k, j)
           /\ \A j, k \in D : Before(ids, j, k) /\ Before(ids, k, j) => j = k
           /\ \A j, k, l \in D : Before(ids, j, k) /\ Before(ids, k, l) => Before(ids, j, l)
  BY DEF Before

(* Each entry has a place of its own, and the places follow that order.    *)
LEMMA PlaceOrder ==
    ASSUME NEW D \in SUBSET Int, IsFiniteSet(D), NEW ids \in [D -> Int]
    PROVE  /\ \A k \in D : Place(ids, k) \in 1..Cardinality(D)
           /\ \A j, k \in D : j # k /\ Before(ids, j, k) => Place(ids, j) < Place(ids, k)
           /\ \A j, k \in D : Place(ids, j) = Place(ids, k) => j = k
<1> DEFINE Upto(k) == {j \in D : Before(ids, j, k)}
<1>1. \A k \in D : Place(ids, k) = Cardinality(Upto(k))
  BY DEF Place
<1>2. Cardinality(D) \in Nat
  BY FS_CardinalityType
<1>3. ASSUME NEW k \in D
      PROVE  /\ IsFiniteSet(Upto(k)) /\ Cardinality(Upto(k)) \in Nat
             /\ Cardinality(Upto(k)) <= Cardinality(D) /\ Cardinality(Upto(k)) # 0
  <2>1. IsFiniteSet(Upto(k)) /\ Cardinality(Upto(k)) <= Cardinality(D)
    BY FS_Subset
  <2>2. k \in Upto(k)
    BY BeforeOrder
  <2>3. QED
    BY <2>1, <2>2, FS_EmptySet, FS_CardinalityType
<1>4. ASSUME NEW j \in D, NEW k \in D, j # k, Before(ids, j, k)
      PROVE  Cardinality(Upto(j)) < Cardinality(Upto(k))
  <2>1. Upto(j) \subseteq Upto(k) /\ k \in Upto(k) /\ k \notin Upto(j)
    BY <1>4, BeforeOrder
  <2>2. /\ IsFiniteSet(Upto(k))
        /\ Cardinality(Upto(k)) \in Nat /\ Cardinality(Upto(j)) \in Nat
    BY <1>3
  <2> HIDE DEF Upto
  <2>3. /\ Cardinality(Upto(j)) <= Cardinality(Upto(k))
        /\ Cardinality(Upto(j)) # Cardinality(Upto(k))
    BY <2>1, <2>2, FS_Subset
  <2>4. QED
    BY <2>2, <2>3
<1> HIDE DEF Upto
<1>5. \A k \in D : Place(ids, k) \in 1..Cardinality(D)
  BY <1>1, <1>2, <1>3
<1>6. \A j, k \in D : j # k /\ Before(ids, j, k) => Place(ids, j) < Place(ids, k)
  BY <1>1, <1>4
<1>7. ASSUME NEW j \in D, NEW k \in D, Place(ids, j) = Place(ids, k)
      PROVE  j = k
  <2>1. Place(ids, j) \in Int /\ Place(ids, k) \in Int
    BY <1>5
  <2>2. j = k \/ Place(ids, j) < Place(ids, k) \/ Place(ids, k) < Place(ids, j)
    BY <1>6, BeforeOrder
  <2>3. QED
    BY <1>7, <2>1, <2>2
<1>8. QED
  BY <1>5, <1>6, <1>7

(* No place stays empty.                                                   *)
LEMMA PlaceOnto ==
    ASSUME NEW D \in SUBSET Int, IsFiniteSet(D), NEW ids \in [D -> Int],
           NEW n \in 1..Cardinality(D)
    PROVE  \E k \in D : Place(ids, k) = n
<1> DEFINE places == 1..Cardinality(D)
           place == [k \in D |-> Place(ids, k)]
<1>1. place \in Injection(D, places)
  <2>1. place \in [D -> places]
    BY PlaceOrder
  <2>2. \A j, k \in D : place[j] = place[k] => j = k
    BY PlaceOrder
  <2> HIDE DEF place, places
  <2>3. QED
    BY <2>1, <2>2 DEF Injection, IsInjective
<1>2. IsFiniteSet(places) /\ Cardinality(places) = Cardinality(D)
  <2>1. Cardinality(D) \in Nat
    BY FS_CardinalityType
  <2>2. \A m \in Nat : IsFiniteSet(1..m) /\ Cardinality(1..m) = m
    BY FS_Interval
  <2>3. QED
    BY <2>1, <2>2
<1> HIDE DEF place, places
<1>3. place \in Surjection(D, places)
  BY <1>1, <1>2, FS_Injection
<1>4. \A m \in places : \E k \in D : place[k] = m
  BY <1>3 DEF Surjection
<1>5. QED
  BY <1>4 DEF place, places

(* A sort: the same entries, none above one that stands before it.         *)
LEMMA SortedReturns ==
    ASSUME NEW D \in SUBSET Int, IsFiniteSet(D), NEW S \in SUBSET Int, NEW ids \in [D -> S]
    PROVE  /\ Sorted(ids) \in Seq(S) /\ Len(Sorted(ids)) = Cardinality(D)
           /\ \A n \in 1..Cardinality(D) :
                 \E k \in D : Place(ids, k) = n /\ Sorted(ids)[n] = ids[k]
           /\ \A k \in D : Sorted(ids)[Place(ids, k)] = ids[k]
<1> DEFINE size == Cardinality(D)
           At(n) == CHOOSE k \in D : Place(ids, k) = n
           sort == [n \in 1..size |-> ids[At(n)]]
<1>1. size \in Nat
  BY FS_CardinalityType
<1>2. Sorted(ids) = sort
  BY DEF Sorted
<1>3. ids \in [D -> Int]
  OBVIOUS
<1>4. \A n \in 1..size : At(n) \in D /\ Place(ids, At(n)) = n
  BY <1>3, PlaceOnto
<1>5. \A k \in D : At(Place(ids, k)) = k /\ Place(ids, k) \in 1..size
  BY <1>3, PlaceOrder
<1> HIDE DEF At, size
<1>6. sort \in Seq(S) /\ Len(sort) = size
  <2>1. \A n \in 1..size : ids[At(n)] \in S
    BY <1>4
  <2>2. QED
    BY <1>1, <2>1
<1>7. \A n \in 1..size : sort[n] = ids[At(n)]
  OBVIOUS
<1>8. \A n \in 1..size : \E k \in D : Place(ids, k) = n /\ sort[n] = ids[k]
  BY <1>4, <1>7
<1>9. \A k \in D : sort[Place(ids, k)] = ids[k]
  BY <1>5, <1>7
<1> HIDE DEF sort
<1>10. QED
  BY <1>2, <1>6, <1>8, <1>9 DEF size

(* Strictly newest first.                                                  *)
Descends(data) == \A m, n \in DOMAIN data : m < n => data[m] > data[n]

LEMMA SortedDescends ==
    ASSUME NEW D \in SUBSET Int, IsFiniteSet(D), NEW S \in SUBSET Int, NEW ids \in [D -> S],
           \A j, k \in D : ids[j] = ids[k] => j = k
    PROVE  Descends(Sorted(ids))
<1>1. Cardinality(D) \in Nat
  BY FS_CardinalityType
<1>2. DOMAIN Sorted(ids) = 1..Cardinality(D)
  <2>1. Sorted(ids) \in Seq(S) /\ Len(Sorted(ids)) = Cardinality(D)
    BY SortedReturns
  <2>2. QED
    BY <1>1, <2>1
<1>3. SUFFICES ASSUME NEW m \in 1..Cardinality(D), NEW n \in 1..Cardinality(D), m < n
               PROVE  Sorted(ids)[m] > Sorted(ids)[n]
  BY <1>2 DEF Descends
<1>4. PICK j \in D : Place(ids, j) = m /\ Sorted(ids)[m] = ids[j]
  BY SortedReturns
<1>5. PICK k \in D : Place(ids, k) = n /\ Sorted(ids)[n] = ids[k]
  BY SortedReturns
<1>6. ids \in [D -> Int] /\ ids[j] \in Int /\ ids[k] \in Int
  OBVIOUS
<1>7. ~(ids[k] > ids[j])
  <2>1. ASSUME ids[k] > ids[j] PROVE FALSE
    <3>1. Before(ids, k, j) /\ k # j
      BY <1>3, <1>4, <1>5, <2>1 DEF Before
    <3>2. Place(ids, k) < Place(ids, j)
      BY <1>6, <3>1, PlaceOrder
    <3>3. QED
      BY <1>3, <1>4, <1>5, <3>2
  <2>2. QED
    BY <2>1
<1>8. ids[k] # ids[j]
  BY <1>3, <1>4, <1>5
<1>9. QED
  BY <1>4, <1>5, <1>6, <1>7, <1>8

(* The members of a set, newest first.                                     *)
LEMMA DescendingReturns ==
    ASSUME NEW ids \in SUBSET Id
    PROVE  /\ IsFiniteSet(ids) /\ Cardinality(ids) \in Nat
           /\ Descending(ids) \in Seq(ids) /\ Len(Descending(ids)) = Cardinality(ids)
           /\ Descends(Descending(ids))
           /\ \A i \in ids : \E n \in DOMAIN Descending(ids) : Descending(ids)[n] = i
<1> DEFINE self == [i \in ids |-> i]
<1>1. IsFiniteSet(ids) /\ Cardinality(ids) \in Nat
  <2>1. IsFiniteSet(Id)
    BY MaxIdAssumption, FS_Interval DEF Id
  <2>2. QED
    BY <2>1, FS_Subset, FS_CardinalityType
<1>2. ids \in SUBSET Int
  BY DEF Id
<1>3. self \in [ids -> ids] /\ self \in [ids -> Int]
  BY <1>2
<1>4. \A i \in ids : self[i] = i
  OBVIOUS
<1>5. Descending(ids) = Sorted(self)
  BY DEF Descending
<1> HIDE DEF self
<1>6. Sorted(self) \in Seq(ids) /\ Len(Sorted(self)) = Cardinality(ids)
  BY <1>1, <1>2, <1>3, SortedReturns
<1>7. Descends(Sorted(self))
  BY <1>1, <1>2, <1>3, <1>4, SortedDescends
<1>8. ASSUME NEW i \in ids
      PROVE  \E n \in DOMAIN Sorted(self) : Sorted(self)[n] = i
  <2>1. Place(self, i) \in 1..Cardinality(ids)
    BY <1>1, <1>2, <1>3, PlaceOrder
  <2>2. Sorted(self)[Place(self, i)] = self[i]
    BY <1>1, <1>2, <1>3, SortedReturns
  <2>3. DOMAIN Sorted(self) = 1..Cardinality(ids)
    BY <1>1, <1>6
  <2>4. QED
    BY <1>4, <2>1, <2>2, <2>3
<1>9. QED
  BY <1>1, <1>5, <1>6, <1>7, <1>8

(* What a page of the server holds: rows under the cursor, newest first,   *)
(* all of them down to its own cursor, which is that of its last row.      *)
LEMMA ListReturns ==
    ASSUME table \in SUBSET Id, NEW cursor \in 0..MaxId
    PROVE  LET page == List(cursor) IN
             /\ page \in Page
             /\ Descends(page.data)
             /\ page.next = 0 \/ page.next \in Under(cursor)
             /\ Ids(page) \subseteq Under(cursor)
             /\ \A i \in Ids(page) : page.next <= i
             /\ \A i \in Under(cursor) : page.next = 0 \/ page.next <= i => i \in Ids(page)
<1> DEFINE rows == Under(cursor)
           Above(i) == {j \in rows : j > i}
           page == {i \in rows : Cardinality(Above(i)) < PageSize}
           last == Descending(page)[Cardinality(page)]
           next == IF page = rows THEN 0 ELSE last
<1>1. List(cursor) = [data |-> Descending(page), next |-> next]
  BY DEF List
<1>2. rows \in SUBSET Id /\ page \in SUBSET Id /\ page \subseteq rows
  BY DEF Under
<1>3. rows \in SUBSET Int
  BY <1>2 DEF Id
<1> HIDE DEF rows
<1>4. /\ Descending(page) \in Seq(page) /\ Len(Descending(page)) = Cardinality(page)
      /\ Descends(Descending(page)) /\ Cardinality(page) \in Nat
      /\ \A i \in page : \E n \in DOMAIN Descending(page) : Descending(page)[n] = i
  BY <1>2, DescendingReturns
<1>5. /\ DOMAIN Descending(page) = 1..Cardinality(page)
      /\ \A n \in 1..Cardinality(page) : Descending(page)[n] \in page
  <2> HIDE DEF page
  <2>1. QED
    BY <1>4
<1>6. page # {} \/ page = rows
  <2>1. SUFFICES ASSUME rows # {} PROVE page # {}
    BY <1>2
  <2>2. /\ Descending(rows) \in Seq(rows) /\ Len(Descending(rows)) = Cardinality(rows)
        /\ Descends(Descending(rows)) /\ Cardinality(rows) \in Nat
        /\ \A i \in rows : \E n \in DOMAIN Descending(rows) : Descending(rows)[n] = i
    BY <1>2, DescendingReturns
  <2>3. DOMAIN Descending(rows) = 1..Cardinality(rows) /\ 1 \in DOMAIN Descending(rows)
    BY <2>1, <2>2
  <2> DEFINE newest == Descending(rows)[1]
  <2>4. newest \in rows
    BY <2>2, <2>3
  <2>5. \A i \in rows : ~(i > newest)
    <3>1. TAKE i \in rows
    <3>2. PICK n \in DOMAIN Descending(rows) : Descending(rows)[n] = i
      BY <2>2
    <3>3. n = 1 \/ 1 < n
      BY <2>3, <3>2
    <3>4. newest = i \/ newest > i
      BY <2>2, <2>3, <3>2, <3>3 DEF Descends
    <3>5. i \in Int /\ newest \in Int
      BY <1>3, <2>4
    <3> HIDE DEF newest
    <3>6. QED
      BY <3>4, <3>5
  <2>6. Cardinality(Above(newest)) = 0
    <3>1. Above(newest) = {}
      BY <2>5
    <3>2. QED
      BY <3>1, FS_EmptySet
  <2>7. QED
    BY <2>4, <2>6, PageSizeAssumption
<1>7. page # {} => last \in page /\ \A i \in page : last <= i
  <2>1. SUFFICES ASSUME page # {} PROVE last \in page /\ \A i \in page : last <= i
    OBVIOUS
  <2> HIDE DEF page
  <2>2. Cardinality(page) \in 1..Cardinality(page)
    <3>1. \E n : n \in DOMAIN Descending(page)
      BY <1>4, <2>1
    <3>2. QED
      BY <1>4, <1>5, <3>1
  <2>3. last \in page
    BY <1>5, <2>2
  <2>4. ASSUME NEW i \in page PROVE last <= i
    <3>1. PICK n \in DOMAIN Descending(page) : Descending(page)[n] = i
      BY <1>4
    <3>2. n = Cardinality(page) \/ n < Cardinality(page)
      BY <1>4, <1>5, <3>1
    <3>3. i = last \/ i > last
      BY <1>4, <1>5, <2>2, <3>1, <3>2 DEF Descends
    <3>4. i \in Int /\ last \in Int
      BY <1>2, <1>3, <2>3
    <3>5. QED
      BY <3>3, <3>4
  <2>5. QED
    BY <2>3, <2>4
<1>8. ASSUME NEW i \in rows, page # {}, last <= i
      PROVE  i \in page
  <2>1. last \in rows /\ last \in page
    BY <1>2, <1>7, <1>8
  <2>2. Above(i) \subseteq Above(last)
    <3>1. i \in Int /\ last \in Int
      BY <1>3, <2>1
    <3>2. \A j \in Int : j > i => j > last
      BY <1>8, <3>1
    <3>3. QED
      BY <1>3, <3>2
  <2>3. IsFiniteSet(rows)
    BY <1>2, DescendingReturns
  <2>4. IsFiniteSet(Above(last)) /\ IsFiniteSet(Above(i))
    BY <2>3, FS_Subset
  <2>5. Cardinality(Above(last)) < PageSize
    BY <2>1
  <2> HIDE DEF Above
  <2>6. /\ Cardinality(Above(i)) <= Cardinality(Above(last))
        /\ Cardinality(Above(i)) \in Nat /\ Cardinality(Above(last)) \in Nat
    BY <2>2, <2>4, FS_Subset, FS_CardinalityType
  <2>7. Cardinality(Above(i)) < PageSize
    BY <2>5, <2>6, PageSizeAssumption
  <2>8. QED
    BY <2>7
<1> HIDE DEF page, last
<1>9. Ids(List(cursor)) = page
  <2>1. Ids(List(cursor)) = {Descending(page)[n] : n \in DOMAIN Descending(page)}
    BY <1>1 DEF Ids
  <2>2. QED
    BY <1>4, <1>5, <2>1
<1>10. next = 0 \/ (page # {} /\ next = last /\ next \in rows)
  BY <1>2, <1>6, <1>7
<1>11. next \in 0..MaxId
  <2>1. 0 \in 0..MaxId /\ \A i \in rows : i \in 0..MaxId
    BY <1>2, MaxIdAssumption DEF Id
  <2> HIDE DEF next
  <2>2. QED
    BY <1>10, <2>1
<1>12. List(cursor) \in Page
  <2>1. Descending(page) \in Seq(Id)
    BY <1>2, <1>4
  <2>2. QED
    BY <1>1, <1>11, <2>1 DEF Page
<1>13. \A i \in page : next <= i
  <2>1. TAKE i \in page
  <2>2. i \in Int /\ i >= 0 /\ page # {}
    BY <1>2 DEF Id
  <2>3. QED
    BY <1>7, <2>2
<1>14. \A i \in rows : next = 0 \/ next <= i => i \in page
  <2>1. TAKE i \in rows
  <2>2. CASE page = rows
    BY <2>2
  <2>3. CASE page # rows
    <3>1. next = last /\ page # {}
      BY <1>6, <2>3
    <3>2. last # 0
      BY <1>2, <1>7, <3>1 DEF Id
    <3>3. QED
      BY <1>8, <3>1, <3>2
  <2>4. QED
    BY <2>2, <2>3
<1>15. /\ List(cursor).data = Descending(page) /\ List(cursor).next = next
  BY <1>1
<1> HIDE DEF next
<1>16. QED
  BY <1>2, <1>4, <1>9, <1>10, <1>12, <1>13, <1>14, <1>15 DEF rows

-----------------------------------------------------------------------------
(* A live ping in a page: its rows and that one, still newest first.       *)
LEMMA InsertedPage ==
    ASSUME NEW page \in Page, NEW i \in Id
    PROVE  LET merged == [page EXCEPT !.data = Sorted(Append(@, i))] IN
             /\ merged \in Page /\ merged.next = page.next
             /\ Ids(merged) = Ids(page) \cup {i}
             /\ Descends(page.data) /\ i \notin Ids(page) => Descends(merged.data)
<1> DEFINE data == Append(page.data, i)
           size == Len(page.data)
           D == 1..(size + 1)
           merged == [page EXCEPT !.data = Sorted(data)]
<1>1. page.data \in Seq(Id) /\ size \in Nat
  BY DEF Page
<1>2. data \in Seq(Id) /\ data \in [D -> Id] /\ DOMAIN data = D
  <2>1. data \in Seq(Id) /\ Len(data) = size + 1
    BY <1>1
  <2> HIDE DEF data
  <2>2. QED
    BY <1>1, <2>1
<1>3. (\A k \in 1..size : data[k] = page.data[k]) /\ data[size + 1] = i
  BY <1>1
<1>4. D \in SUBSET Int /\ Id \in SUBSET Int
  BY DEF Id
<1>5. IsFiniteSet(D) /\ Cardinality(D) \in Nat
  <2>1. 1 \in Int /\ size + 1 \in Int
    BY <1>1
  <2> HIDE DEF size
  <2>2. IsFiniteSet(D)
    BY <2>1, FS_Interval
  <2>3. QED
    BY <2>2, FS_CardinalityType
<1>6. Ids(page) = {page.data[k] : k \in 1..size}
  BY <1>1 DEF Ids
<1>7. Ids(page) \cup {i} = {data[k] : k \in D}
  <2>1. D = 1..size \cup {size + 1}
    BY <1>1
  <2> HIDE DEF data, D
  <2>2. QED
    BY <1>3, <1>6, <2>1
<1> HIDE DEF data, D
<1>8. Sorted(data) \in Seq(Id) /\ Len(Sorted(data)) = Cardinality(D)
  BY <1>2, <1>4, <1>5, SortedReturns
<1>9. merged \in Page /\ merged.data = Sorted(data) /\ merged.next = page.next
  BY <1>8 DEF Page
<1>10. Ids(merged) = {data[k] : k \in D}
  <2>1. Ids(merged) = {Sorted(data)[n] : n \in 1..Cardinality(D)}
    BY <1>5, <1>8, <1>9 DEF Ids
  <2>2. \A n \in 1..Cardinality(D) : \E k \in D : Sorted(data)[n] = data[k]
    BY <1>2, <1>4, <1>5, SortedReturns
  <2>3. \A k \in D : Place(data, k) \in 1..Cardinality(D)
    <3>1. data \in [D -> Int]
      BY <1>2, <1>4
    <3>2. QED
      BY <1>4, <1>5, <3>1, PlaceOrder
  <2>4. \A k \in D : Sorted(data)[Place(data, k)] = data[k]
    BY <1>2, <1>4, <1>5, SortedReturns
  <2>5. QED
    BY <2>1, <2>2, <2>3, <2>4
<1>11. ASSUME Descends(page.data), i \notin Ids(page)
       PROVE  Descends(Sorted(data))
  <2>1. ASSUME NEW j \in D, NEW k \in D, j < k
        PROVE  data[j] # data[k]
    <3>1. j \in 1..size /\ (k \in 1..size \/ k = size + 1)
      BY <1>1, <2>1 DEF D
    <3>2. data[j] = page.data[j] /\ data[j] \in Ids(page) /\ data[j] \in Int
      BY <1>2, <1>3, <1>4, <1>6, <2>1, <3>1
    <3>3. CASE k \in 1..size
      <4>1. page.data[j] > page.data[k]
        <5>1. DOMAIN page.data = 1..size
          BY <1>1
        <5>2. QED
          BY <1>11, <2>1, <3>1, <3>3, <5>1 DEF Descends
      <4>2. data[k] = page.data[k] /\ data[k] \in Int
        BY <1>2, <1>3, <1>4, <3>3
      <4>3. QED
        BY <3>2, <4>1, <4>2
    <3>4. CASE k = size + 1
      BY <1>3, <1>11, <3>2, <3>4
    <3>5. QED
      BY <3>1, <3>3, <3>4
  <2>2. ASSUME NEW j \in D, NEW k \in D, data[j] = data[k]
        PROVE  j = k
    <3>1. ~(j < k) /\ ~(k < j)
      BY <2>1, <2>2
    <3>2. QED
      BY <1>4, <3>1
  <2>3. \A j, k \in D : data[j] = data[k] => j = k
    BY <2>2
  <2>4. QED
    BY <1>2, <1>4, <1>5, <2>3, SortedDescends
<1> HIDE DEF merged
<1>12. QED
  BY <1>7, <1>9, <1>10, <1>11 DEF merged, data

(* The rows of some pages, and the order they are in: each page above its  *)
(* cursor, and those behind it below.                                      *)
RowsOf(ps) == UNION {Ids(ps[k]) : k \in DOMAIN ps}

Ordered(ps) ==
    /\ \A k \in DOMAIN ps : Descends(ps[k].data) /\ \A i \in Ids(ps[k]) : ps[k].next <= i
    /\ \A k, l \in DOMAIN ps : k < l =>
          /\ ps[k].next # 0 /\ ps[l].next < ps[k].next
          /\ \A i \in Ids(ps[l]) : i < ps[k].next

(* All rows of the table down to the last cursor, but for pending ones.    *)
DownTo(cursor) == {i \in table \cap matching : cursor = 0 \/ i >= cursor}
Covers(ps) == DownTo(ps[Len(ps)].next) \subseteq RowsOf(ps) \cup pending

(* The pages with a live ping merged into the first one.                   *)
LEMMA InsertPingReturns ==
    ASSUME TypeOK, NEW i \in Id
    PROVE  LET merged == InsertPing(i) IN
             /\ merged \in Seq(Page) /\ Len(merged) = Len(pages)
             /\ DOMAIN merged = DOMAIN pages
             /\ \A k \in DOMAIN pages : merged[k].next = pages[k].next
             /\ RowsOf(merged) = Shown \cup (IF loaded THEN {i} ELSE {})
             /\ Ordered(pages) /\ i \in matching /\ ~BelowFirstPage(i) => Ordered(merged)
<1> DEFINE merged == InsertPing(i)
           head == [pages[1] EXCEPT !.data = Sorted(Append(@, i))]
<1>1. pages \in Seq(Page) /\ (loaded <=> pages # <<>>)
  BY Zenon DEF TypeOK
<1>2. RowsOf(pages) = Shown
  BY DEF RowsOf, Shown
<1>3. CASE ~loaded \/ i \in Shown
  <2>1. merged = pages
    BY <1>3 DEF InsertPing
  <2>2. Shown \cup (IF loaded THEN {i} ELSE {}) = Shown
    BY <1>3
  <2>3. QED
    BY <1>1, <1>2, <2>1, <2>2
<1>4. CASE loaded /\ i \notin Shown
  <2>1. 1 \in DOMAIN pages /\ pages[1] \in Page /\ DOMAIN pages = 1..Len(pages) /\ Len(pages) \in Nat
    BY <1>1, <1>4
  <2>2. /\ head \in Page /\ head.next = pages[1].next
        /\ Ids(head) = Ids(pages[1]) \cup {i}
        /\ Descends(pages[1].data) /\ i \notin Ids(pages[1]) => Descends(head.data)
    BY <2>1, InsertedPage
  <2>3. merged = [pages EXCEPT ![1] = head]
    BY <1>4 DEF InsertPing
  <2> HIDE DEF head, merged
  <2>4. merged \in Seq(Page) /\ Len(merged) = Len(pages) /\ DOMAIN merged = DOMAIN pages
    BY <1>1, <2>1, <2>2, <2>3
  <2>5. merged[1] = head /\ \A k \in DOMAIN pages : k # 1 => merged[k] = pages[k]
    BY <1>1, <2>1, <2>3
  <2>6. \A k \in DOMAIN pages : merged[k].next = pages[k].next
    BY <2>2, <2>5
  <2>7. RowsOf(merged) = Shown \cup {i}
    <3>1. \A k \in DOMAIN pages : Ids(merged[k]) = Ids(pages[k]) \cup (IF k = 1 THEN {i} ELSE {})
      BY <2>2, <2>5
    <3>2. QED
      BY <2>1, <2>4, <3>1 DEF RowsOf, Shown
  <2>8. ASSUME Ordered(pages), ~BelowFirstPage(i), i \in matching
        PROVE  Ordered(merged)
    <3>1. ~(i < pages[1].next) /\ i \in Int /\ pages[1].next \in Int
      BY <1>4, <2>1, <2>8 DEF BelowFirstPage, Page, Id
    <3>2. i \notin Ids(pages[1])
      BY <1>4, <2>1 DEF Shown
    <3>3. ASSUME NEW k \in DOMAIN pages
          PROVE  Descends(merged[k].data) /\ \A j \in Ids(merged[k]) : merged[k].next <= j
      <4>1. Descends(pages[k].data) /\ \A j \in Ids(pages[k]) : pages[k].next <= j
        BY <2>8 DEF Ordered
      <4>2. CASE k = 1
        BY <2>2, <2>5, <3>1, <3>2, <4>1, <4>2
      <4>3. CASE k # 1
        BY <2>5, <4>1, <4>3
      <4>4. QED
        BY <4>2, <4>3
    <3>4. ASSUME NEW k \in DOMAIN pages, NEW l \in DOMAIN pages, k < l
          PROVE  /\ merged[k].next # 0 /\ merged[l].next < merged[k].next
                 /\ \A j \in Ids(merged[l]) : j < merged[k].next
      <4>1. /\ pages[k].next # 0 /\ pages[l].next < pages[k].next
            /\ \A j \in Ids(pages[l]) : j < pages[k].next
        BY <2>8, <3>4 DEF Ordered
      <4>2. l # 1
        BY <2>1, <3>4
      <4>3. merged[l] = pages[l] /\ merged[k].next = pages[k].next
        BY <2>5, <2>6, <4>2
      <4>4. QED
        BY <4>1, <4>3
    <3>5. QED
      BY <2>4, <3>3, <3>4 DEF Ordered
  <2>9. Shown \cup (IF loaded THEN {i} ELSE {}) = Shown \cup {i}
    BY <1>4
  <2>10. QED
    BY <2>4, <2>6, <2>7, <2>8, <2>9 DEF merged
<1>5. QED
  BY <1>3, <1>4

(* The cursor of the page after some pages.                                *)
After(ps) == IF ps = <<>> THEN 0 ELSE ps[Len(ps)].next

(* The page that the server gives behind some others goes on where they    *)
(* end: still in order, and nothing left out.                              *)
LEMMA PageAdded ==
    ASSUME table \in SUBSET Id, NEW ps \in Seq(Page), ps # <<>> => After(ps) # 0
    PROVE  LET longer == Append(ps, List(After(ps))) IN
             /\ longer \in Seq(Page) /\ longer # <<>>
             /\ RowsOf(longer) \subseteq RowsOf(ps) \cup (table \cap matching)
             /\ Ordered(ps) => Ordered(longer)
             /\ (ps # <<>> => Covers(ps)) => Covers(longer)
<1> DEFINE cursor == After(ps)
           page == List(cursor)
           longer == Append(ps, page)
           n == Len(ps)
<1>1. n \in Nat /\ DOMAIN ps = 1..n /\ \A k \in 1..n : ps[k] \in Page
  OBVIOUS
<1>2. cursor \in 0..MaxId /\ (ps # <<>> => n \in 1..n /\ cursor = ps[n].next)
  <2>1. ps # <<>> => n \in 1..n
    BY <1>1
  <2>2. \A p \in Page : p.next \in 0..MaxId
    BY DEF Page
  <2>3. 0 \in 0..MaxId
    BY MaxIdAssumption
  <2>4. QED
    BY <1>1, <2>1, <2>2, <2>3 DEF After
<1> HIDE DEF cursor
<1>3. /\ page \in Page /\ Descends(page.data)
      /\ page.next = 0 \/ page.next \in Under(cursor)
      /\ Ids(page) \subseteq Under(cursor)
      /\ \A i \in Ids(page) : page.next <= i
      /\ \A i \in Under(cursor) : page.next = 0 \/ page.next <= i => i \in Ids(page)
  BY <1>2, ListReturns
<1> HIDE DEF page
<1>4. /\ longer \in Seq(Page) /\ longer # <<>> /\ Len(longer) = n + 1
      /\ DOMAIN longer = 1..(n + 1)
      /\ (\A k \in 1..n : longer[k] = ps[k]) /\ longer[n + 1] = page
  BY <1>1, <1>3
<1>5. 1..(n + 1) = 1..n \cup {n + 1}
  BY <1>1
<1> HIDE DEF longer, n
<1>6. RowsOf(longer) = RowsOf(ps) \cup Ids(page)
  <2>1. DOMAIN longer = 1..n \cup {n + 1}
    BY <1>4, <1>5
  <2>2. \A i : i \in RowsOf(longer) <=> \E k \in 1..n \cup {n + 1} : i \in Ids(longer[k])
    BY ONLY <2>1 DEF RowsOf
  <2>3. \A i : i \in RowsOf(ps) <=> \E k \in 1..n : i \in Ids(ps[k])
    BY Zenon, <1>1 DEF RowsOf
  <2>4. \A k \in 1..n : Ids(longer[k]) = Ids(ps[k])
    BY Zenon, <1>4
  <2>5. Ids(longer[n + 1]) = Ids(page)
    BY Zenon, <1>4
  <2> DEFINE first == 1..n
             m == n + 1
  <2> HIDE DEF first, m
  <2>6. /\ \A i : i \in RowsOf(longer) <=> \E k \in first \cup {m} : i \in Ids(longer[k])
        /\ \A i : i \in RowsOf(ps) <=> \E k \in first : i \in Ids(ps[k])
        /\ \A k \in first : Ids(longer[k]) = Ids(ps[k])
        /\ Ids(longer[m]) = Ids(page)
    BY Zenon, <2>2, <2>3, <2>4, <2>5 DEF first, m
  <2>7. \A i : i \in RowsOf(longer) <=> i \in RowsOf(ps) \/ i \in Ids(page)
    BY Zenon, <2>6
  <2>8. QED
    BY Zenon, <2>7
<1>7. Under(cursor) \subseteq table \cap matching /\ Under(cursor) \subseteq Id
  BY DEF Under
<1>8. ASSUME Ordered(ps) PROVE Ordered(longer)
  <2>1. ASSUME NEW k \in 1..(n + 1)
        PROVE  Descends(longer[k].data) /\ \A i \in Ids(longer[k]) : longer[k].next <= i
    <3>1. CASE k \in 1..n
      <4>1. Descends(ps[k].data) /\ \A i \in Ids(ps[k]) : ps[k].next <= i
        BY <1>1, <1>8, <3>1 DEF Ordered
      <4>2. longer[k] = ps[k]
        BY <1>4, <3>1
      <4>3. QED
        BY <4>1, <4>2
    <3>2. CASE k = n + 1
      BY <1>3, <1>4, <3>2
    <3>3. QED
      BY <1>5, <2>1, <3>1, <3>2
  <2>2. ASSUME NEW k \in 1..(n + 1), NEW l \in 1..(n + 1), k < l
        PROVE  /\ longer[k].next # 0 /\ longer[l].next < longer[k].next
               /\ \A i \in Ids(longer[l]) : i < longer[k].next
    <3>1. k \in 1..n /\ longer[k] = ps[k]
      BY <1>1, <1>4, <2>2
    <3>2. CASE l \in 1..n
      <4>1. longer[l] = ps[l]
        BY <1>4, <3>2
      <4>2. /\ ps[k].next # 0 /\ ps[l].next < ps[k].next
            /\ \A i \in Ids(ps[l]) : i < ps[k].next
        BY <1>1, <1>8, <2>2, <3>1, <3>2 DEF Ordered
      <4>3. QED
        BY <3>1, <4>1, <4>2
    <3>3. CASE l = n + 1
      <4>1. longer[l] = page
        BY <1>4, <3>3
      <4>2. ps # <<>> /\ cursor # 0 /\ cursor = ps[n].next
        BY <1>1, <1>2, <3>1 DEF cursor
      <4>3. cursor <= ps[k].next /\ ps[k].next # 0
        <5>1. n \in 1..n /\ (k = n \/ k < n)
          BY <1>1, <1>2, <3>1, <4>2
        <5>2. CASE k = n
          BY <1>2, <4>2, <5>2
        <5>3. CASE k < n
          <6>1. ps[k].next # 0 /\ ps[n].next < ps[k].next
            BY <1>1, <1>8, <3>1, <5>1, <5>3 DEF Ordered
          <6>2. ps[k] \in Page /\ ps[k].next \in Int /\ cursor \in Int
            BY <1>1, <1>2, <3>1 DEF Page
          <6>3. QED
            BY <4>2, <6>1, <6>2
        <5>4. QED
          BY <5>1, <5>2, <5>3
      <4>4. ps[k].next \in Int /\ cursor \in Int /\ page.next \in Int /\ cursor > 0
        BY <1>1, <1>2, <1>3, <3>1, <4>2 DEF Page
      <4>5. \A i \in Under(cursor) : i < cursor /\ i \in Int
        BY <4>2 DEF Under, Id
      <4>6. page.next < cursor
        BY <1>3, <4>4, <4>5
      <4>7. \A i \in Ids(page) : i < ps[k].next
        BY <1>3, <4>3, <4>4, <4>5
      <4>8. QED
        BY <3>1, <4>1, <4>3, <4>4, <4>6, <4>7
    <3>4. QED
      BY <1>5, <2>2, <3>2, <3>3
  <2>3. QED
    BY <1>4, <2>1, <2>2 DEF Ordered
<1>9. ASSUME ps # <<>> => Covers(ps) PROVE Covers(longer)
  <2>1. longer[Len(longer)].next = page.next
    BY <1>4
  <2>2. SUFFICES ASSUME NEW i \in table \cap matching, page.next = 0 \/ i >= page.next
                 PROVE  i \in RowsOf(longer) \cup pending
    BY <2>1 DEF Covers, DownTo
  <2>3. i \in Int /\ page.next \in Int /\ cursor \in Int
    <3>1. i \in Int
      BY <2>2 DEF Id
    <3>2. page.next \in 0..MaxId
      BY <1>3 DEF Page
    <3>3. QED
      BY <1>2, <3>1, <3>2
  <2>4. CASE i \in Under(cursor)
    BY <1>3, <1>6, <2>2, <2>3, <2>4
  <2>5. CASE i \notin Under(cursor)
    <3>1. cursor # 0 /\ i >= cursor
      BY <2>3, <2>5 DEF Under
    <3>2. ps # <<>> /\ cursor = ps[Len(ps)].next
      BY <1>2, <3>1 DEF cursor, After
    <3>3. i \in DownTo(ps[Len(ps)].next)
      BY <3>1, <3>2 DEF DownTo
    <3>4. QED
      BY <1>6, <1>9, <3>2, <3>3 DEF Covers
  <2>6. QED
    BY <2>4, <2>5
<1>10. QED
  BY <1>3, <1>4, <1>6, <1>7, <1>8, <1>9 DEF longer, page, cursor
-----------------------------------------------------------------------------
(* What a fetch under way starts from and wants.                           *)
Fetching ==
    /\ fetch.kind # "idle" => fetch.want > 0
    /\ fetch.kind = "idle" => fetch.got = <<>>
    /\ fetch.kind = "older" => fetch.old # <<>> /\ fetch.old[Len(fetch.old)].next # 0

Flags == loaded \in BOOLEAN /\ stale \in BOOLEAN /\ misplaced \in BOOLEAN

(* A ping under way with a fetch changes nothing but that it is raced.     *)
LEMMA MissedKeeps ==
    ASSUME fetch \in Fetch, Missed
    PROVE  /\ fetch' \in Fetch
           /\ fetch'.kind = fetch.kind /\ fetch'.old = fetch.old
           /\ fetch'.want = fetch.want /\ fetch'.got = fetch.got
           /\ fetch.kind # "idle" => fetch'.raced
           /\ Coming' = Coming
<1>1. CASE fetch.kind = "idle"
  BY <1>1 DEF Missed, Coming
<1>2. CASE fetch.kind # "idle"
  <2>1. fetch' = [fetch EXCEPT !.raced = TRUE]
    BY <1>2 DEF Missed
  <2>2. /\ fetch' \in Fetch
        /\ fetch'.kind = fetch.kind /\ fetch'.old = fetch.old
        /\ fetch'.want = fetch.want /\ fetch'.got = fetch.got
        /\ fetch'.raced = TRUE
    BY <2>1 DEF Fetch
  <2>3. QED
    BY <2>2 DEF Coming
<1>3. QED
  BY <1>1, <1>2

(* The pages of a fetch: none before the first, and behind those it has,   *)
(* one that has a cursor.                                                  *)
LEMMA ComingTyped ==
    ASSUME fetch \in Fetch, Fetching
    PROVE  /\ Coming \in Seq(Page) /\ NextParam = After(Coming)
           /\ fetch.kind = "idle" => Coming = <<>>
           /\ fetch.kind # "idle" /\ Complete => Coming # <<>>
           /\ fetch.kind # "idle" /\ ~Complete /\ Coming # <<>> => NextParam # 0
<1>1. /\ fetch.kind \in {"idle", "all", "older"} /\ fetch.old \in Seq(Page)
      /\ fetch.want \in Nat /\ fetch.got \in Seq(Page)
  BY DEF Fetch
<1>2. NextParam = After(Coming)
  BY DEF NextParam, After
<1>3. Coming \in Seq(Page)
  BY <1>1 DEF Coming
<1>4. fetch.kind = "idle" => Coming = <<>>
  BY DEF Coming, Fetching
<1>5. fetch.kind # "idle" /\ Complete => Coming # <<>>
  <2>1. SUFFICES ASSUME fetch.kind # "idle", Complete PROVE Coming # <<>>
    OBVIOUS
  <2>2. Len(fetch.got) > 0
    BY <1>1, <2>1 DEF Complete, Fetching
  <2>3. CASE fetch.kind = "older"
    <3>1. Len(Coming) = Len(fetch.old) + Len(fetch.got)
      BY <1>1, <2>3 DEF Coming
    <3>2. Len(Coming) > 0
      <4>1. Len(fetch.old) \in Nat /\ Len(fetch.got) \in Nat
        BY <1>1
      <4>2. \A m, n \in Nat : n > 0 => m + n > 0
        OBVIOUS
      <4>3. QED
        BY <2>2, <3>1, <4>1, <4>2
    <3>3. QED
      BY <3>2
  <2>4. CASE fetch.kind # "older"
    BY <2>2, <2>4 DEF Coming
  <2>5. QED
    BY <2>3, <2>4
<1>6. fetch.kind # "idle" /\ ~Complete /\ Coming # <<>> => NextParam # 0
  <2>1. SUFFICES ASSUME fetch.kind # "idle", ~Complete, Coming # <<>> PROVE NextParam # 0
    OBVIOUS
  <2>2. CASE Len(fetch.got) > 0
    BY <2>1, <2>2 DEF Complete
  <2>3. CASE ~(Len(fetch.got) > 0)
    <3>1. fetch.got = <<>>
      BY <1>1, <2>3
    <3>2. fetch.kind = "older"
      BY <2>1, <3>1 DEF Coming
    <3>3. Coming = fetch.old
      BY <1>1, <3>1, <3>2 DEF Coming
    <3>4. QED
      BY <2>1, <3>2, <3>3 DEF NextParam, Fetching
  <2>4. QED
    BY <2>2, <2>3
<1>7. QED
  BY <1>2, <1>3, <1>4, <1>5, <1>6
-----------------------------------------------------------------------------
Data ==
    /\ table \in SUBSET Id /\ matching \in SUBSET Id /\ pending \in SUBSET table
    /\ lastEventId \in 0..MaxId
    /\ pages \in Seq(Page) /\ fetch \in Fetch
Loaded == loaded <=> pages # <<>>

LEMMA TypeParts == TypeOK <=> Data /\ Loaded /\ Flags
  BY Zenon DEF TypeOK, Data, Loaded, Flags

(* What the arrival of a ping does to the list.                            *)
LEMMA Applied ==
    ASSUME TypeOK, NEW i \in Id, Apply(i)
    PROVE  /\ pages' \in Seq(Page) /\ Len(pages') = Len(pages) /\ DOMAIN pages' = DOMAIN pages
           /\ \A k \in DOMAIN pages : pages'[k].next = pages[k].next
           /\ Shown \subseteq RowsOf(pages') /\ RowsOf(pages') \subseteq Shown \cup ({i} \cap matching)
           /\ loaded /\ i \in matching => i \in RowsOf(pages')
           /\ ~misplaced' /\ Ordered(pages) => Ordered(pages')
           /\ misplaced => misplaced'
<1>1. /\ pages' = IF i \in matching THEN InsertPing(i) ELSE pages
      /\ misplaced' <=> misplaced \/ BelowFirstPage(i)
  BY Zenon DEF Apply
<1>2. pages \in Seq(Page)
  BY Zenon DEF TypeOK
<1>3. CASE i \notin matching
  <2>1. pages' = pages /\ RowsOf(pages) = Shown
    BY Zenon, <1>1, <1>3 DEF RowsOf, Shown
  <2>2. QED
    BY Zenon, <1>1, <1>2, <1>3, <2>1
<1>4. CASE i \in matching
  <2>1. pages' = InsertPing(i)
    BY <1>1, <1>4
  <2>2. /\ pages' \in Seq(Page) /\ Len(pages') = Len(pages) /\ DOMAIN pages' = DOMAIN pages
        /\ \A k \in DOMAIN pages : pages'[k].next = pages[k].next
        /\ RowsOf(InsertPing(i)) = Shown \cup (IF loaded THEN {i} ELSE {})
        /\ Ordered(pages) /\ i \in matching /\ ~BelowFirstPage(i) => Ordered(InsertPing(i))
    BY <2>1, InsertPingReturns
  <2>3. RowsOf(pages') = Shown \cup (IF loaded THEN {i} ELSE {})
    BY Zenon, <2>1, <2>2
  <2>4. ~misplaced' /\ Ordered(pages) => Ordered(pages')
    BY Zenon, <1>1, <1>4, <2>1, <2>2
  <2>5. /\ Shown \subseteq RowsOf(pages') /\ RowsOf(pages') \subseteq Shown \cup ({i} \cap matching)
        /\ loaded => i \in RowsOf(pages')
    BY <1>4, <2>3
  <2>6. QED
    BY Zenon, <1>1, <2>2, <2>4, <2>5
<1>5. QED
  BY <1>3, <1>4

(* An event arrives, as it was sent or replayed.                           *)
LEMMA ArrivalTyped ==
    ASSUME TypeOK, Fetching, NEW i \in Id, Deliver(i) \/ Redeliver(i)
    PROVE  /\ Apply(i) /\ i \in table /\ UNCHANGED <<table, matching, loaded, stale>>
           /\ pending' \subseteq pending /\ pending \subseteq pending' \cup {i}
           /\ Data' /\ Loaded' /\ Flags' /\ Fetching'
<1>1. /\ Apply(i) /\ i \in table /\ UNCHANGED <<table, matching, loaded, stale>>
      /\ pending' \subseteq pending /\ pending \subseteq pending' \cup {i}
  BY DEF Deliver, Redeliver, Apply, TypeOK
<1>2. Data /\ Loaded /\ Flags
  BY TypeParts
<1>3. pages' \in Seq(Page) /\ Len(pages') = Len(pages)
  BY <1>1, Applied
<1>4. Missed /\ lastEventId' = i
  BY Zenon, <1>1 DEF Apply
<1>5. fetch' \in Fetch /\ fetch'.kind = fetch.kind /\ fetch'.old = fetch.old
      /\ fetch'.want = fetch.want /\ fetch'.got = fetch.got
  BY <1>2, <1>4, MissedKeeps DEF Data
<1>6. Data'
  <2>1. lastEventId' \in 0..MaxId
    BY <1>4 DEF Id
  <2>2. QED
    BY <1>1, <1>2, <1>3, <1>5, <2>1 DEF Data
<1>7. Loaded'
  <2>1. pages' = <<>> <=> pages = <<>>
    BY <1>2, <1>3 DEF Data
  <2>2. QED
    BY Zenon, <1>1, <1>2, <2>1 DEF Loaded
<1>8. Flags'
  BY Zenon, <1>1, <1>2 DEF Apply, Flags
<1>9. Fetching'
  BY <1>5 DEF Fetching
<1>10. QED
  BY <1>1, <1>6, <1>7, <1>8, <1>9

LEMMA FetchTyped ==
    ASSUME TypeOK, Fetching, Refetch \/ LoadOlder \/ FetchPage \/ FetchDone \/ FetchFails
    PROVE  Data' /\ Loaded' /\ Flags' /\ Fetching'
<1>1. Data /\ Loaded /\ Flags
  BY TypeParts
<1>2. table' = table /\ matching' = matching /\ pending' = pending /\ lastEventId' = lastEventId
  BY Zenon DEF Refetch, LoadOlder, FetchPage, FetchDone, FetchFails
<1>3. /\ Coming \in Seq(Page) /\ NextParam = After(Coming)
      /\ fetch.kind # "idle" /\ Complete => Coming # <<>>
  BY <1>1, ComingTyped DEF Data
<1>4. Idle \in Fetch /\ Idle.kind = "idle" /\ Idle.got = <<>>
  BY DEF Idle, Fetch
<1>5. Flags'
  <2>1. CASE Refetch
    BY Zenon, <1>1, <2>1 DEF Refetch, Flags
  <2>2. CASE LoadOlder
    BY Zenon, <1>1, <2>2 DEF LoadOlder, Flags
  <2>3. CASE FetchPage
    BY Zenon, <1>1, <2>3 DEF FetchPage, Flags
  <2>4. CASE FetchDone
    <3>1. fetch.raced \in BOOLEAN
      BY <1>1 DEF Data, Fetch
    <3>2. /\ loaded' = TRUE
          /\ stale' = (fetch.raced \/ (fetch.kind = "older" /\ stale))
          /\ misplaced' = (fetch.kind = "older" /\ misplaced)
      BY Zenon, <2>4 DEF FetchDone
    <3>3. QED
      BY Zenon, <1>1, <3>1, <3>2 DEF Flags
  <2>5. CASE FetchFails
    BY Zenon, <1>1, <2>5 DEF FetchFails, Flags
  <2>6. QED
    BY <2>1, <2>2, <2>3, <2>4, <2>5
<1>6. CASE Refetch
  <2>1. pages' = pages /\ loaded' = loaded
    BY Zenon, <1>6 DEF Refetch
  <2>2. fetch' = [kind |-> "all", old |-> pages, got |-> <<>>, raced |-> FALSE,
                  want |-> IF loaded THEN Len(pages) ELSE 1]
    BY Zenon, <1>6 DEF Refetch
  <2>3. (IF loaded THEN Len(pages) ELSE 1) \in Nat /\ (IF loaded THEN Len(pages) ELSE 1) > 0
    <3>1. pages \in Seq(Page) /\ (loaded => pages # <<>>)
      BY <1>1 DEF Data, Loaded
    <3>2. QED
      BY <3>1
  <2> DEFINE want == IF loaded THEN Len(pages) ELSE 1
  <2> HIDE DEF want
  <2>4. fetch' \in Fetch /\ fetch'.kind = "all" /\ fetch'.want > 0
    <3>1. fetch' = [kind |-> "all", old |-> pages, got |-> <<>>, raced |-> FALSE, want |-> want]
      BY Zenon, <2>2 DEF want
    <3>2. want \in Nat /\ want > 0
      BY Zenon, <2>3 DEF want
    <3>3. pages \in Seq(Page)
      BY <1>1 DEF Data
    <3>4. QED
      BY <3>1, <3>2, <3>3 DEF Fetch
  <2>5. Data'
    BY <1>1, <1>2, <2>1, <2>4 DEF Data
  <2>6. Loaded'
    BY Zenon, <1>1, <2>1 DEF Loaded
  <2>7. Fetching'
    BY <2>4 DEF Fetching
  <2>8. QED
    BY <1>5, <2>5, <2>6, <2>7
<1>7. CASE LoadOlder
  <2>1. /\ pages' = pages /\ loaded' = loaded
        /\ loaded /\ pages[Len(pages)].next # 0
        /\ fetch' = [kind |-> "older", old |-> pages, got |-> <<>>, raced |-> FALSE, want |-> 1]
    BY Zenon, <1>7 DEF LoadOlder
  <2>2. pages # <<>> /\ pages \in Seq(Page)
    BY <1>1, <2>1 DEF Data, Loaded
  <2>3. fetch' \in Fetch /\ Fetching'
    BY <2>1, <2>2 DEF Fetch, Fetching
  <2>4. Data'
    BY <1>1, <1>2, <2>1, <2>3 DEF Data
  <2>5. Loaded'
    BY Zenon, <1>1, <2>1 DEF Loaded
  <2>6. QED
    BY <1>5, <2>3, <2>4, <2>5
<1>8. CASE FetchPage
  <2>1. /\ pages' = pages /\ loaded' = loaded /\ fetch.kind # "idle"
        /\ fetch' = [fetch EXCEPT !.got = Append(@, List(NextParam))]
    BY Zenon, <1>8 DEF FetchPage
  <2>2. List(NextParam) \in Page
    <3>1. NextParam \in 0..MaxId
      <4>1. Coming # <<>> => Coming[Len(Coming)] \in Page
        BY <1>3
      <4>2. QED
        BY <4>1, MaxIdAssumption DEF NextParam, Page
    <3>2. QED
      BY <1>1, <3>1, ListReturns DEF Data
  <2>3. fetch' \in Fetch /\ Fetching'
    <3> DEFINE page == List(NextParam)
    <3> HIDE DEF page
    <3>1. page \in Page /\ fetch' = [fetch EXCEPT !.got = Append(@, page)]
      BY Zenon, <2>1, <2>2 DEF page
    <3>2. fetch \in Fetch
      BY <1>1 DEF Data
    <3>3. /\ fetch' \in Fetch /\ fetch'.kind = fetch.kind
          /\ fetch'.want = fetch.want /\ fetch'.old = fetch.old
      <4> DEFINE more == Append(fetch.got, page)
      <4>1. fetch.got \in Seq(Page)
        BY <3>2 DEF Fetch
      <4>2. more \in Seq(Page) /\ fetch' = [fetch EXCEPT !.got = more]
        BY <3>1, <4>1
      <4> HIDE DEF more
      <4>3. QED
        BY <3>2, <4>2 DEF Fetch
    <3>4. QED
      BY <2>1, <3>3 DEF Fetching
  <2>4. Data'
    BY <1>1, <1>2, <2>1, <2>3 DEF Data
  <2>5. Loaded'
    BY Zenon, <1>1, <2>1 DEF Loaded
  <2>6. QED
    BY <1>5, <2>3, <2>4, <2>5
<1>9. CASE FetchDone
  <2>1. pages' = Coming /\ loaded' = TRUE /\ fetch' = Idle /\ fetch.kind # "idle" /\ Complete
    BY Zenon, <1>9 DEF FetchDone
  <2>2. Data'
    BY <1>1, <1>2, <1>3, <1>4, <2>1 DEF Data
  <2>3. Loaded'
    BY Zenon, <1>3, <2>1 DEF Loaded
  <2>4. Fetching'
    BY <1>4, <2>1 DEF Fetching
  <2>5. QED
    BY <1>5, <2>2, <2>3, <2>4
<1>10. CASE FetchFails
  <2>1. pages' = pages /\ loaded' = loaded /\ fetch' = Idle
    BY Zenon, <1>10 DEF FetchFails, PagesBefore
  <2>2. Data'
    BY <1>1, <1>2, <1>4, <2>1 DEF Data
  <2>3. Loaded'
    BY Zenon, <1>1, <2>1 DEF Loaded
  <2>4. Fetching'
    BY <1>4, <2>1 DEF Fetching
  <2>5. QED
    BY <1>5, <2>2, <2>3, <2>4
<1>11. QED
  BY <1>6, <1>7, <1>8, <1>9, <1>10

LEMMA AppendBehind ==
    ASSUME NEW S, NEW s \in Seq(S), NEW t \in Seq(S), NEW e \in S
    PROVE  s \o Append(t, e) = Append(s \o t, e)
<1>1. <<e>> \in Seq(S) /\ s \o t \in Seq(S)
  OBVIOUS
<1>2. Append(t, e) = t \o <<e>> /\ Append(s \o t, e) = (s \o t) \o <<e>>
  BY <1>1, AppendIsConcat
<1>3. (s \o t) \o <<e>> = s \o (t \o <<e>>)
  BY <1>1, ConcatAssociative
<1>4. QED
  BY <1>2, <1>3

(* The pages that a fetch has after each of its steps.                     *)
LEMMA ComingChanges ==
    ASSUME TypeOK, Fetching
    PROVE  /\ Refetch \/ FetchDone \/ FetchFails => Coming' = <<>>
           /\ LoadOlder => Coming' = pages
           /\ FetchPage => Coming' = Append(Coming, List(After(Coming)))
<1>1. /\ pages \in Seq(Page) /\ fetch \in Fetch
      /\ fetch.old \in Seq(Page) /\ fetch.got \in Seq(Page)
  BY DEF TypeOK, Fetch
<1>2. Refetch => Coming' = <<>>
  BY DEF Refetch, Coming
<1>3. FetchDone \/ FetchFails => Coming' = <<>>
  <2>1. Idle.kind # "older" /\ Idle.got = <<>>
    BY DEF Idle
  <2>2. FetchDone \/ FetchFails => fetch' = Idle
    BY Zenon DEF FetchDone, FetchFails
  <2>3. QED
    BY Zenon, <2>1, <2>2 DEF Coming
<1>4. LoadOlder => Coming' = pages
  BY <1>1 DEF LoadOlder, Coming
<1>5. ASSUME FetchPage PROVE Coming' = Append(Coming, List(After(Coming)))
  <2> DEFINE page == List(After(Coming))
             more == Append(fetch.got, page)
  <2>1. page \in Page
    <3>1. Coming \in Seq(Page)
      BY <1>1, ComingTyped
    <3>2. Coming # <<>> => Coming[Len(Coming)] \in Page
      BY <3>1
    <3>3. After(Coming) \in 0..MaxId
      BY <3>2, MaxIdAssumption DEF After, Page
    <3>4. QED
      BY <3>3, ListReturns DEF TypeOK
  <2>2. NextParam = After(Coming)
    BY <1>1, ComingTyped
  <2> HIDE DEF page
  <2>3. fetch' = [fetch EXCEPT !.got = more]
    BY <1>5, <2>2 DEF FetchPage, page
  <2>4. fetch'.kind = fetch.kind /\ fetch'.old = fetch.old /\ fetch'.got = more
    <3> HIDE DEF more
    <3>1. QED
      BY <1>1, <2>3 DEF Fetch
  <2>5. CASE fetch.kind = "older"
    <3>1. Coming' = fetch.old \o more /\ Coming = fetch.old \o fetch.got
      BY <2>4, <2>5 DEF Coming
    <3>2. fetch.old \o Append(fetch.got, page) = Append(fetch.old \o fetch.got, page)
      <4>1. \A s, t \in Seq(Page) : \A e \in Page : s \o Append(t, e) = Append(s \o t, e)
        BY AppendBehind
      <4>2. QED
        BY Zenon, <1>1, <2>1, <4>1
    <3>3. QED
      BY <3>1, <3>2 DEF page
  <2>6. CASE fetch.kind # "older"
    BY <2>4, <2>6 DEF Coming, page
  <2>7. QED
    BY <2>5, <2>6
<1>6. QED
  BY <1>2, <1>3, <1>4, <1>5
-----------------------------------------------------------------------------
(* Rows in order: those shown, and those that a fetch is to replace them   *)
(* with, which "Load older" starts from the rows shown.                    *)
InOrder ==
    /\ ~misplaced => Ordered(pages)
    /\ ~misplaced \/ fetch.kind # "older" => Ordered(Coming)

(* Nothing in them that is not of the filter.                              *)
Drawn ==
    /\ RowsOf(pages) \subseteq table \cap matching
    /\ RowsOf(Coming) \subseteq table \cap matching

(* Nothing left out, unless missed or about to be overwritten.             *)
NothingLeftOut ==
    /\ loaded /\ ~stale => Covers(pages)
    /\ ~fetch.raced /\ Coming # <<>> /\ (fetch.kind = "older" => ~stale) => Covers(Coming)

Sound == TypeOK /\ Fetching /\ InOrder /\ Drawn /\ NothingLeftOut

LEMMA NothingYet == Ordered(<<>>) /\ RowsOf(<<>>) = {}
  BY DEF Ordered, RowsOf

(* A ping recorded is pending.                                             *)
LEMMA RecordSound ==
    ASSUME Sound, NEW i \in Id, Record(i)
    PROVE  Sound'
<1>1. /\ table' = table \cup {i} /\ pending' = pending \cup {i}
      /\ UNCHANGED <<matching, lastEventId, loaded, pages, fetch, stale, misplaced>>
  BY Zenon DEF Record
<1>2. TypeOK /\ Fetching /\ InOrder /\ Drawn /\ NothingLeftOut
  BY Zenon DEF Sound
<1>3. Coming' = Coming
  BY <1>1 DEF Coming
<1>4. TypeOK'
  <2>1. Data'
    BY <1>1, <1>2 DEF TypeOK, Data
  <2>2. Loaded' /\ Flags'
    BY Zenon, <1>1, <1>2 DEF TypeOK, Loaded, Flags
  <2>3. QED
    BY Zenon, <2>1, <2>2 DEF TypeOK, Data, Loaded, Flags
<1>5. Fetching' /\ InOrder'
  BY Zenon, <1>1, <1>2, <1>3 DEF Fetching, InOrder
<1>6. Drawn'
  BY <1>1, <1>2, <1>3 DEF Drawn
<1>7. ASSUME NEW ps, Covers(ps)
      PROVE  DownTo(ps[Len(ps)].next)' \subseteq RowsOf(ps) \cup pending'
  BY <1>1, <1>7 DEF Covers, DownTo
<1>8. NothingLeftOut'
  <2>1. Covers(pages) => Covers(pages)'
    BY <1>1, <1>7 DEF Covers
  <2>2. Covers(Coming) => Covers(Coming)'
    BY <1>1, <1>3, <1>7 DEF Covers
  <2>3. QED
    BY Zenon, <1>1, <1>2, <1>3, <2>1, <2>2 DEF NothingLeftOut
<1>9. QED
  BY Zenon, <1>4, <1>5, <1>6, <1>8 DEF Sound

(* A ping arrives: it is no longer pending, but in the list if the filter  *)
(* lets it through, and a fetch under way is raced.                        *)
LEMMA ArrivalSound ==
    ASSUME Sound, NEW i \in Id, Deliver(i) \/ Redeliver(i)
    PROVE  Sound'
<1>1. TypeOK /\ Fetching /\ InOrder /\ Drawn /\ NothingLeftOut
  BY Zenon DEF Sound
<1>2. /\ Apply(i) /\ i \in table /\ UNCHANGED <<table, matching, loaded, stale>>
      /\ pending' \subseteq pending /\ pending \subseteq pending' \cup {i}
      /\ Data' /\ Loaded' /\ Flags' /\ Fetching'
  BY <1>1, ArrivalTyped
<1>3. TypeOK'
  BY Zenon, <1>2 DEF TypeOK, Data, Loaded, Flags
<1>4. /\ Len(pages') = Len(pages) /\ DOMAIN pages' = DOMAIN pages
      /\ \A k \in DOMAIN pages : pages'[k].next = pages[k].next
      /\ Shown \subseteq RowsOf(pages') /\ RowsOf(pages') \subseteq Shown \cup ({i} \cap matching)
      /\ loaded /\ i \in matching => i \in RowsOf(pages')
      /\ ~misplaced' /\ Ordered(pages) => Ordered(pages')
      /\ misplaced => misplaced'
  BY <1>1, <1>2, Applied
<1>5. /\ fetch'.kind = fetch.kind /\ Coming' = Coming
      /\ fetch.kind # "idle" => fetch'.raced
  <2>1. fetch \in Fetch /\ Missed
    BY Zenon, <1>1, <1>2 DEF TypeOK, Apply
  <2>2. QED
    BY <2>1, MissedKeeps
<1>6. Shown = RowsOf(pages)
  BY Zenon DEF Shown, RowsOf
<1>7. InOrder'
  BY Zenon, <1>1, <1>4, <1>5 DEF InOrder
<1>8. Drawn'
  BY <1>1, <1>2, <1>4, <1>5, <1>6 DEF Drawn
<1>9. NothingLeftOut'
  <2>1. ASSUME loaded, Covers(pages) PROVE Covers(pages)'
    <3>1. pages'[Len(pages')].next = pages[Len(pages)].next
      <4>1. pages \in Seq(Page) /\ pages # <<>>
        BY Zenon, <1>1, <2>1 DEF TypeOK
      <4>2. Len(pages) \in DOMAIN pages
        BY <4>1
      <4>3. QED
        BY <1>4, <4>2
    <3>2. DownTo(pages[Len(pages)].next)' = DownTo(pages'[Len(pages')].next)
      BY Zenon, <1>2 DEF DownTo
    <3>3. DownTo(pages'[Len(pages')].next) \subseteq matching
      BY DEF DownTo
    <3>4. DownTo(pages'[Len(pages')].next) \subseteq RowsOf(pages') \cup pending'
      BY <1>2, <1>4, <1>6, <2>1, <3>1, <3>3 DEF Covers
    <3>5. QED
      BY Zenon, <3>2, <3>4 DEF Covers
  <2>2. fetch.kind = "idle" => Coming' = <<>>
    BY <1>1, <1>5, ComingTyped DEF TypeOK
  <2>3. QED
    BY Zenon, <1>1, <1>2, <1>5, <2>1, <2>2 DEF NothingLeftOut
<1>10. QED
  BY Zenon, <1>2, <1>3, <1>7, <1>8, <1>9 DEF Sound

(* An event lost leaves the list stale, and a fetch under way raced.       *)
LEMMA LoseSound ==
    ASSUME Sound, NEW i \in Id, Lose(i)
    PROVE  Sound'
<1>1. TypeOK /\ Fetching /\ InOrder /\ Drawn /\ NothingLeftOut
  BY Zenon DEF Sound
<1>2. /\ Missed /\ pending' = pending \ {i} /\ stale' = TRUE
      /\ UNCHANGED <<table, matching, lastEventId, loaded, pages, misplaced>>
  BY Zenon DEF Lose
<1>3. /\ fetch' \in Fetch
      /\ fetch'.kind = fetch.kind /\ fetch'.old = fetch.old
      /\ fetch'.want = fetch.want /\ fetch'.got = fetch.got
      /\ fetch.kind # "idle" => fetch'.raced
      /\ Coming' = Coming
  BY <1>1, <1>2, MissedKeeps DEF TypeOK
<1>4. TypeOK'
  <2>1. pending' \subseteq table'
    BY <1>1, <1>2 DEF TypeOK
  <2>2. QED
    BY Zenon, <1>1, <1>2, <1>3, <2>1 DEF TypeOK
<1>5. Fetching' /\ InOrder' /\ Drawn'
  BY Zenon, <1>1, <1>2, <1>3 DEF Fetching, InOrder, Drawn
<1>6. NothingLeftOut'
  <2>1. fetch.kind = "idle" => Coming' = <<>>
    BY <1>1, <1>3, ComingTyped DEF TypeOK
  <2>2. QED
    BY Zenon, <1>2, <1>3, <2>1 DEF NothingLeftOut
<1>7. QED
  BY Zenon, <1>4, <1>5, <1>6 DEF Sound

(* A fetch begins, goes on, ends or fails: its pages take the place of the *)
(* list only when it has them all.                                         *)
LEMMA FetchSound ==
    ASSUME Sound, Refetch \/ LoadOlder \/ FetchPage \/ FetchDone \/ FetchFails
    PROVE  Sound'
<1>1. TypeOK /\ Fetching /\ InOrder /\ Drawn /\ NothingLeftOut
  BY Zenon DEF Sound
<1>2. TypeOK' /\ Fetching'
  <2>1. Data' /\ Loaded' /\ Flags' /\ Fetching'
    BY <1>1, FetchTyped
  <2>2. QED
    BY Zenon, <2>1 DEF TypeOK, Data, Loaded, Flags
<1>3. table' = table /\ matching' = matching /\ pending' = pending
  BY Zenon DEF Refetch, LoadOlder, FetchPage, FetchDone, FetchFails
<1>4. \A ps : Covers(ps) => DownTo(ps[Len(ps)].next)' \subseteq RowsOf(ps) \cup pending'
  BY <1>3 DEF Covers, DownTo
<1>5. /\ Refetch \/ FetchDone \/ FetchFails => Coming' = <<>>
      /\ LoadOlder => Coming' = pages
      /\ FetchPage => Coming' = Append(Coming, List(After(Coming)))
  BY <1>1, ComingChanges
<1>6. CASE Refetch \/ FetchFails
  <2>1. Coming' = <<>>
    BY <1>5, <1>6
  <2>2. pages' = pages /\ loaded' = loaded /\ stale' = stale /\ misplaced' = misplaced
    BY Zenon, <1>6 DEF Refetch, FetchFails, PagesBefore
  <2>3. InOrder'
    BY Zenon, <1>1, <2>1, <2>2, NothingYet DEF InOrder
  <2>4. Drawn'
    BY <1>1, <1>3, <2>1, <2>2, NothingYet DEF Drawn
  <2>5. Covers(pages) => Covers(pages)'
    BY Zenon, <1>4, <2>2 DEF Covers
  <2>6. NothingLeftOut'
    BY Zenon, <1>1, <2>1, <2>2, <2>5 DEF NothingLeftOut
  <2>7. QED
    BY Zenon, <1>2, <2>3, <2>4, <2>6 DEF Sound
<1>7. CASE LoadOlder
  <2>1. Coming' = pages
    BY <1>5, <1>7
  <2>2. /\ pages' = pages /\ loaded' = loaded /\ stale' = stale /\ misplaced' = misplaced
        /\ loaded
        /\ fetch' = [kind |-> "older", old |-> pages, got |-> <<>>, raced |-> FALSE, want |-> 1]
    BY Zenon, <1>7 DEF LoadOlder
  <2>3. fetch'.kind = "older"
    BY <2>2
  <2>4. InOrder'
    BY Zenon, <1>1, <2>1, <2>2, <2>3 DEF InOrder
  <2>5. Drawn'
    BY <1>1, <1>3, <2>1, <2>2 DEF Drawn
  <2>6. Covers(pages) => Covers(pages)' /\ Covers(Coming)'
    BY Zenon, <1>4, <2>1, <2>2 DEF Covers
  <2>7. NothingLeftOut'
    BY Zenon, <1>1, <2>2, <2>3, <2>6 DEF NothingLeftOut
  <2>8. QED
    BY Zenon, <1>2, <2>4, <2>5, <2>7 DEF Sound
<1>8. CASE FetchPage
  <2>1. Coming' = Append(Coming, List(After(Coming)))
    BY <1>5, <1>8
  <2>2. /\ pages' = pages /\ loaded' = loaded /\ stale' = stale /\ misplaced' = misplaced
        /\ fetch.kind # "idle" /\ ~Complete
        /\ fetch' = [fetch EXCEPT !.got = Append(@, List(NextParam))]
    BY Zenon, <1>8 DEF FetchPage
  <2>3. fetch'.kind = fetch.kind /\ fetch'.raced = fetch.raced
    <3> DEFINE more == Append(fetch.got, List(NextParam))
    <3>1. fetch' = [fetch EXCEPT !.got = more]
      BY <2>2
    <3> HIDE DEF more
    <3>2. QED
      BY <1>1, <3>1 DEF TypeOK, Fetch
  <2>4. Coming \in Seq(Page) /\ (Coming # <<>> => After(Coming) # 0)
    BY <1>1, <2>2, ComingTyped DEF TypeOK
  <2>5. /\ RowsOf(Coming') \subseteq RowsOf(Coming) \cup (table \cap matching)
        /\ Ordered(Coming) => Ordered(Coming')
        /\ (Coming # <<>> => Covers(Coming)) => Covers(Append(Coming, List(After(Coming))))
    BY <1>1, <2>1, <2>4, PageAdded DEF TypeOK
  <2>6. InOrder'
    BY Zenon, <1>1, <2>2, <2>3, <2>5 DEF InOrder
  <2>7. Drawn'
    BY <1>1, <1>3, <2>2, <2>5 DEF Drawn
  <2>8. Covers(pages) => Covers(pages)'
    BY Zenon, <1>4, <2>2 DEF Covers
  <2>9. (Coming # <<>> => Covers(Coming)) => Covers(Coming)'
    BY Zenon, <1>4, <2>1, <2>5 DEF Covers
  <2>10. NothingLeftOut'
    BY Zenon, <1>1, <2>2, <2>3, <2>8, <2>9 DEF NothingLeftOut
  <2>11. QED
    BY Zenon, <1>2, <2>6, <2>7, <2>10 DEF Sound
<1>9. CASE FetchDone
  <2>1. Coming' = <<>>
    BY <1>5, <1>9
  <2>2. /\ pages' = Coming /\ fetch.kind # "idle" /\ Complete
        /\ stale' = (fetch.raced \/ (fetch.kind = "older" /\ stale))
        /\ misplaced' = (fetch.kind = "older" /\ misplaced)
    BY Zenon, <1>9 DEF FetchDone
  <2>3. Coming # <<>>
    BY <1>1, <2>2, ComingTyped DEF TypeOK
  <2>4. InOrder'
    BY Zenon, <1>1, <2>1, <2>2, NothingYet DEF InOrder
  <2>5. Drawn'
    BY <1>1, <1>3, <2>1, <2>2, NothingYet DEF Drawn
  <2>6. Covers(Coming) => Covers(pages)'
    BY Zenon, <1>4, <2>2 DEF Covers
  <2>7. NothingLeftOut'
    BY Zenon, <1>1, <2>1, <2>2, <2>3, <2>6 DEF NothingLeftOut
  <2>8. QED
    BY Zenon, <1>2, <2>4, <2>5, <2>7 DEF Sound
<1>10. QED
  BY <1>6, <1>7, <1>8, <1>9

LEMMA SoundInvariant == Spec => []Sound
<1>1. Init => Sound
  <2> SUFFICES ASSUME Init PROVE Sound
    OBVIOUS
  <2>1. /\ matching \in SUBSET Id /\ pending = {} /\ lastEventId = 0
        /\ loaded = FALSE /\ pages = <<>> /\ stale = FALSE /\ misplaced = FALSE
        /\ fetch = [Idle EXCEPT !.kind = "all", !.want = 1]
    BY Zenon DEF Init
  <2>2. table \in SUBSET Id
    <3>1. PICK n \in 0..MaxId : table = 1..n
      BY DEF Init
    <3>2. QED
      BY <3>1, MaxIdAssumption DEF Id
  <2>3. /\ fetch \in Fetch /\ fetch.kind = "all" /\ fetch.want = 1 /\ fetch.got = <<>>
    <3>1. fetch = [kind |-> "all", old |-> <<>>, want |-> 1, got |-> <<>>, raced |-> FALSE]
      BY <2>1 DEF Idle
    <3>2. <<>> \in Seq(Page)
      OBVIOUS
    <3>3. QED
      BY <3>1, <3>2 DEF Fetch
  <2>4. Data
    BY <2>1, <2>2, <2>3, MaxIdAssumption DEF Data
  <2>5. Loaded /\ Flags
    BY Zenon, <2>1 DEF Loaded, Flags
  <2>6. Fetching
    BY <2>3 DEF Fetching
  <2>7. Coming = <<>>
    BY <2>3 DEF Coming
  <2>8. InOrder /\ NothingLeftOut
    BY Zenon, <2>1, <2>7, NothingYet DEF InOrder, NothingLeftOut
  <2>9. Drawn
    BY <2>1, <2>7, NothingYet DEF Drawn
  <2>10. QED
    BY Zenon, <2>4, <2>5, <2>6, <2>8, <2>9, TypeParts DEF Sound
<1>2. Sound /\ [Next]_vars => Sound'
  <2> SUFFICES ASSUME Sound, [Next]_vars PROVE Sound'
    OBVIOUS
  <2>1. ASSUME NEW i \in Id, Record(i) PROVE Sound'
    BY <2>1, RecordSound
  <2>2. ASSUME NEW i \in Id, Deliver(i) \/ Redeliver(i) PROVE Sound'
    BY <2>2, ArrivalSound
  <2>3. ASSUME NEW i \in Id, Lose(i) PROVE Sound'
    BY <2>3, LoseSound
  <2>4. ASSUME Refetch \/ LoadOlder \/ FetchPage \/ FetchDone \/ FetchFails PROVE Sound'
    BY <2>4, FetchSound
  <2>5. CASE UNCHANGED vars
    BY Zenon, <2>5 DEF vars, Sound, TypeOK, Fetching, InOrder, Drawn, NothingLeftOut,
                       Covers, DownTo, Coming
  <2>6. QED
    BY Zenon, <2>1, <2>2, <2>3, <2>4, <2>5 DEF Next
<1>3. QED
  BY <1>1, <1>2, PTL DEF Spec

(* Type correctness of the list: it has data exactly when it is loaded.    *)
THEOREM TypeCorrect == Spec => []TypeOK
<1>1. Sound => TypeOK
  BY Zenon DEF Sound
<1>2. QED
  BY <1>1, SoundInvariant, PTL

(* Whatever refetches, "Load older", live pings and replays do to each     *)
(* other, the rows are newest first over all pages, none of them twice,    *)
(* while no ping was misplaced (cache.ts:17, PingTable.tsx:79).            *)
THEOREM NewestFirstInvariant == Spec => []NewestFirst
<1>1. TypeOK /\ InOrder => NewestFirst
  <2> SUFFICES ASSUME TypeOK, InOrder, ~misplaced PROVE NewestFirst
    BY Zenon DEF NewestFirst
  <2>1. pages \in Seq(Page) /\ \A k \in DOMAIN pages : pages[k] \in Page
    BY DEF TypeOK
  <2>2. Ordered(pages)
    BY Zenon DEF InOrder
  <2>3. ASSUME NEW k \in DOMAIN pages, NEW n \in 1..(Len(pages[k].data) - 1)
        PROVE  pages[k].data[n] > pages[k].data[n + 1]
    <3>1. pages[k].data \in Seq(Id)
      BY <2>1 DEF Page
    <3>2. n \in DOMAIN pages[k].data /\ n + 1 \in DOMAIN pages[k].data /\ n < n + 1
      BY <3>1
    <3>3. Descends(pages[k].data)
      BY Zenon, <2>2 DEF Ordered
    <3>4. QED
      BY Zenon, <3>2, <3>3 DEF Descends
  <2>4. ASSUME NEW k \in DOMAIN pages, NEW l \in DOMAIN pages, k < l,
               NEW i \in Ids(pages[k]), NEW j \in Ids(pages[l])
        PROVE  i > j
    <3>1. pages[k].next <= i /\ j < pages[k].next
      BY <2>2, <2>4 DEF Ordered
    <3>2. i \in Id /\ j \in Id /\ pages[k].next \in 0..MaxId
      BY <2>1 DEF Ids, Page
    <3>3. i \in Int /\ j \in Int /\ pages[k].next \in Int
      BY <3>2 DEF Id
    <3>4. QED
      BY <3>1, <3>3
  <2>5. QED
    BY Zenon, <2>3, <2>4 DEF NewestFirst
<1>2. QED
  BY <1>1, SoundInvariant, PTL DEF Sound

(* At every moment the list has every row of the filter down to its last   *)
(* cursor that was announced and arrived, unless an event was missed; and  *)
(* nothing else, unless a ping was misplaced.                              *)
THEOREM ListIsWholeInvariant == Spec => []ListIsWhole
<1>1. Sound => ListIsWhole
  <2> SUFFICES ASSUME Sound, loaded
               PROVE  /\ ~stale => Window \subseteq Shown \cup pending
                      /\ ~misplaced => Shown \subseteq Window
    BY Zenon DEF ListIsWhole
  <2>1. TypeOK /\ InOrder /\ Drawn /\ NothingLeftOut
    BY Zenon DEF Sound
  <2>2. Shown = RowsOf(pages) /\ Window = DownTo(pages[Len(pages)].next)
    BY Zenon DEF Shown, RowsOf, Window, DownTo
  <2>3. ~stale => Window \subseteq Shown \cup pending
    BY Zenon, <2>1, <2>2 DEF NothingLeftOut, Covers
  <2>4. ASSUME ~misplaced, NEW i \in Shown PROVE i \in Window
    <3>1. pages \in Seq(Page) /\ pages # <<>>
      BY Zenon, <2>1 DEF TypeOK
    <3>2. /\ Len(pages) \in DOMAIN pages /\ pages[Len(pages)] \in Page
          /\ \A k \in DOMAIN pages : pages[k] \in Page /\ (k = Len(pages) \/ k < Len(pages))
      BY <3>1
    <3>3. PICK k \in DOMAIN pages : i \in Ids(pages[k])
      BY Zenon DEF Shown
    <3>4. Ordered(pages)
      BY Zenon, <2>1, <2>4 DEF InOrder
    <3>5. i \in table \cap matching /\ i \in Int
      <4>1. i \in table \cap matching
        BY <2>1, <2>2, <2>4 DEF Drawn
      <4>2. QED
        BY <2>1, <4>1 DEF TypeOK, Id
    <3>6. pages[k].next <= i
      BY Zenon, <3>3, <3>4 DEF Ordered
    <3>7. pages[Len(pages)].next \in Int /\ pages[k].next \in Int
      BY <3>2 DEF Page
    <3>8. pages[Len(pages)].next = pages[k].next \/ pages[Len(pages)].next < pages[k].next
      BY <3>2, <3>4 DEF Ordered
    <3>9. i >= pages[Len(pages)].next
      BY <3>5, <3>6, <3>7, <3>8
    <3>10. QED
      BY <3>5, <3>9 DEF Window
  <2>5. QED
    BY <2>3, <2>4
<1>2. QED
  BY <1>1, SoundInvariant, PTL
=============================================================================
