-------------------------- MODULE LiveStreamProofs --------------------------
(***************************************************************************)
(* Safety of LiveStream for every number of pings, requests and faults and *)
(* every replay limit.                                                     *)
(***************************************************************************)
EXTENDS LiveStream, FiniteSetTheorems, TLAPS

LEMMA IdsFinite == IsFiniteSet(Id) /\ \A ids \in SUBSET Id : IsFiniteSet(ids)
<1>1. IsFiniteSet(Id)
  BY MaxIdAssumption, FS_Interval DEF Id
<1>2. QED
  BY <1>1, FS_Subset

(* The rank of an id tells where it stands: ranks go up with the ids, and  *)
(* every place has its id.                                                 *)
LEMMA RankOrder ==
    ASSUME NEW ids \in SUBSET Id
    PROVE  /\ Cardinality(ids) \in Nat
           /\ \A i \in ids : Rank(ids, i) \in 1..Cardinality(ids)
           /\ \A i, j \in ids : Rank(ids, i) = Rank(ids, j) => i = j
<1> DEFINE Below(i) == {j \in ids : j <= i}
<1>1. IsFiniteSet(ids) /\ Cardinality(ids) \in Nat
  BY IdsFinite, FS_CardinalityType
<1>2. ASSUME NEW i \in ids
      PROVE  /\ IsFiniteSet(Below(i)) /\ Cardinality(Below(i)) \in Nat
             /\ Cardinality(Below(i)) <= Cardinality(ids) /\ Cardinality(Below(i)) # 0
  <2>1. IsFiniteSet(Below(i)) /\ Cardinality(Below(i)) <= Cardinality(ids)
    BY <1>1, FS_Subset
  <2>2. i \in Below(i)
    BY DEF Id
  <2>3. QED
    BY <2>1, <2>2, FS_EmptySet, FS_CardinalityType
<1>3. ASSUME NEW i \in ids, NEW j \in ids, i < j
      PROVE  Cardinality(Below(i)) # Cardinality(Below(j))
  <2>1. ids \subseteq Int
    BY DEF Id
  <2>2. Below(i) \subseteq Below(j)
    <3>1. \A k \in ids : k <= i => k <= j
      BY <1>3, <2>1
    <3>2. QED
      BY <3>1
  <2>3. j \in Below(j) /\ j \notin Below(i)
    BY <1>3, <2>1
  <2>4. IsFiniteSet(Below(j))
    BY <1>2
  <2> HIDE DEF Below
  <2>5. QED
    BY <2>2, <2>3, <2>4, FS_Subset
<1>4. \A i \in ids : Rank(ids, i) = Cardinality(Below(i))
  BY DEF Rank
<1>5. ids \subseteq Int
  BY DEF Id
<1> HIDE DEF Below
<1>6. \A i \in ids : Rank(ids, i) \in 1..Cardinality(ids)
  BY <1>1, <1>2, <1>4
<1>7. \A i, j \in ids : Rank(ids, i) = Rank(ids, j) => i = j
  BY <1>3, <1>4, <1>5
<1>8. QED
  BY <1>1, <1>6, <1>7

LEMMA RankOnto ==
    ASSUME NEW ids \in SUBSET Id, NEW k \in 1..Cardinality(ids)
    PROVE  \E i \in ids : Rank(ids, i) = k
<1> DEFINE places == 1..Cardinality(ids)
           rank == [i \in ids |-> Rank(ids, i)]
<1>1. rank \in Injection(ids, places)
  <2>1. rank \in [ids -> places]
    BY RankOrder
  <2>2. \A i, j \in ids : rank[i] = rank[j] => i = j
    BY RankOrder
  <2> HIDE DEF rank, places
  <2>3. QED
    BY <2>1, <2>2 DEF Injection, IsInjective
<1>2. IsFiniteSet(places) /\ Cardinality(places) = Cardinality(ids)
  <2>1. Cardinality(ids) \in Nat
    BY RankOrder
  <2>2. \A n \in Nat : IsFiniteSet(1..n) /\ Cardinality(1..n) = n
    BY FS_Interval
  <2>3. QED
    BY <2>1, <2>2
<1> HIDE DEF rank, places
<1>3. rank \in Surjection(ids, places)
  BY <1>1, <1>2, FS_Injection
<1> USE DEF rank, places
<1>4. \A n \in places : \E i \in ids : rank[i] = n
  BY <1>3 DEF Surjection
<1>5. QED
  BY <1>4

(* The query returns rows of the table above the id, and all of them when  *)
(* they fit.                                                               *)
LEMMA ListAfterReturns ==
    ASSUME NEW afterId
    PROVE  /\ ListAfter(afterId, ReplayLimit) \in Seq(Id)
           /\ Cardinality(Behind(afterId)) <= ReplayLimit =>
                \A i \in Behind(afterId) :
                    \E k \in DOMAIN ListAfter(afterId, ReplayLimit) :
                        ListAfter(afterId, ReplayLimit)[k] = i
<1> DEFINE ids == Behind(afterId)
           size == IF Cardinality(ids) > ReplayLimit THEN ReplayLimit ELSE Cardinality(ids)
           At(k) == CHOOSE i \in ids : Rank(ids, i) = k
<1>1. ids \in SUBSET Id
  BY DEF Behind, InTable
<1>2. Cardinality(ids) \in Nat /\ size \in Nat /\ size <= Cardinality(ids)
  BY <1>1, RankOrder, ReplayLimitAssumption
<1>3. ListAfter(afterId, ReplayLimit) = [k \in 1..size |-> At(k)]
  BY DEF ListAfter
<1> HIDE DEF ids, size
<1>4. \A k \in 1..size : At(k) \in ids
  BY <1>1, <1>2, RankOnto
<1>5. \A i \in ids : At(Rank(ids, i)) = i
  BY <1>1, RankOrder
<1> HIDE DEF At
<1>6. [k \in 1..size |-> At(k)] \in Seq(Id)
  BY <1>1, <1>2, <1>4
<1>7. Cardinality(ids) <= ReplayLimit => size = Cardinality(ids)
  BY <1>2, ReplayLimitAssumption DEF size
<1>8. ASSUME Cardinality(ids) <= ReplayLimit, NEW i \in ids
      PROVE  \E k \in 1..size : At(k) = i
  BY <1>1, <1>5, <1>7, <1>8, RankOrder
<1>9. QED
  BY <1>3, <1>6, <1>8 DEF ids
-----------------------------------------------------------------------------
(* Types.  The Booleans are kept apart from the rest.                      *)

Server ==
    /\ ping \in [Id -> {"none", "drawn", "committed", "published"}]
    /\ hub \in SUBSET Conn
    /\ replay \in [Conn -> {"none", "asked", "read", "done", "failed"}]
    /\ missed \in [Conn -> Seq(Id)] /\ wire \in [Conn -> Seq(Id)]
    /\ header \in [Conn -> 0..MaxId] /\ lastEventId \in 0..MaxId
    /\ conn \in Conn
    /\ es \in {"connecting", "open", "waiting", "failed", "closed"}

Page ==
    /\ status \in Status
    /\ fetch \in {"asked", "answered", "idle", "abandoned"} /\ fetchFor \in 0..MaxConn
    /\ delivered \subseteq Id /\ snapshot \subseteq Id /\ fetched \subseteq Id
    /\ before \subseteq Id /\ owed \subseteq Id
    /\ faults \in 0..MaxFaults

Flags == hasOpened \in BOOLEAN /\ reconnectTimer \in BOOLEAN /\ loaded \in BOOLEAN

LEMMA TypeParts == TypeOK <=> Server /\ Page /\ Flags
  BY Zenon DEF TypeOK, Server, Page, Flags

(* The fetch is asked for again, given up or cancelled; nothing else.      *)
Diverted ==
    /\ fetch' \in {"asked", "abandoned"}
    /\ FetchGoesTo(fetch')
    /\ Fault \/ UNCHANGED faults

(* What one step can do, by its action.                                    *)
LEMMA Steps ==
    ASSUME [Next]_vars
    PROVE  \/ \E i \in Id : Draw(i) \/ Commit(i) \/ Publish(i)
           \/ \E c \in Conn : Serve(c) \/ ReplayRead(c) \/ ReplayWrite(c)
                               \/ ReplayFails(c) \/ Remove(c)
           \/ Open \/ Deliver \/ Retry \/ Reconnect \/ Break \/ Restart
           \/ Fatal \/ Unmount \/ FetchRead \/ FetchApply \/ Diverted \/ UNCHANGED vars
<1>1. AttemptFails \/ LoadOlder \/ FetchAgain => Diverted
  BY DEF AttemptFails, LoadOlder, FetchAgain, FetchGoesTo, Diverted
<1>2. QED
  BY <1>1, Zenon DEF Next, RouteStep, SourceStep

LEMMA ServerTyped ==
    ASSUME Server, [Next]_vars
    PROVE  Server'
<1> USE DEF Server
<1>1. ASSUME NEW i \in Id, Draw(i) \/ Commit(i)
      PROVE  Server'
  BY <1>1 DEF Draw, Commit, clientVars, sourceVars
<1>2. ASSUME NEW i \in Id, Publish(i)
      PROVE  Server'
  <2>1. wire' \in [Conn -> Seq(Id)]
    BY <1>2 DEF Publish
  <2>2. QED
    BY <1>2, <2>1 DEF Publish, clientVars, sourceVars
<1>3. ASSUME NEW c \in Conn, Serve(c)
      PROVE  Server'
  BY <1>3 DEF Serve, Registered, clientVars, sourceVars
<1>4. ASSUME NEW c \in Conn, ReplayRead(c)
      PROVE  Server'
  <2>1. missed' \in [Conn -> Seq(Id)]
    BY <1>4, ListAfterReturns DEF ReplayRead
  <2>2. QED
    BY <1>4, <2>1 DEF ReplayRead, clientVars, sourceVars
<1>5. ASSUME NEW c \in Conn, ReplayWrite(c)
      PROVE  Server'
  <2>1. wire[c] \o missed[c] \in Seq(Id) /\ <<>> \in Seq(Id)
    OBVIOUS
  <2>2. wire' \in [Conn -> Seq(Id)]
    BY <1>5, <2>1 DEF ReplayWrite
  <2>3. missed' \in [Conn -> Seq(Id)]
    BY <1>5, <2>1 DEF ReplayWrite
  <2>4. QED
    BY <1>5, <2>2, <2>3 DEF ReplayWrite, clientVars, sourceVars
<1>6. ASSUME NEW c \in Conn, ReplayFails(c) \/ Remove(c)
      PROVE  Server'
  BY <1>6 DEF ReplayFails, Remove, clientVars, sourceVars
<1>7. CASE Deliver
  <2>1. Head(wire[conn]) \in Id /\ Tail(wire[conn]) \in Seq(Id)
    BY <1>7 DEF Deliver
  <2>2. Id \subseteq 0..MaxId
    BY DEF Id
  <2>3. QED
    BY <1>7, <2>1, <2>2 DEF Deliver, serverVars
<1>8. CASE Break \/ Restart
  <2>1. wire' \in [Conn -> Seq(Id)]
    <3>1. wire' = [wire EXCEPT ![conn] = <<>>]
      BY <1>8, Zenon DEF Break, Restart, Drop
    <3>2. <<>> \in Seq(Id)
      OBVIOUS
    <3>3. QED
      BY <3>1, <3>2
  <2>2. replay' \in [Conn -> {"none", "asked", "read", "done", "failed"}]
    BY <1>8 DEF Break, Restart
  <2>3. QED
    BY <1>8, <2>1, <2>2 DEF Break, Restart, Drop
<1>9. CASE Retry \/ Reconnect
  <2>1. PICK lastId \in 0..MaxId : Request(lastId) /\ UNCHANGED <<serverVars, wire>>
    BY <1>9, MaxIdAssumption DEF Retry, Reconnect, SentEventId
  <2>2. conn + 1 \in Conn
    BY <2>1, BoundsAssumption DEF Request, Conn
  <2>3. QED
    BY <2>1, <2>2 DEF Request, serverVars
<1>10. CASE Open \/ Fatal \/ Unmount \/ FetchRead \/ FetchApply \/ Diverted \/ UNCHANGED vars
  BY <1>10 DEF Open, Fatal, Unmount, FetchRead, FetchApply, Diverted, FetchGoesTo, vars, serverVars, sourceVars
<1>11. QED
  BY <1>1, <1>2, <1>3, <1>4, <1>5, <1>6, <1>7, <1>8, <1>9, <1>10, Steps

LEMMA PageTyped ==
    ASSUME Server, Page, [Next]_vars
    PROVE  Page'
<1> USE DEF Server, Page
<1>1. ASSUME NEW i \in Id, Draw(i) \/ Commit(i) \/ Publish(i)
      PROVE  Page'
  BY <1>1 DEF Draw, Commit, Publish, clientVars, hookVars, pageVars, fetchVars, historyVars
<1>2. ASSUME NEW c \in Conn, Serve(c) \/ ReplayRead(c) \/ ReplayWrite(c) \/ Remove(c)
      PROVE  Page'
  BY <1>2 DEF Serve, ReplayRead, ReplayWrite, Remove, Published, clientVars, hookVars,
              pageVars, fetchVars, historyVars
<1>3. faults + 1 \in 0..MaxFaults \/ ~Fault
  BY BoundsAssumption DEF Fault
<1>4. ASSUME NEW c \in Conn, ReplayFails(c)
      PROVE  Page'
  BY <1>3, <1>4 DEF ReplayFails, Fault, clientVars, hookVars, pageVars, fetchVars, historyVars
<1>5. CASE Open
  <2>1. fetchFor' \in 0..MaxConn /\ fetch' \in {"asked", "answered", "idle", "abandoned"}
    BY <1>5, BoundsAssumption DEF Open, Restarted, Conn
  <2>2. QED
    BY <1>5, <2>1 DEF Open, historyVars, Status
<1>6. CASE Deliver
  BY <1>6 DEF Deliver, hookVars, fetchVars, historyVars
<1>7. CASE Break \/ Restart \/ Fatal
  BY <1>3, <1>7 DEF Break, Restart, Fatal, Drop, Fault, Status, pageVars, fetchVars, historyVars
<1>8. CASE Retry \/ Reconnect \/ Unmount
  BY <1>8 DEF Retry, Reconnect, Unmount, Status, hookVars, pageVars, fetchVars, historyVars
<1>9. CASE FetchRead \/ FetchApply
  BY <1>9 DEF FetchRead, FetchApply, InTable, hookVars, historyVars
<1>10. CASE Diverted
  BY <1>3, <1>10 DEF Diverted, FetchGoesTo, Fault, hookVars, historyVars
<1>11. CASE UNCHANGED vars
  BY <1>11 DEF vars, hookVars, fetchVars
<1>12. QED
  BY <1>1, <1>2, <1>4, <1>5, <1>6, <1>7, <1>8, <1>9, <1>10, <1>11, Steps

LEMMA FlagsTyped ==
    ASSUME Flags, [Next]_vars
    PROVE  Flags'
<1>1. hasOpened' = hasOpened \/ hasOpened' = TRUE
  BY Steps, Zenon DEF Draw, Commit, Publish, Serve, ReplayRead, ReplayWrite, ReplayFails,
     Remove, Open, Deliver, Retry, Reconnect, Break, Restart, Drop, Fatal, Unmount,
     FetchRead, FetchApply, Diverted, FetchGoesTo, vars, clientVars, hookVars
<1>2. reconnectTimer' = reconnectTimer \/ reconnectTimer' = TRUE \/ reconnectTimer' = FALSE
  BY Steps, Zenon DEF Draw, Commit, Publish, Serve, ReplayRead, ReplayWrite, ReplayFails,
     Remove, Open, Deliver, Retry, Reconnect, Break, Restart, Drop, Fatal, Backoff, Unmount,
     FetchRead, FetchApply, Diverted, FetchGoesTo, vars, clientVars, hookVars
<1>3. loaded' = loaded \/ loaded' = TRUE
  BY Steps, Zenon DEF Draw, Commit, Publish, Serve, ReplayRead, ReplayWrite, ReplayFails,
     Remove, Open, Deliver, Retry, Reconnect, Break, Restart, Drop, Fatal, Unmount,
     FetchRead, FetchApply, Diverted, FetchGoesTo, vars, clientVars, pageVars, fetchVars
<1>4. QED
  BY <1>1, <1>2, <1>3, Zenon DEF Flags

LEMMA InitTyped == Init => Server /\ Page
<1>1. 0 \in 0..MaxId /\ 0 \in 0..MaxConn /\ 0 \in 0..MaxFaults /\ 1 \in Conn
  BY MaxIdAssumption, BoundsAssumption DEF Conn
<1>2. QED
  BY <1>1 DEF Init, Server, Page, Status

(* LiveStream's state keeps its types.                                     *)
THEOREM TypeCorrect == Spec => []TypeOK
<1>1. Init => Server /\ Page
  BY InitTyped
<1>2. Init => Flags
  BY Zenon DEF Init, Flags
<1>3. Server /\ Page /\ Flags /\ [Next]_vars => (Server /\ Page /\ Flags)'
  BY ServerTyped, PageTyped, FlagsTyped
<1>4. QED
  BY <1>1, <1>2, <1>3, TypeParts, PTL DEF Spec
-----------------------------------------------------------------------------
(* The stream the page is on.                                              *)

Live == es \in {"connecting", "open"}
Came == delivered \cup OnWire
RangeOf(s) == {s[k] : k \in DOMAIN s}

(* No handler has started for a request not yet made, the response the     *)
(* page reads is registered, and what was published stays so.              *)
Attached ==
    /\ \A c \in Conn : c > conn => replay[c] = "none"
    /\ Live /\ replay[conn] # "none" => conn \in hub
    /\ es = "open" => replay[conn] # "none"
    /\ before \subseteq Published

LEMMA RangesOfSequences ==
    ASSUME NEW s \in Seq(Id), NEW t \in Seq(Id)
    PROVE  /\ \A i \in Id : RangeOf(Append(s, i)) = RangeOf(s) \cup {i}
           /\ RangeOf(s \o t) = RangeOf(s) \cup RangeOf(t)
           /\ s # <<>> => RangeOf(s) = {Head(s)} \cup RangeOf(Tail(s))
<1>1. ASSUME NEW i \in Id
      PROVE  RangeOf(Append(s, i)) = RangeOf(s) \cup {i}
  <2>1. DOMAIN Append(s, i) = DOMAIN s \cup {Len(s) + 1}
    OBVIOUS
  <2>2. \A k \in DOMAIN s : Append(s, i)[k] = s[k]
    OBVIOUS
  <2>3. Append(s, i)[Len(s) + 1] = i
    OBVIOUS
  <2>4. QED
    BY <2>1, <2>2, <2>3 DEF RangeOf
<1>2. RangeOf(s \o t) = RangeOf(s) \cup RangeOf(t)
  <2>1. ASSUME NEW k \in DOMAIN (s \o t)
        PROVE  (s \o t)[k] \in RangeOf(s) \cup RangeOf(t)
    <3>1. CASE k <= Len(s)
      BY <3>1 DEF RangeOf
    <3>2. CASE k > Len(s)
      <4>1. k - Len(s) \in DOMAIN t /\ (s \o t)[k] = t[k - Len(s)]
        BY <3>2
      <4>2. QED
        BY <4>1 DEF RangeOf
    <3>3. QED
      BY <3>1, <3>2
  <2>2. ASSUME NEW k \in DOMAIN s
        PROVE  s[k] \in RangeOf(s \o t)
    <3>1. k \in DOMAIN (s \o t) /\ (s \o t)[k] = s[k]
      OBVIOUS
    <3>2. QED
      BY <3>1 DEF RangeOf
  <2>3. ASSUME NEW k \in DOMAIN t
        PROVE  t[k] \in RangeOf(s \o t)
    <3>1. k + Len(s) \in DOMAIN (s \o t) /\ (s \o t)[k + Len(s)] = t[k]
      OBVIOUS
    <3>2. QED
      BY <3>1 DEF RangeOf
  <2>4. QED
    BY <2>1, <2>2, <2>3 DEF RangeOf
<1>3. ASSUME s # <<>>
      PROVE  RangeOf(s) = {Head(s)} \cup RangeOf(Tail(s))
  <2>1. 1 \in DOMAIN s /\ s[1] = Head(s)
    BY <1>3
  <2>2. ASSUME NEW k \in DOMAIN s, k # 1
        PROVE  s[k] \in RangeOf(Tail(s))
    <3>1. k - 1 \in DOMAIN Tail(s) /\ Tail(s)[k - 1] = s[k]
      BY <1>3, <2>2
    <3>2. QED
      BY <3>1 DEF RangeOf
  <2>3. ASSUME NEW k \in DOMAIN Tail(s)
        PROVE  Tail(s)[k] \in RangeOf(s)
    <3>1. k + 1 \in DOMAIN s /\ Tail(s)[k] = s[k + 1]
      BY <1>3
    <3>2. QED
      BY <3>1 DEF RangeOf
  <2>4. QED
    BY <2>1, <2>2, <2>3 DEF RangeOf
<1>4. QED
  BY <1>1, <1>2, <1>3

LEMMA OnWireIsRange == OnWire = RangeOf(wire[conn])
  BY DEF OnWire, RangeOf

LEMMA StaysAttached ==
    ASSUME Server, Attached, [Next]_vars
    PROVE  Attached'
<1> USE DEF Attached, Live
<1>1. ASSUME NEW i \in Id, Draw(i) \/ Commit(i) \/ Publish(i)
      PROVE  Attached'
  <2>1. Published \subseteq Published'
    BY <1>1 DEF Draw, Commit, Publish, Published, Server
  <2>2. QED
    BY <1>1, <2>1 DEF Draw, Commit, Publish, clientVars, sourceVars, historyVars
<1>2. ASSUME NEW c \in Conn, Serve(c)
      PROVE  Attached'
  BY <1>2 DEF Serve, Registered, Connected, Published, clientVars, sourceVars, Server, Conn
<1>3. ASSUME NEW c \in Conn, ReplayRead(c) \/ ReplayWrite(c) \/ ReplayFails(c)
      PROVE  Attached'
  <2>1. PICK r \in {"read", "done", "failed"} : replay' = [replay EXCEPT ![c] = r]
    BY <1>3 DEF ReplayRead, ReplayWrite, ReplayFails
  <2>2. replay[c] # "none"
    BY <1>3 DEF ReplayRead, ReplayWrite, ReplayFails
  <2>3. UNCHANGED <<ping, hub, conn, es, before>>
    BY <1>3 DEF ReplayRead, ReplayWrite, ReplayFails, clientVars, sourceVars, historyVars
  <2>4. QED
    BY <2>1, <2>2, <2>3 DEF Published, Server
<1>4. ASSUME NEW c \in Conn, Remove(c)
      PROVE  Attached'
  BY <1>4 DEF Remove, Connected, Published, clientVars, sourceVars, historyVars
<1>5. CASE Open
  BY <1>5 DEF Open, Published, serverVars, historyVars
<1>6. CASE Break \/ Restart
  <2>1. es' = "waiting" /\ UNCHANGED <<ping, conn, before>>
    BY <1>6 DEF Break, Restart, Drop, historyVars
  <2>2. \A c \in Conn : c > conn => replay'[c] = "none"
    <3>1. CASE Break
      BY <3>1 DEF Break
    <3>2. CASE Restart
      BY <3>2 DEF Restart, Conn, Server
    <3>3. QED
      BY <1>6, <3>1, <3>2
  <2>3. QED
    BY <2>1, <2>2 DEF Published
<1>7. CASE Retry \/ Reconnect
  <2>1. conn' = conn + 1 /\ conn + 1 \in Conn /\ es' = "connecting"
    BY <1>7, BoundsAssumption DEF Retry, Reconnect, Request, Server, Conn
  <2>2. UNCHANGED <<ping, hub, replay, before>>
    BY <1>7 DEF Retry, Reconnect, serverVars, historyVars
  <2>3. QED
    BY <2>1, <2>2 DEF Published, Server, Conn
<1>8. CASE Deliver \/ Fatal \/ Unmount \/ FetchRead \/ FetchApply \/ Diverted \/ UNCHANGED vars
  BY <1>8 DEF Deliver, Fatal, Unmount, FetchRead, FetchApply, Diverted, FetchGoesTo, vars, serverVars, sourceVars,
              historyVars, Published
<1>9. QED
  BY <1>1, <1>2, <1>3, <1>4, <1>5, <1>6, <1>7, <1>8, Steps

(* While a stream stays up, what has come to the page or is on its way     *)
(* only grows: by the broadcasts to a registered response, by the replay.  *)
LEMMA CameGrows ==
    ASSUME Server, Attached, [Next]_vars, Live', conn' = conn
    PROVE  /\ Live
           /\ Came \subseteq Came'
           /\ \A i \in Id : Publish(i) /\ replay[conn] # "none" => i \in Came'
           /\ ReplayWrite(conn) => RangeOf(missed[conn]) \subseteq Came'
<1> USE DEF Came
<1>1. wire[conn] \in Seq(Id) /\ missed[conn] \in Seq(Id) /\ conn \in Conn
  BY DEF Server
<1>2. ~Break /\ ~Restart /\ ~Retry /\ ~Reconnect /\ ~Fatal /\ ~Unmount
  <2>1. ~Break /\ ~Restart /\ ~Fatal /\ ~Unmount
    BY DEF Break, Restart, Drop, Fatal, Unmount, Live
  <2>2. ~Retry /\ ~Reconnect
    BY DEF Retry, Reconnect, Request, Server, Conn
  <2>3. QED
    BY <2>1, <2>2
<1>3. ASSUME NEW i \in Id, Publish(i)
      PROVE  Live /\ Came \subseteq Came' /\ (replay[conn] # "none" => i \in Came')
  <2>1. UNCHANGED <<conn, es, delivered>>
    BY <1>3 DEF Publish, clientVars, sourceVars, pageVars
  <2>2. wire'[conn] = IF conn \in hub THEN Append(wire[conn], i) ELSE wire[conn]
    BY <1>1, <1>3, <2>1 DEF Publish, Connected, Live
  <2>3. replay[conn] # "none" => conn \in hub
    BY <2>1 DEF Attached, Live
  <2>4. RangeOf(Append(wire[conn], i)) = RangeOf(wire[conn]) \cup {i}
    BY <1>1, RangesOfSequences
  <2>5. OnWire = RangeOf(wire[conn]) /\ OnWire' = RangeOf(wire'[conn])
    BY <2>1 DEF OnWire, RangeOf
  <2>6. QED
    BY <2>1, <2>2, <2>3, <2>4, <2>5 DEF Live
<1>4. ASSUME NEW c \in Conn, ReplayWrite(c)
      PROVE  Live /\ Came \subseteq Came' /\ (c = conn => RangeOf(missed[conn]) \subseteq Came')
  <2>1. UNCHANGED <<conn, es, delivered>>
    BY <1>4 DEF ReplayWrite, clientVars, sourceVars, pageVars
  <2>2. wire'[conn] = IF c = conn THEN wire[conn] \o missed[conn] ELSE wire[conn]
    BY <1>1, <1>4, <2>1 DEF ReplayWrite, Connected, Live, Server
  <2>3. RangeOf(wire[conn] \o missed[conn]) = RangeOf(wire[conn]) \cup RangeOf(missed[conn])
    BY <1>1, RangesOfSequences
  <2>4. OnWire = RangeOf(wire[conn]) /\ OnWire' = RangeOf(wire'[conn])
    BY <2>1 DEF OnWire, RangeOf
  <2>5. QED
    BY <2>1, <2>2, <2>3, <2>4 DEF Live
<1>5. ASSUME Deliver
      PROVE  Live /\ Came \subseteq Came'
  <2>1. /\ delivered' = delivered \cup {Head(wire[conn])} /\ UNCHANGED <<conn, es>>
        /\ wire[conn] # <<>> /\ wire' = [wire EXCEPT ![conn] = Tail(@)]
    BY <1>5 DEF Deliver
  <2>2. wire'[conn] = Tail(wire[conn])
    BY <1>1, <2>1 DEF Server
  <2>3. RangeOf(wire[conn]) = {Head(wire[conn])} \cup RangeOf(Tail(wire[conn]))
    BY <1>1, <2>1, RangesOfSequences
  <2>4. OnWire = RangeOf(wire[conn]) /\ OnWire' = RangeOf(wire'[conn])
    BY <2>1 DEF OnWire, RangeOf
  <2>5. Live
    BY <2>1 DEF Live
  <2>6. QED
    BY <2>1, <2>2, <2>3, <2>4, <2>5
<1>6. ASSUME \/ \E i \in Id : Draw(i) \/ Commit(i)
             \/ \E c \in Conn : Serve(c) \/ ReplayRead(c) \/ ReplayFails(c) \/ Remove(c)
             \/ Open \/ FetchRead \/ FetchApply \/ Diverted \/ UNCHANGED vars
      PROVE  Live /\ Came \subseteq Came'
  <2>1. UNCHANGED <<wire, delivered>>
    BY <1>6, Zenon DEF Draw, Commit, Serve, ReplayRead, ReplayFails, Remove, Open, FetchRead,
       FetchApply, Diverted, FetchGoesTo, vars, clientVars, sourceVars, pageVars
  <2>2. es' = es \/ es = "connecting"
    BY <1>6, Zenon DEF Draw, Commit, Serve, ReplayRead, ReplayFails, Remove, Open, FetchRead,
       FetchApply, Diverted, FetchGoesTo, vars, clientVars, sourceVars
  <2>3. QED
    BY <2>1, <2>2 DEF OnWire, Live
<1>7. Live /\ Came \subseteq Came'
  BY <1>2, <1>3, <1>4, <1>5, <1>6, Steps
<1>8. QED
  BY <1>1, <1>3, <1>4, <1>7

(* What a step does to the request the page is on: a new one is made, or   *)
(* its response is registered, or its handler moves on, or none of these.  *)
LEMMA Onward ==
    ASSUME Server, Attached, [Next]_vars, Live'
    PROVE  \/ Retry \/ Reconnect
           \/ /\ conn' = conn /\ header' = header
              /\ \/ Serve(conn)
                 \/ before' = before /\ replay[conn] # "none" /\ ReplayRead(conn)
                 \/ before' = before /\ replay[conn] # "none" /\ ReplayWrite(conn)
                 \/ before' = before /\ replay[conn] # "none" /\ ReplayFails(conn)
                 \/ before' = before /\ replay'[conn] = replay[conn] /\ missed'[conn] = missed[conn]
<1> USE DEF Server
<1>1. CASE Retry \/ Reconnect
  BY <1>1
<1>2. ~Break /\ ~Restart /\ ~Fatal /\ ~Unmount
  BY DEF Break, Restart, Drop, Fatal, Unmount, Live
<1>3. CASE \E i \in Id : Draw(i) \/ Commit(i) \/ Publish(i)
  BY <1>3, Zenon DEF Draw, Commit, Publish, clientVars, sourceVars, historyVars
<1>4. ASSUME NEW c \in Conn, Serve(c)
      PROVE  Serve(conn) /\ UNCHANGED <<conn, header>>
  BY <1>4 DEF Serve, Connected, clientVars, sourceVars
<1>5. ASSUME NEW c \in Conn, ReplayRead(c) \/ ReplayWrite(c) \/ ReplayFails(c)
      PROVE  /\ UNCHANGED <<conn, header, before>>
             /\ c # conn => replay'[conn] = replay[conn] /\ missed'[conn] = missed[conn]
             /\ c = conn => replay[conn] # "none"
  <2>1. UNCHANGED <<conn, header, before>>
    BY <1>5, Zenon DEF ReplayRead, ReplayWrite, ReplayFails, clientVars, sourceVars, historyVars
  <2>2. c # conn => replay'[conn] = replay[conn]
    BY <1>5 DEF ReplayRead, ReplayWrite, ReplayFails
  <2>3. c # conn => missed'[conn] = missed[conn]
    BY <1>5 DEF ReplayRead, ReplayWrite, ReplayFails
  <2>4. replay[c] # "none"
    BY <1>5 DEF ReplayRead, ReplayWrite, ReplayFails
  <2>5. QED
    BY <2>1, <2>2, <2>3, <2>4
<1>6. CASE \/ \E c \in Conn : Remove(c)
           \/ Open \/ Deliver \/ FetchRead \/ FetchApply \/ Diverted \/ UNCHANGED vars
  BY <1>6, Zenon DEF Remove, Open, Deliver, FetchRead, FetchApply, Diverted, FetchGoesTo, vars, serverVars,
     clientVars, sourceVars, historyVars
<1>7. QED
  BY <1>1, <1>2, <1>3, <1>4, <1>5, <1>6, Steps

LEMMA NewRequest ==
    ASSUME Server, Attached, Retry \/ Reconnect
    PROVE  /\ conn' = conn + 1 /\ conn' \in Conn /\ es' = "connecting"
           /\ replay'[conn'] = "none"
           /\ UNCHANGED <<replay, before, fetchFor>>
<1>1. conn' = conn + 1 /\ conn' \in Conn /\ es' = "connecting"
  BY BoundsAssumption DEF Retry, Reconnect, Request, Server, Conn
<1>2. UNCHANGED <<replay, before, fetchFor>>
  BY Zenon DEF Retry, Reconnect, serverVars, pageVars, fetchVars, historyVars
<1>3. QED
  BY <1>1, <1>2 DEF Server, Attached, Conn

LEMMA PublishedGrows ==
    ASSUME Server, [Next]_vars
    PROVE  /\ Published \subseteq Published'
           /\ \A i \in Published' \ Published : Publish(i)
<1> USE DEF Published, Server
<1>1. ASSUME NEW i \in Id, Draw(i) \/ Commit(i)
      PROVE  Published' = Published
  BY <1>1 DEF Draw, Commit
<1>2. ASSUME NEW i \in Id, Publish(i)
      PROVE  Published' = Published \cup {i}
  BY <1>2 DEF Publish
<1>3. ASSUME ~\E i \in Id : Draw(i) \/ Commit(i) \/ Publish(i)
      PROVE  ping' = ping
  BY <1>3, Steps, Zenon DEF Serve, ReplayRead, ReplayWrite, ReplayFails, Remove, Open,
     Deliver, Retry, Reconnect, Break, Restart, Drop, Fatal, Unmount, FetchRead, FetchApply, Diverted, FetchGoesTo,
     vars, serverVars
<1>4. QED
  BY <1>1, <1>2, <1>3
-----------------------------------------------------------------------------
(* Nothing published while the response is registered is lost.             *)

LEMMA NothingIsLost ==
    ASSUME Server, Attached, NothingLostWhileRegistered, [Next]_vars
    PROVE  NothingLostWhileRegistered'
<1>1. SUFFICES ASSUME Live', replay'[conn'] # "none"
               PROVE  Published' \ before' \subseteq Came'
  BY DEF NothingLostWhileRegistered, Live, Came
<1>2. CASE Retry \/ Reconnect
  BY <1>1, <1>2, NewRequest
<1>3. CASE ~Retry /\ ~Reconnect
  <2>1. conn' = conn
    BY <1>1, <1>3, Onward
  <2>2. Live /\ Came \subseteq Came'
    BY <1>1, <2>1, CameGrows
  <2>3. CASE Serve(conn)
    BY <2>3 DEF Serve, Published
  <2>4. CASE before' = before /\ replay[conn] # "none"
    <3>1. Published \ before \subseteq Came
      BY <2>2, <2>4 DEF NothingLostWhileRegistered, Live, Came
    <3>2. \A i \in Published' \ Published : i \in Came'
      BY <1>1, <2>1, <2>4, PublishedGrows, CameGrows DEF Published
    <3>3. QED
      BY <2>2, <2>4, <3>1, <3>2
  <2>5. QED
    BY <1>1, <1>3, <2>1, <2>3, <2>4, Onward
<1>4. QED
  BY <1>2, <1>3

-----------------------------------------------------------------------------
(* The refetch an onopen asks for.                                         *)

(* The last one is for this request or an earlier one, and for none before *)
(* it is open; once read it holds all that was published when the response *)
(* was registered, which only the broadcasts cannot bring.                 *)
Refetching ==
    /\ fetchFor <= conn
    /\ es = "connecting" => fetchFor < conn
    /\ es = "open" /\ fetchFor = conn =>
          /\ fetch = "answered" => before \subseteq snapshot
          /\ fetch = "idle" => before \subseteq fetched

LEMMA RefetchCovers ==
    ASSUME Server, Page, Attached, Refetching, [Next]_vars
    PROVE  Refetching'
<1> USE DEF Refetching
<1> conn \in Nat /\ fetchFor \in Nat
  BY DEF Server, Page, Conn
<1>1. CASE \/ \E i \in Id : Draw(i) \/ Commit(i) \/ Publish(i)
           \/ \E c \in Conn : ReplayRead(c) \/ ReplayWrite(c) \/ ReplayFails(c) \/ Remove(c)
           \/ Deliver \/ UNCHANGED vars
  <2>1. UNCHANGED <<conn, es, fetch, fetchFor, snapshot, fetched, before>>
    BY <1>1, Zenon DEF Draw, Commit, Publish, ReplayRead, ReplayWrite, ReplayFails, Remove,
       Deliver, vars, clientVars, sourceVars, pageVars, fetchVars, historyVars
  <2>2. QED
    BY <2>1
<1>2. ASSUME NEW c \in Conn, Serve(c)
      PROVE  Refetching'
  <2>1. UNCHANGED <<conn, es, fetchFor>> /\ es # "open"
    BY <1>2 DEF Serve, Connected, Attached, clientVars, sourceVars, pageVars, fetchVars
  <2>2. QED
    BY <2>1
<1>3. CASE Open
  <2>1. es = "connecting" /\ es' = "open" /\ conn' = conn
    BY <1>3, Zenon DEF Open
  <2>2. (fetch' = "asked" /\ fetchFor' = conn) \/ fetchFor' = fetchFor
    BY <1>3, Zenon DEF Open, Restarted
  <2>3. QED
    BY <2>1, <2>2
<1>4. CASE Retry \/ Reconnect
  BY <1>4, NewRequest
<1>5. CASE Break \/ Restart \/ Fatal \/ Unmount
  <2>1. es' \in {"waiting", "failed", "closed"}
    BY <1>5 DEF Break, Restart, Drop, Fatal, Unmount
  <2>2. UNCHANGED <<conn, fetchFor>>
    BY <1>5, Zenon DEF Break, Restart, Drop, Fatal, Unmount, pageVars, fetchVars
  <2>3. QED
    BY <2>1, <2>2
<1>6. CASE FetchRead
  <2>1. fetch' = "answered" /\ snapshot' = InTable /\ UNCHANGED <<conn, es, fetchFor, before>>
    BY <1>6, Zenon DEF FetchRead, sourceVars, historyVars
  <2>2. before \subseteq InTable
    BY DEF Attached, Published, InTable
  <2>3. QED
    BY <2>1, <2>2
<1>7. CASE FetchApply
  <2>1. /\ fetch = "answered" /\ fetch' = "idle" /\ fetched' = fetched \cup snapshot
        /\ UNCHANGED <<conn, es, fetchFor, before>>
    BY <1>7, Zenon DEF FetchApply, sourceVars, historyVars
  <2>2. QED
    BY <2>1
<1>8. CASE Diverted
  BY <1>8 DEF Diverted, FetchGoesTo, sourceVars, historyVars
<1>9. QED
  BY <1>1, <1>2, <1>3, <1>4, <1>5, <1>6, <1>7, <1>8, Steps

-----------------------------------------------------------------------------
(* The replay of a reconnect whose backlog fits.                           *)

Backlog == Above(header[conn])

Replaying ==
    Live /\ header[conn] > 0 /\ Cardinality(Backlog) <= ReplayLimit =>
        /\ replay[conn] = "read" => before \cap Backlog \subseteq RangeOf(missed[conn])
        /\ replay[conn] = "done" => before \cap Backlog \subseteq Came

LEMMA ReplayCovers ==
    ASSUME Server, Attached, Replaying, [Next]_vars
    PROVE  Replaying'
<1>1. SUFFICES ASSUME Live', header'[conn'] > 0, Cardinality(Backlog') <= ReplayLimit
               PROVE  /\ replay'[conn'] = "read" =>
                            before' \cap Backlog' \subseteq RangeOf(missed'[conn'])
                      /\ replay'[conn'] = "done" => before' \cap Backlog' \subseteq Came'
  BY DEF Replaying
<1>2. CASE Retry \/ Reconnect
  BY <1>2, NewRequest
<1>3. CASE ~Retry /\ ~Reconnect
  <2>1. conn' = conn /\ header' = header
    BY <1>1, <1>3, Onward
  <2>2. Live /\ Came \subseteq Came'
    BY <1>1, <2>1, CameGrows
  <2>3. Backlog' = Backlog /\ header[conn] > 0 /\ Cardinality(Backlog) <= ReplayLimit
    BY <1>1, <2>1 DEF Backlog, Above
  <2>4. /\ replay[conn] = "read" => before \cap Backlog \subseteq RangeOf(missed[conn])
        /\ replay[conn] = "done" => before \cap Backlog \subseteq Came
    BY <2>2, <2>3 DEF Replaying
  <2>5. CASE Serve(conn)
    BY <2>1, <2>3, <2>5 DEF Serve, Server
  <2>6. CASE before' = before /\ ReplayRead(conn)
    <3>1. replay'[conn] = "read" /\ missed'[conn] = ListAfter(header[conn], ReplayLimit)
      BY <2>6 DEF ReplayRead, Server
    <3>2. before \cap Backlog \subseteq Behind(header[conn])
      BY DEF Attached, Backlog, Above, Behind, Published, InTable
    <3>3. Behind(header[conn]) \in SUBSET Backlog /\ Backlog \in SUBSET Id
      BY DEF Behind, InTable, Backlog, Above
    <3>4. Cardinality(Behind(header[conn])) <= ReplayLimit
      <4>1. /\ Cardinality(Behind(header[conn])) <= Cardinality(Backlog)
            /\ Cardinality(Behind(header[conn])) \in Nat /\ Cardinality(Backlog) \in Nat
        BY <3>3, IdsFinite, FS_Subset, FS_CardinalityType
      <4>2. QED
        BY <2>3, <4>1, ReplayLimitAssumption
    <3>5. Behind(header[conn]) \subseteq RangeOf(missed'[conn])
      BY <3>1, <3>4, ListAfterReturns DEF RangeOf
    <3>6. QED
      BY <2>1, <2>3, <2>6, <3>1, <3>2, <3>5
  <2>7. CASE before' = before /\ ReplayWrite(conn)
    <3>1. replay[conn] = "read" /\ replay'[conn] = "done"
      BY <2>7 DEF ReplayWrite, Server
    <3>2. RangeOf(missed[conn]) \subseteq Came'
      BY <1>1, <2>1, <2>7, CameGrows
    <3>3. QED
      BY <2>1, <2>3, <2>4, <2>7, <3>1, <3>2
  <2>8. CASE ReplayFails(conn)
    BY <2>1, <2>8 DEF ReplayFails, Server
  <2>9. CASE before' = before /\ replay'[conn] = replay[conn] /\ missed'[conn] = missed[conn]
    BY <2>1, <2>2, <2>3, <2>4, <2>9
  <2>10. QED
    BY <1>1, <1>3, <2>5, <2>6, <2>7, <2>8, <2>9, Onward
<1>4. QED
  BY <1>2, <1>3

-----------------------------------------------------------------------------
(* The inductive invariant, and what follows from it.                      *)

Sound ==
    Server /\ Page /\ Attached /\ NothingLostWhileRegistered /\ Refetching /\ Replaying

LEMMA SoundIsInvariant == Spec => []Sound
<1>1. Init => Server /\ Page
  BY InitTyped
<1>2. Init => Attached /\ NothingLostWhileRegistered /\ Refetching /\ Replaying
  <2>1. 1 \in Conn
    BY BoundsAssumption DEF Conn
  <2>2. QED
    BY <2>1 DEF Init, Attached, NothingLostWhileRegistered, Refetching, Replaying
<1>3. Sound /\ [Next]_vars => Sound'
  BY ServerTyped, PageTyped, StaysAttached, NothingIsLost, RefetchCovers, ReplayCovers
     DEF Sound
<1>4. QED
  BY <1>1, <1>2, <1>3, PTL DEF Spec, Sound

(* A ping published while the page's response is registered (hub.add comes *)
(* before the replay query) has come or is on the wire, at every moment of *)
(* the stream.                                                             *)
THEOREM NothingLostWhileRegisteredInvariant == Spec => []NothingLostWhileRegistered
<1>1. Sound => NothingLostWhileRegistered
  BY DEF Sound
<1>2. QED
  BY <1>1, SoundIsInvariant, PTL

(* Once the refetch of an onopen is applied, a page whose stream stays up  *)
(* has missed nothing, whatever the replay did.                            *)
THEOREM RefetchClosesTheGapInvariant == Spec => []RefetchClosesTheGap
<1>1. ASSUME Sound
      PROVE  RefetchClosesTheGap
  <2>1. SUFFICES ASSUME es = "open", fetch = "idle", fetchFor = conn
                 PROVE  Published \subseteq Told \cup OnWire
    BY DEF RefetchClosesTheGap
  <2>2. Published \ before \subseteq delivered \cup OnWire
    BY <1>1, <2>1 DEF Sound, Attached, NothingLostWhileRegistered
  <2>3. before \subseteq fetched
    BY <1>1, <2>1 DEF Sound, Refetching
  <2>4. QED
    BY <2>2, <2>3 DEF Told
<1>2. QED
  BY <1>1, SoundIsInvariant, PTL

(* A replay that was written and not cut at its limit has brought all that *)
(* is published above the last id the browser saw.                         *)
THEOREM ReplayBringsWhatIsAboveInvariant == Spec => []ReplayBringsWhatIsAbove
<1>1. ASSUME Sound
      PROVE  ReplayBringsWhatIsAbove
  <2>1. SUFFICES ASSUME es = "open", header[conn] > 0, replay[conn] = "done",
                        Cardinality(Above(header[conn])) <= ReplayLimit
                 PROVE  Published \cap Above(header[conn]) \subseteq Came
    BY DEF ReplayBringsWhatIsAbove, Came
  <2>2. before \cap Above(header[conn]) \subseteq Came
    BY <1>1, <2>1 DEF Sound, Replaying, Live, Backlog
  <2>3. Published \ before \subseteq Came
    BY <1>1, <2>1 DEF Sound, NothingLostWhileRegistered, Came
  <2>4. QED
    BY <2>2, <2>3
<1>2. QED
  BY <1>1, SoundIsInvariant, PTL
-----------------------------------------------------------------------------
(* What OwedIsTold rests on: a ping published since the stream first opened*)
(* on a loaded page is told, or on the wire of an open stream, or in the   *)
(* answer of a fetch or the table that a fetch is yet to read, or the next *)
(* onopen will ask for one; unless the refetch was given up, or "Load      *)
(* older" took its place.                                                  *)
OwedOnItsWay ==
    \A i \in owed \ Told :
        \/ es = "closed" \/ Unrepaired
        \/ /\ es = "open"
           /\ i \in OnWire \/ fetch = "asked" \/ (fetch = "answered" /\ i \in snapshot)
        \/ es \in {"connecting", "waiting", "failed"} /\ Refetches

OwedSince == /\ owed \subseteq Published
             /\ owed # {} => hasOpened /\ loaded

(* The writers of owed and of the fetch, and what they leave alone.        *)
LEMMA OwedSteps ==
    ASSUME [Next]_vars
    PROVE  /\ owed' # owed => \E i \in Id : Publish(i) /\ hasOpened /\ loaded /\ owed' = owed \cup {i}
           /\ hasOpened => hasOpened'
           /\ loaded => loaded'
           /\ delivered \subseteq delivered' /\ fetched \subseteq fetched'
           /\ ~Open /\ ~FetchRead /\ ~FetchApply /\ ~Diverted => UNCHANGED <<fetch, snapshot>>
           /\ ~Open => es' = es \/ es' # "open"
<1>1. ASSUME NEW i \in Id, Publish(i)
      PROVE  owed' = owed \/ (hasOpened /\ loaded /\ owed' = owed \cup {i})
  BY Zenon, <1>1 DEF Publish
<1>2. (~\E i \in Id : Publish(i)) => owed' = owed
  BY Steps, Zenon DEF Draw, Commit, Serve, ReplayRead, ReplayWrite, ReplayFails, Remove, Open,
     Deliver, Retry, Reconnect, Break, Restart, Drop, Fatal, Unmount, FetchRead, FetchApply, Diverted, FetchGoesTo,
     vars, historyVars
<1>3. ~Open /\ ~FetchRead /\ ~FetchApply /\ ~Diverted => UNCHANGED <<fetch, snapshot>>
  BY Steps, Zenon DEF Draw, Commit, Publish, Serve, ReplayRead, ReplayWrite, ReplayFails,
     Remove, Deliver, Retry, Reconnect, Break, Restart, Drop, Fatal, Unmount,
     vars, clientVars, pageVars, fetchVars
<1>4. hasOpened => hasOpened'
  BY Steps, Zenon DEF Draw, Commit, Publish, Serve, ReplayRead, ReplayWrite, ReplayFails,
     Remove, Open, Deliver, Retry, Reconnect, Break, Restart, Drop, Fatal, Unmount, FetchRead,
     FetchApply, Diverted, FetchGoesTo, vars, clientVars, hookVars
<1>5. loaded => loaded'
  BY Steps, Zenon DEF Draw, Commit, Publish, Serve, ReplayRead, ReplayWrite, ReplayFails,
     Remove, Open, Deliver, Retry, Reconnect, Break, Restart, Drop, Fatal, Unmount, FetchRead,
     FetchApply, Diverted, FetchGoesTo, vars, clientVars, pageVars, fetchVars
<1>6. delivered' = delivered \/ delivered' = delivered \cup {Head(wire[conn])}
  BY Steps, Zenon DEF Draw, Commit, Publish, Serve, ReplayRead, ReplayWrite, ReplayFails,
     Remove, Open, Deliver, Retry, Reconnect, Break, Restart, Drop, Fatal, Unmount, FetchRead,
     FetchApply, Diverted, FetchGoesTo, vars, clientVars, pageVars
<1>7. fetched' = fetched \/ fetched' = fetched \cup snapshot
  BY Steps, Zenon DEF Draw, Commit, Publish, Serve, ReplayRead, ReplayWrite, ReplayFails,
     Remove, Open, Deliver, Retry, Reconnect, Break, Restart, Drop, Fatal, Unmount, FetchRead,
     FetchApply, Diverted, FetchGoesTo, vars, clientVars, pageVars, fetchVars
<1>8. ~Open => es' = es \/ es' \in {"waiting", "connecting", "failed", "closed"}
  BY Steps DEF Draw, Commit, Publish, Serve, ReplayRead, ReplayWrite, ReplayFails,
     Remove, Deliver, Retry, Reconnect, Request, Break, Restart, Drop, Fatal, Unmount, FetchRead,
     FetchApply, Diverted, FetchGoesTo, vars, clientVars, sourceVars
<1>9. delivered \subseteq delivered' /\ fetched \subseteq fetched'
  BY <1>6, <1>7
<1>10. ~Open => es' = es \/ es' # "open"
  BY <1>8
<1>11. owed' # owed => \E i \in Id : Publish(i) /\ hasOpened /\ loaded /\ owed' = owed \cup {i}
  BY Zenon, <1>1, <1>2
<1>12. QED
  BY Zenon, <1>3, <1>4, <1>5, <1>9, <1>10, <1>11

LEMMA OwedSincePreserved ==
    ASSUME Server, OwedSince, [Next]_vars
    PROVE  OwedSince'
<1>1. hasOpened /\ loaded => hasOpened' /\ loaded'
  BY Zenon, OwedSteps
<1>2. Published \subseteq Published'
  BY PublishedGrows
<1>3. CASE owed' = owed
  BY <1>1, <1>2, <1>3, Zenon DEF OwedSince
<1>4. ASSUME NEW i \in Id, Publish(i), hasOpened, loaded, owed' = owed \cup {i}
      PROVE  OwedSince'
  <2>1. i \in Published'
    BY <1>4 DEF Publish, Published, Server
  <2>2. owed' \subseteq Published'
    BY <1>2, <1>4, <2>1 DEF OwedSince
  <2>3. QED
    BY Zenon, <1>1, <1>4, <2>2 DEF OwedSince
<1>5. QED
  BY <1>3, <1>4, OwedSteps

LEMMA OwedGoesOn ==
    ASSUME Server, Attached, OwedSince, OwedOnItsWay, OwedSince', Server', [Next]_vars
    PROVE  OwedOnItsWay'
<1> SUFFICES ASSUME NEW i \in owed' \ Told'
             PROVE  \/ es' = "closed"
                    \/ /\ es' = "open"
                       /\ \/ i \in OnWire' \/ fetch' \in {"asked", "abandoned"}
                          \/ fetch' = "answered" /\ i \in snapshot'
                    \/ es' \in {"connecting", "waiting", "failed"} /\ Refetches'
  BY DEF OwedOnItsWay, Unrepaired
<1>1. CASE es' # "open"
  <2>1. Refetches'
    BY Zenon DEF OwedSince, Refetches
  <2>2. es' \in {"connecting", "open", "waiting", "failed", "closed"}
    BY DEF Server
  <2>3. QED
    BY <1>1, <2>1, <2>2
<1>2. CASE es' = "open" /\ Open
  <2>1. owed' = owed /\ es = "connecting"
    BY Zenon, <1>2 DEF Open, historyVars
  <2>2. i \in owed /\ Refetches
    BY Zenon, <2>1 DEF OwedSince, Refetches
  <2>3. fetch' = "asked"
    BY Zenon, <1>2, <2>2 DEF Open, Restarted
  <2>4. QED
    BY <1>2, <2>3
<1>3. CASE es' = "open" /\ ~Open
  <2>1. es = "open" /\ Live' /\ Live
    BY <1>3, OwedSteps DEF Live
  <2>2. conn' = conn
    <3>1. ~Retry /\ ~Reconnect
      BY <1>3 DEF Retry, Reconnect, Request
    <3>2. QED
      BY Zenon, <2>1, <3>1, Onward
  <2>3. Came \subseteq Came' /\ replay[conn] # "none"
    BY <2>1, <2>2, CameGrows DEF Attached
  <2>4. i \notin delivered' /\ i \notin fetched' /\ i \notin Told
    BY OwedSteps DEF Told
  <2>5. i \in Came' => i \in OnWire'
    BY <2>4 DEF Came
  <2>6. CASE i \notin owed
    <3>1. Publish(i) /\ i \in Id
      BY <2>6, OwedSteps
    <3>2. i \in Came'
      BY <2>1, <2>2, <2>3, <3>1, CameGrows
    <3>3. QED
      BY <1>3, <2>5, <3>2
  <2>7. CASE i \in owed
    <3>1. \/ i \in OnWire \/ fetch \in {"asked", "abandoned"}
          \/ fetch = "answered" /\ i \in snapshot
      BY <2>1, <2>4, <2>7 DEF OwedOnItsWay, Unrepaired
    <3>2. CASE i \in OnWire
      BY <1>3, <2>3, <2>5, <3>2 DEF Came
    <3>3. CASE FetchRead
      <4>1. fetch' = "answered" /\ snapshot' = InTable
        BY Zenon, <3>3 DEF FetchRead
      <4>2. i \in InTable
        BY <2>7 DEF OwedSince, Published, InTable
      <4>3. QED
        BY <1>3, <4>1, <4>2
    <3>4. CASE FetchApply
      <4>1. fetch = "answered" /\ fetched' = fetched \cup snapshot
        BY Zenon, <3>4 DEF FetchApply
      <4>2. QED
        BY <2>4, <3>1, <3>2, <4>1
    <3>5. CASE Diverted
      BY Zenon, <1>3, <3>5 DEF Diverted
    <3>6. CASE ~FetchRead /\ ~FetchApply /\ ~Diverted
      <4>1. fetch' = fetch /\ snapshot' = snapshot
        BY Zenon, <1>3, <3>6, OwedSteps
      <4>2. QED
        BY <1>3, <3>1, <3>2, <4>1
    <3>7. QED
      BY <3>3, <3>4, <3>5, <3>6
  <2>8. QED
    BY <2>6, <2>7
<1>4. QED
  BY <1>1, <1>2, <1>3

(* At every moment somebody has each ping that is owed: broadcast, replay, *)
(* refetch or the refetch to come (use-live-stream.ts:43-66), through all  *)
(* broken connections, restarts and fatal answers; but for a refetch that  *)
(* is given up or that "Load older" cancels while the stream is up, which  *)
(* may have been the last to have it.                                      *)
THEOREM OwedOnItsWayInvariant == Spec => []OwedOnItsWay
<1>1. Init => OwedSince /\ OwedOnItsWay
  BY DEF Init, OwedSince, OwedOnItsWay
<1>2. Sound /\ OwedSince /\ [Next]_vars => OwedSince'
  BY OwedSincePreserved DEF Sound
<1>3. Sound /\ Sound' /\ OwedSince /\ OwedSince' /\ OwedOnItsWay /\ [Next]_vars => OwedOnItsWay'
  BY OwedGoesOn DEF Sound
<1>4. QED
  BY <1>1, <1>2, <1>3, SoundIsInvariant, PTL DEF Spec
-----------------------------------------------------------------------------
(* A stream that is down is not left alone: the browser will retry it, or  *)
(* the hook's timer is armed (and only then), and the bound on requests is *)
(* never the reason that it stays down.                                    *)
StreamIsDriven ==
    /\ reconnectTimer <=> es = "failed"
    /\ es \in {"waiting", "failed"} => conn < MaxConn

Down == IF es \in {"waiting", "failed"} THEN 1 ELSE 0
Requests == conn + Down <= faults + 1

LEMMA TimerArmed ==
    ASSUME (reconnectTimer <=> es = "failed"), [Next]_vars
    PROVE  (reconnectTimer <=> es = "failed")'
<1>1. CASE Fatal
  BY Zenon, <1>1 DEF Fatal, Backoff
<1>2. CASE Unmount
  <2>1. es' = "closed" /\ reconnectTimer' = FALSE
    BY Zenon, <1>2 DEF Unmount
  <2>2. QED
    BY <2>1
<1>3. CASE Reconnect
  <2>1. es' = "connecting" /\ reconnectTimer' = FALSE
    BY Zenon, <1>3 DEF Reconnect, Request
  <2>2. QED
    BY <2>1
<1>4. CASE Open \/ Break \/ Restart \/ Retry
  <2>1. reconnectTimer' = reconnectTimer
    BY Zenon, <1>4 DEF Open, Break, Restart, Drop, Retry, hookVars
  <2>2. es # "failed" /\ es' # "failed"
    BY <1>4 DEF Open, Break, Restart, Drop, Retry, Request
  <2>3. QED
    BY Zenon, <2>1, <2>2
<1>5. CASE UNCHANGED <<es, reconnectTimer>>
  BY <1>5
<1>6. \/ Fatal \/ Unmount \/ Reconnect \/ Open \/ Break \/ Restart \/ Retry
      \/ UNCHANGED <<es, reconnectTimer>>
  BY Steps, Zenon DEF Draw, Commit, Publish, Serve, ReplayRead, ReplayWrite, ReplayFails,
     Remove, Deliver, FetchRead, FetchApply, Diverted, FetchGoesTo, vars, clientVars, sourceVars, hookVars
<1>7. QED
  BY <1>1, <1>2, <1>3, <1>4, <1>5, <1>6

LEMMA RequestsCounted ==
    ASSUME Server, Page, Requests, (reconnectTimer <=> es = "failed"), [Next]_vars
    PROVE  Requests'
<1>1. conn \in Nat /\ faults \in Nat
  BY BoundsAssumption DEF Server, Page, Conn
<1>2. CASE Break \/ Restart \/ Fatal
  <2>1. es \in {"connecting", "open"} /\ conn' = conn /\ faults' = faults + 1
    BY <1>2 DEF Break, Restart, Drop, Fatal, Fault
  <2>2. QED
    BY <1>1, <2>1 DEF Requests, Down
<1>3. CASE Retry
  BY <1>1, <1>3 DEF Retry, Request, Requests, Down
<1>4. CASE Reconnect /\ es = "failed"
  BY <1>1, <1>4 DEF Reconnect, Request, Requests, Down
<1>5. CASE Open \/ Unmount
  <2>1. es' \in {"open", "closed"} /\ conn' = conn /\ faults' = faults
    BY <1>5 DEF Open, Unmount
  <2>2. QED
    BY <1>1, <2>1 DEF Requests, Down
<1>6. ASSUME NEW c \in Conn, ReplayFails(c)
      PROVE  Requests'
  <2>1. UNCHANGED <<es, conn>> /\ faults' = faults + 1
    BY Zenon, <1>6 DEF ReplayFails, Fault, clientVars, sourceVars
  <2>2. QED
    BY <1>1, <2>1 DEF Requests, Down
<1>7. CASE UNCHANGED <<es, conn>> /\ (Fault \/ UNCHANGED faults)
  BY <1>1, <1>7 DEF Requests, Down, Fault
<1>8. \/ Fatal \/ Unmount \/ Reconnect \/ Open \/ Break \/ Restart \/ Retry
      \/ \E c \in Conn : ReplayFails(c)
      \/ UNCHANGED <<es, conn>> /\ (Fault \/ UNCHANGED faults)
  BY Steps, Zenon DEF Draw, Commit, Publish, Serve, ReplayRead, ReplayWrite,
     Remove, Deliver, FetchRead, FetchApply, Diverted, FetchGoesTo, vars, clientVars, sourceVars
<1>9. Reconnect => es = "failed"
  BY Zenon DEF Reconnect
<1>10. QED
  BY <1>2, <1>3, <1>4, <1>5, <1>6, <1>7, <1>8, <1>9

(* What StreamComesBack rests on (use-live-stream.ts:53-64): the backoff is*)
(* armed exactly while the source has failed for good, and each request    *)
(* after the first is paid for by a fault, so that none is ever refused.   *)
THEOREM StreamIsDrivenInvariant == Spec => []StreamIsDriven
<1> DEFINE Armed == reconnectTimer <=> es = "failed"
<1>1. Init => Armed /\ Requests
  BY DEF Init, Requests, Down
<1>2. Sound /\ Armed /\ Requests /\ [Next]_vars => Requests'
  BY RequestsCounted DEF Sound
<1>3. Armed /\ [Next]_vars => Armed'
  BY TimerArmed
<1>4. Sound /\ Armed /\ Requests => StreamIsDriven
  <2> SUFFICES ASSUME Sound, Armed, Requests PROVE StreamIsDriven
    OBVIOUS
  <2>1. conn \in Nat /\ faults \in 0..MaxFaults /\ MaxFaults \in Nat /\ MaxConn \in Nat
        /\ MaxConn > MaxFaults
    BY BoundsAssumption DEF Sound, Server, Page, Conn
  <2>2. es \in {"waiting", "failed"} => conn < MaxConn
    BY <2>1 DEF Requests, Down
  <2>3. QED
    BY Zenon, <2>2 DEF StreamIsDriven
<1>5. QED
  BY <1>1, <1>2, <1>3, <1>4, SoundIsInvariant, PTL DEF Spec
=============================================================================
