------------------------- MODULE PingServiceProofs -------------------------
(***************************************************************************)
(* Safety of PingService for every set of processes, runs and slots and    *)
(* every number of faults.                                                 *)
(***************************************************************************)
EXTENDS PingService, FiniteSetTheorems, TLAPS

(* Type correctness of the pipeline. *)
THEOREM TypeCorrect == Spec => []TypeOK
<1>1. Init => TypeOK
  BY MaxFaultsAssumption DEF Init, TypeOK, Stage, Statement
<1>2. TypeOK /\ [Next]_vars => TypeOK'
  <2> SUFFICES ASSUME TypeOK, [Next]_vars PROVE TypeOK'
    OBVIOUS
  <2> USE MaxFaultsAssumption
      DEF TypeOK, Stage, Statement, Active, Settled, clientVars, dbVars, Fault
  <2>1. ASSUME NEW r \in Run, NEW p \in Process, NEW s \in Slot, RunSlot(r, p, s)
        PROVE  TypeOK'
    BY <2>1 DEF RunSlot, Call
  <2>2. ASSUME NEW r \in Run, NEW p \in Process, NEW s \in Slot, SkipInFlight(r, p, s)
        PROVE  TypeOK'
    BY <2>2 DEF SkipInFlight, Call
  <2>3. ASSUME NEW r \in Run, NEW p \in Process, RunManual(r, p)
        PROVE  TypeOK'
    BY <2>3 DEF RunManual, Call
  <2>4. ASSUME NEW r \in Run, RunStep(r)
        PROVE  TypeOK'
    <3>1. CASE CheckHit(r)
      BY <3>1 DEF CheckHit, Leave
    <3>2. CASE CheckMiss(r)
      BY <3>2 DEF CheckMiss
    <3>3. CASE CheckFails(r)
      BY <3>3 DEF CheckFails, Leave
    <3>4. CASE ProbeSettles(r)
      BY <3>4 DEF ProbeSettles
    <3>5. CASE InsertReturnsRow(r)
      <4>1. Append(published[host[r]], rowId[r]) \in Seq(Nat)
        OBVIOUS
      <4>2. QED
        BY <3>5, <4>1 DEF InsertReturnsRow, Leave
    <3>6. CASE InsertReturnsNull(r)
      BY <3>6 DEF InsertReturnsNull, Leave
    <3>7. CASE InsertRejects(r)
      BY <3>7 DEF InsertRejects, Leave
    <3>8. QED
      BY <2>4, <3>1, <3>2, <3>3, <3>4, <3>5, <3>6, <3>7 DEF RunStep
  <2>5. ASSUME NEW r \in Run, DbStep(r)
        PROVE  TypeOK'
    <3>1. CASE DrawId(r)
      BY <3>1 DEF DrawId
    <3>2. CASE Commit(r)
      BY <3>2 DEF Commit, Row
    <3>3. CASE Conflict(r)
      BY <3>3 DEF Conflict
    <3>4. CASE LoseStatement(r)
      BY <3>4 DEF LoseStatement
    <3>5. QED
      BY <2>5, <3>1, <3>2, <3>3, <3>4 DEF DbStep
  <2>6. ASSUME NEW p \in Process, Crash(p)
        PROVE  TypeOK'
    BY <2>6 DEF Crash
  <2>7. ASSUME NEW p \in Process, Restart(p)
        PROVE  TypeOK'
    BY <2>7 DEF Restart
  <2>8. CASE UNCHANGED vars
    BY <2>8 DEF vars
  <2>9. QED
    BY <2>1, <2>2, <2>3, <2>4, <2>5, <2>6, <2>7, <2>8 DEF Next, CallStep
<1>3. QED
  BY <1>1, <1>2, PTL DEF Spec
-----------------------------------------------------------------------------
(* Layer 1: the in-process set holds exactly the slots of the active runs, *)
(* and no slot has two.  The invariant is inductive under TypeOK: a key is *)
(* taken and given back in the same step as its run becomes active or ends.*)
THEOREM SlotKeysInvariant == Spec => []SlotKeys
<1>1. Init => SlotKeys
  BY DEF Init, SlotKeys, Holds, Active
<1>2. TypeOK /\ SlotKeys /\ [Next]_vars => SlotKeys'
  <2> SUFFICES ASSUME TypeOK, SlotKeys, [Next]_vars PROVE SlotKeys'
    OBVIOUS
  <2> USE NoSlotAssumption DEF TypeOK, SlotKeys, Holds, Active, clientVars
  <2>1. ASSUME NEW r \in Run, NEW p \in Process, NEW s \in Slot, RunSlot(r, p, s)
        PROVE  SlotKeys'
    <3>1. \A q \in Run, o \in Process, z \in Slot :
            Holds(q, o, z)' <=> Holds(q, o, z) \/ (q = r /\ o = p /\ z = s)
      BY <2>1 DEF RunSlot, Call
    <3>2. ~ \E q \in Run : Holds(q, p, s)
      BY <2>1 DEF RunSlot
    <3>3. \A o \in Process, z \in Slot :
            z \in inFlight'[o] <=> z \in inFlight[o] \/ (o = p /\ z = s)
      BY <2>1 DEF RunSlot
    <3> HIDE DEF Holds, TypeOK, Active
    <3>4. QED
      BY <3>1, <3>2, <3>3
  <2>2. ASSUME NEW r \in Run, NEW p \in Process, NEW s \in Slot, SkipInFlight(r, p, s)
        PROVE  SlotKeys'
    <3>1. \A q \in Run, o \in Process, z \in Slot :
            Holds(q, o, z)' <=> Holds(q, o, z)
      BY <2>2 DEF SkipInFlight, Call
    <3>2. QED
      BY <2>2, <3>1 DEF SkipInFlight, SlotKeys
  <2>3. ASSUME NEW r \in Run, NEW p \in Process, RunManual(r, p)
        PROVE  SlotKeys'
    <3>1. \A q \in Run, o \in Process, z \in Slot :
            Holds(q, o, z)' <=> Holds(q, o, z)
      BY <2>3 DEF RunManual, Call
    <3>2. QED
      BY <2>3, <3>1 DEF RunManual, SlotKeys
  <2>4. ASSUME NEW r \in Run, RunStep(r)
        PROVE  SlotKeys'
    <3>1. ASSUME NEW outcome \in Settled, pc[r] \in Active, Leave(r, outcome)
          PROVE  SlotKeys'
      BY <3>1 DEF Leave, Settled
    <3>2. CASE CheckMiss(r)
      BY <3>2 DEF CheckMiss
    <3>3. CASE ProbeSettles(r)
      BY <3>3 DEF ProbeSettles
    <3>4. QED
      BY <2>4, <3>1, <3>2, <3>3
      DEF RunStep, CheckHit, CheckFails, InsertReturnsRow, InsertReturnsNull,
          InsertRejects, Settled
  <2>5. ASSUME NEW r \in Run, DbStep(r)
        PROVE  SlotKeys'
    BY <2>5 DEF DbStep, DrawId, Commit, Conflict, LoseStatement
  <2>6. ASSUME NEW p \in Process, Crash(p)
        PROVE  SlotKeys'
    BY <2>6 DEF Crash
  <2>7. ASSUME NEW p \in Process, Restart(p)
        PROVE  SlotKeys'
    BY <2>7 DEF Restart
  <2>8. CASE UNCHANGED vars
    BY <2>8 DEF vars
  <2>9. QED
    BY <2>1, <2>2, <2>3, <2>4, <2>5, <2>6, <2>7, <2>8 DEF Next, CallStep
<1>3. QED
  BY <1>1, <1>2, TypeCorrect, PTL DEF Spec
-----------------------------------------------------------------------------
(* How far a run's INSERT can be for the stage of the run, and which runs  *)
(* have probed.                                                            *)
StageStatement ==
    \A r \in Run :
        /\ pc[r] \in {"idle", "checking", "probing", "in_flight"} => stmt[r] = "none"
        /\ pc[r] = "inserting" => stmt[r] # "none"
        /\ pc[r] = "recorded" => stmt[r] = "committed"
        /\ pc[r] = "already_recorded" => stmt[r] \in {"none", "conflict"}
        /\ r \in probed => pc[r] \notin {"idle", "checking", "in_flight"}
        /\ pc[r] = "checking" => slot[r] \in Slot

LEMMA StageStatementInvariant == Spec => []StageStatement
<1>1. Init => StageStatement
  BY DEF Init, StageStatement
<1>2. TypeOK /\ StageStatement /\ [Next]_vars => StageStatement'
  <2> SUFFICES ASSUME TypeOK, StageStatement, [Next]_vars PROVE StageStatement'
    OBVIOUS
  <2> USE DEF TypeOK, StageStatement, Active, clientVars, dbVars
  <2>1. ASSUME NEW r \in Run, NEW p \in Process, NEW s \in Slot, RunSlot(r, p, s)
        PROVE  StageStatement'
    BY <2>1 DEF RunSlot, Call
  <2>2. ASSUME NEW r \in Run, NEW p \in Process, NEW s \in Slot, SkipInFlight(r, p, s)
        PROVE  StageStatement'
    BY <2>2 DEF SkipInFlight, Call
  <2>3. ASSUME NEW r \in Run, NEW p \in Process, RunManual(r, p)
        PROVE  StageStatement'
    BY <2>3 DEF RunManual, Call
  <2>4. ASSUME NEW r \in Run, RunStep(r)
        PROVE  StageStatement'
    <3>1. CASE CheckHit(r)
      BY <3>1 DEF CheckHit, Leave
    <3>2. CASE CheckMiss(r)
      BY <3>2 DEF CheckMiss
    <3>3. CASE CheckFails(r)
      BY <3>3 DEF CheckFails, Leave
    <3>4. CASE ProbeSettles(r)
      BY <3>4 DEF ProbeSettles
    <3>5. CASE InsertReturnsRow(r)
      BY <3>5 DEF InsertReturnsRow, Leave
    <3>6. CASE InsertReturnsNull(r)
      BY <3>6 DEF InsertReturnsNull, Leave
    <3>7. CASE InsertRejects(r)
      BY <3>7 DEF InsertRejects, Leave
    <3>8. QED
      BY <2>4, <3>1, <3>2, <3>3, <3>4, <3>5, <3>6, <3>7 DEF RunStep
  <2>5. ASSUME NEW r \in Run, DbStep(r)
        PROVE  StageStatement'
    <3>1. CASE DrawId(r)
      BY <3>1 DEF DrawId
    <3>2. CASE Commit(r)
      BY <3>2 DEF Commit
    <3>3. CASE Conflict(r)
      BY <3>3 DEF Conflict
    <3>4. CASE LoseStatement(r)
      BY <3>4 DEF LoseStatement
    <3>5. QED
      BY <2>5, <3>1, <3>2, <3>3, <3>4 DEF DbStep
  <2>6. ASSUME NEW p \in Process, Crash(p)
        PROVE  StageStatement'
    BY <2>6 DEF Crash
  <2>7. ASSUME NEW p \in Process, Restart(p)
        PROVE  StageStatement'
    BY <2>7 DEF Restart
  <2>8. CASE UNCHANGED vars
    BY <2>8 DEF vars
  <2>9. QED
    BY <2>1, <2>2, <2>3, <2>4, <2>5, <2>6, <2>7, <2>8 DEF Next, CallStep
<1>3. QED
  BY <1>1, <1>2, TypeCorrect, PTL DEF Spec
-----------------------------------------------------------------------------
(* The table against the statements: committed statements and rows match   *)
(* one to one, live identity values are distinct and below the sequence,   *)
(* a slot has one row, and "conflict" or "already_recorded" means one.     *)
RowOf(r) == [id |-> rowId[r], slot |-> slot[r]]
Numbered(r) == stmt[r] \in {"numbered", "committed"}

TableMatchesStatements ==
    /\ \A r \in Run : stmt[r] = "committed" => RowOf(r) \in rows
    /\ \A row \in rows : \E r \in Run : stmt[r] = "committed" /\ row = RowOf(r)
    /\ \A r \in Run : Numbered(r) => rowId[r] < nextId
    /\ \A r, q \in Run :
          Numbered(r) /\ Numbered(q) /\ rowId[r] = rowId[q] => r = q
    /\ \A r \in Run : stmt[r] = "conflict" \/ pc[r] = "already_recorded"
          => slot[r] \in Slot /\ Recorded(slot[r])

LEMMA TableInvariant == Spec => []TableMatchesStatements
<1>1. Init => TableMatchesStatements
  BY DEF Init, TableMatchesStatements, Numbered
<1>2. /\ TypeOK /\ StageStatement /\ TableMatchesStatements
      /\ [Next]_vars
      => TableMatchesStatements'
  <2> SUFFICES ASSUME TypeOK, StageStatement, TableMatchesStatements, [Next]_vars
               PROVE  TableMatchesStatements'
    OBVIOUS
  <2> USE DEF TypeOK, StageStatement, TableMatchesStatements, RowOf, Numbered,
              Recorded, Active, clientVars, dbVars
  <2>1. ASSUME NEW r \in Run, NEW p \in Process, NEW s \in Slot, RunSlot(r, p, s)
        PROVE  TableMatchesStatements'
    BY <2>1 DEF RunSlot, Call
  <2>2. ASSUME NEW r \in Run, NEW p \in Process, NEW s \in Slot, SkipInFlight(r, p, s)
        PROVE  TableMatchesStatements'
    BY <2>2 DEF SkipInFlight, Call
  <2>3. ASSUME NEW r \in Run, NEW p \in Process, RunManual(r, p)
        PROVE  TableMatchesStatements'
    BY <2>3 DEF RunManual, Call
  <2>4. ASSUME NEW r \in Run, RunStep(r)
        PROVE  TableMatchesStatements'
    <3>1. CASE CheckHit(r)
      BY <3>1 DEF CheckHit, ExistsForSlot, Leave
    <3>2. CASE CheckMiss(r)
      BY <3>2 DEF CheckMiss
    <3>3. CASE CheckFails(r)
      BY <3>3 DEF CheckFails, Leave
    <3>4. CASE ProbeSettles(r)
      BY <3>4 DEF ProbeSettles
    <3>5. CASE InsertReturnsRow(r)
      BY <3>5 DEF InsertReturnsRow, Leave
    <3>6. CASE InsertReturnsNull(r)
      BY <3>6 DEF InsertReturnsNull, Leave
    <3>7. CASE InsertRejects(r)
      BY <3>7 DEF InsertRejects, Leave
    <3>8. QED
      BY <2>4, <3>1, <3>2, <3>3, <3>4, <3>5, <3>6, <3>7 DEF RunStep
  <2>5. ASSUME NEW r \in Run, DbStep(r)
        PROVE  TableMatchesStatements'
    <3>1. CASE DrawId(r)
      BY <3>1 DEF DrawId
    <3>2. CASE Commit(r)
      BY <3>2 DEF Commit
    <3>3. CASE Conflict(r)
      BY <3>3 DEF Conflict
    <3>4. CASE LoseStatement(r)
      BY <3>4 DEF LoseStatement
    <3>5. QED
      BY <2>5, <3>1, <3>2, <3>3, <3>4 DEF DbStep
  <2>6. ASSUME NEW p \in Process, Crash(p)
        PROVE  TableMatchesStatements'
    BY <2>6 DEF Crash
  <2>7. ASSUME NEW p \in Process, Restart(p)
        PROVE  TableMatchesStatements'
    BY <2>7 DEF Restart
  <2>8. CASE UNCHANGED vars
    BY <2>8 DEF vars
  <2>9. QED
    BY <2>1, <2>2, <2>3, <2>4, <2>5, <2>6, <2>7, <2>8 DEF Next, CallStep
<1>3. QED
  BY <1>1, <1>2, TypeCorrect, StageStatementInvariant, PTL DEF Spec
-----------------------------------------------------------------------------
(* A process repeats the probe of a slot only after its earlier run failed.*)
(* The step that matters is CheckMiss: by SlotKeys no other run of the     *)
(* process is active on the slot, and one that ended in "recorded" or      *)
(* "already_recorded" would have left the row that the check looks for.    *)
THEOREM ReprobeOnlyAfterFailureInvariant == Spec => []ReprobeOnlyAfterFailure
<1> DEFINE Assumptions == TypeOK /\ SlotKeys /\ StageStatement /\ TableMatchesStatements
<1>1. Init => ReprobeOnlyAfterFailure
  BY DEF Init, ReprobeOnlyAfterFailure
<1>2. Assumptions /\ ReprobeOnlyAfterFailure /\ [Next]_vars => ReprobeOnlyAfterFailure'
  <2> SUFFICES ASSUME Assumptions, ReprobeOnlyAfterFailure, [Next]_vars
               PROVE  ReprobeOnlyAfterFailure'
    OBVIOUS
  <2> USE DEF TypeOK, ReprobeOnlyAfterFailure, Failed, Active, clientVars, dbVars
  <2>1. ASSUME NEW r \in Run, NEW p \in Process, NEW s \in Slot, RunSlot(r, p, s)
        PROVE  ReprobeOnlyAfterFailure'
    <3>1. r \notin probed
      BY <2>1 DEF RunSlot, Call, StageStatement
    <3>2. \A q \in probed : host'[q] = host[q] /\ slot'[q] = slot[q] /\ pc'[q] = pc[q]
      BY <2>1, <3>1 DEF RunSlot, Call
    <3>3. probed' = probed
      BY <2>1 DEF RunSlot
    <3>4. QED
      BY <3>2, <3>3
  <2>2. ASSUME NEW r \in Run, NEW p \in Process, NEW s \in Slot, SkipInFlight(r, p, s)
        PROVE  ReprobeOnlyAfterFailure'
    <3>1. r \notin probed
      BY <2>2 DEF SkipInFlight, Call, StageStatement
    <3>2. \A q \in probed : host'[q] = host[q] /\ slot'[q] = slot[q] /\ pc'[q] = pc[q]
      BY <2>2, <3>1 DEF SkipInFlight, Call
    <3>3. probed' = probed
      BY <2>2 DEF SkipInFlight
    <3>4. QED
      BY <3>2, <3>3
  <2>3. ASSUME NEW r \in Run, NEW p \in Process, RunManual(r, p)
        PROVE  ReprobeOnlyAfterFailure'
    <3>1. r \notin probed
      BY <2>3 DEF RunManual, Call, StageStatement
    <3>2. \A q \in probed : host'[q] = host[q] /\ slot'[q] = slot[q] /\ pc'[q] = pc[q]
      BY <2>3, <3>1 DEF RunManual, Call
    <3>3. slot'[r] = NoSlot /\ probed' = probed \cup {r}
      BY <2>3 DEF RunManual, Call
    <3>4. QED
      BY <3>1, <3>2, <3>3
  <2>4. ASSUME NEW r \in Run, RunStep(r)
        PROVE  ReprobeOnlyAfterFailure'
    <3>1. CASE CheckHit(r)
      BY <3>1 DEF CheckHit, Leave, StageStatement
    <3>2. CASE CheckMiss(r)
      <4>1. slot[r] \in Slot /\ ~Recorded(slot[r])
        BY <3>2, NoSlotAssumption DEF CheckMiss, ExistsForSlot, StageStatement
      <4>2. ASSUME NEW q \in probed, q # r, host[q] = host[r], slot[q] = slot[r]
            PROVE  Failed(q)
        <5>1. pc[q] \notin Active
          BY <3>2, <4>1, <4>2 DEF CheckMiss, SlotKeys, Holds
        <5>2. pc[q] \notin {"recorded", "already_recorded"}
          BY <4>1, <4>2 DEF StageStatement, TableMatchesStatements, RowOf, Recorded
        <5>3. QED
          BY <5>1, <5>2 DEF StageStatement, Stage, Settled
      <4>3. \A q \in probed \ {r} :
              host'[q] = host[q] /\ slot'[q] = slot[q] /\ pc'[q] = pc[q]
        BY <3>2 DEF CheckMiss
      <4>4. probed' = probed \cup {r} /\ host'[r] = host[r] /\ slot'[r] = slot[r]
        BY <3>2 DEF CheckMiss
      <4>5. QED
        BY <4>2, <4>3, <4>4
    <3>3. CASE CheckFails(r)
      BY <3>3 DEF CheckFails, Leave, StageStatement
    <3>4. CASE ProbeSettles(r)
      BY <3>4 DEF ProbeSettles
    <3>5. CASE InsertReturnsRow(r)
      BY <3>5 DEF InsertReturnsRow, Leave
    <3>6. CASE InsertReturnsNull(r)
      BY <3>6 DEF InsertReturnsNull, Leave
    <3>7. CASE InsertRejects(r)
      BY <3>7 DEF InsertRejects, Leave
    <3>8. QED
      BY <2>4, <3>1, <3>2, <3>3, <3>4, <3>5, <3>6, <3>7 DEF RunStep
  <2>5. ASSUME NEW r \in Run, DbStep(r)
        PROVE  ReprobeOnlyAfterFailure'
    BY <2>5 DEF DbStep, DrawId, Commit, Conflict, LoseStatement
  <2>6. ASSUME NEW p \in Process, Crash(p)
        PROVE  ReprobeOnlyAfterFailure'
    BY <2>6 DEF Crash
  <2>7. ASSUME NEW p \in Process, Restart(p)
        PROVE  ReprobeOnlyAfterFailure'
    BY <2>7 DEF Restart
  <2>8. CASE UNCHANGED vars
    BY <2>8 DEF vars
  <2>9. QED
    BY <2>1, <2>2, <2>3, <2>4, <2>5, <2>6, <2>7, <2>8 DEF Next, CallStep
<1>3. QED
  BY <1>1, <1>2, TypeCorrect, SlotKeysInvariant, StageStatementInvariant,
     TableInvariant, PTL DEF Spec
-----------------------------------------------------------------------------
(* Callers are told the truth and every event is published once.  A new    *)
(* event cannot repeat an old one: each published id is the rowId of a     *)
(* recorded run, and committed statements have distinct ids.               *)
THEOREM OutcomeToldInvariant == Spec => []OutcomeTold
<1> DEFINE Assumptions == TypeOK /\ StageStatement /\ TableMatchesStatements
<1>1. Init => OutcomeTold
  BY DEF Init, OutcomeTold
<1>2. Assumptions /\ Assumptions' /\ OutcomeTold /\ [Next]_vars => OutcomeTold'
  <2> SUFFICES ASSUME Assumptions, Assumptions', OutcomeTold, [Next]_vars
               PROVE  OutcomeTold'
    OBVIOUS
  (* The first two conjuncts' claims about the table hold in every step.   *)
  <2> DEFINE Entries(p) == DOMAIN published[p]
             Published ==
               /\ \A r \in Run : pc[r] = "recorded" =>
                     \E i \in Entries(host[r]) : published[host[r]][i] = rowId[r]
               /\ \A p \in Process : \A i \in Entries(p) :
                     \E r \in Run : /\ pc[r] = "recorded" /\ host[r] = p
                                   /\ rowId[r] = published[p][i]
               /\ \A p, q \in Process : \A i \in Entries(p), j \in Entries(q) :
                     published[p][i] = published[q][j] => p = q /\ i = j
  <2>1. Published
    BY DEF OutcomeTold
  <2>2. SUFFICES Published'
    BY DEF OutcomeTold, StageStatement, TableMatchesStatements, RowOf
  <2> USE <2>1 DEF TypeOK, Active, clientVars, dbVars
  <2>3. ASSUME NEW r \in Run, NEW p \in Process, NEW s \in Slot, RunSlot(r, p, s)
        PROVE  Published'
    BY <2>3 DEF RunSlot, Call
  <2>4. ASSUME NEW r \in Run, NEW p \in Process, NEW s \in Slot, SkipInFlight(r, p, s)
        PROVE  Published'
    BY <2>4 DEF SkipInFlight, Call
  <2>5. ASSUME NEW r \in Run, NEW p \in Process, RunManual(r, p)
        PROVE  Published'
    BY <2>5 DEF RunManual, Call
  <2>6. ASSUME NEW r \in Run, RunStep(r)
        PROVE  Published'
    <3>1. CASE CheckHit(r)
      BY <3>1 DEF CheckHit, Leave
    <3>2. CASE CheckMiss(r)
      BY <3>2 DEF CheckMiss
    <3>3. CASE CheckFails(r)
      BY <3>3 DEF CheckFails, Leave
    <3>4. CASE ProbeSettles(r)
      BY <3>4 DEF ProbeSettles
    <3>5. CASE InsertReturnsRow(r)
      <4> DEFINE h == host[r]
      <4>1. /\ pc[r] = "inserting" /\ stmt[r] = "committed"
            /\ published' = [published EXCEPT ![h] = Append(published[h], rowId[r])]
            /\ pc' = [pc EXCEPT ![r] = "recorded"]
            /\ UNCHANGED <<host, rowId>>
        BY <3>5 DEF InsertReturnsRow, Leave
      <4>2. \A p \in Process : \A i \in Entries(p) : published[p][i] # rowId[r]
        BY <4>1 DEF StageStatement, TableMatchesStatements, Numbered
      <4>3. /\ h \in Process
            /\ Entries(h)' = Entries(h) \cup {Len(published[h]) + 1}
            /\ Len(published[h]) + 1 \notin Entries(h)
            /\ published'[h][Len(published[h]) + 1] = rowId[r]
            /\ \A i \in Entries(h) : published'[h][i] = published[h][i]
        BY <4>1
      <4>4. \A p \in Process \ {h} : published'[p] = published[p]
        BY <4>1
      <4>5. ASSUME NEW q \in Run, pc'[q] = "recorded"
            PROVE  (\E i \in Entries(host[q]) : published[host[q]][i] = rowId[q])'
        <5>1. CASE q = r
          BY <4>1, <4>3, <5>1
        <5>2. CASE q # r
          <6>1. PICK i \in Entries(host[q]) : published[host[q]][i] = rowId[q]
            BY <4>1, <4>5, <5>2
          <6>2. QED
            BY <4>1, <4>3, <4>4, <6>1
        <5>3. QED
          BY <5>1, <5>2
      <4>6. ASSUME NEW p \in Process, NEW i \in Entries(p)'
            PROVE  \/ i \in Entries(p) /\ published'[p][i] = published[p][i]
                   \/ p = h /\ i = Len(published[h]) + 1 /\ published'[p][i] = rowId[r]
        BY <4>1, <4>3, <4>4
      <4>7. ASSUME NEW p \in Process, NEW i \in Entries(p)'
            PROVE  (\E q \in Run : /\ pc[q] = "recorded" /\ host[q] = p
                                   /\ rowId[q] = published[p][i])'
        <5>1. CASE i \in Entries(p) /\ published'[p][i] = published[p][i]
          <6>1. PICK q \in Run : /\ pc[q] = "recorded" /\ host[q] = p
                                 /\ rowId[q] = published[p][i]
            BY <5>1
          <6>2. QED
            BY <4>1, <5>1, <6>1
        <5>2. CASE p = h /\ published'[p][i] = rowId[r]
          BY <4>1, <5>2
        <5>3. QED
          BY <4>6, <5>1, <5>2
      <4>8. ASSUME NEW p \in Process, NEW q \in Process,
                   NEW i \in Entries(p)', NEW j \in Entries(q)',
                   published'[p][i] = published'[q][j]
            PROVE  p = q /\ i = j
        <5>1. /\ \/ i \in Entries(p) /\ published'[p][i] = published[p][i]
                 \/ p = h /\ i = Len(published[h]) + 1 /\ published'[p][i] = rowId[r]
              /\ \/ j \in Entries(q) /\ published'[q][j] = published[q][j]
                 \/ q = h /\ j = Len(published[h]) + 1 /\ published'[q][j] = rowId[r]
          BY <4>6
        <5>2. CASE /\ i \in Entries(p) /\ published'[p][i] = published[p][i]
                   /\ j \in Entries(q) /\ published'[q][j] = published[q][j]
          <6>1. published[p][i] = published[q][j]
            BY ONLY <4>8, <5>2
          <6>2. QED
            BY <5>2, <6>1
        <5>3. CASE /\ i \in Entries(p) /\ published'[p][i] = published[p][i]
                   /\ published'[q][j] = rowId[r]
          BY ONLY <4>2, <4>8, <5>3
        <5>4. CASE /\ j \in Entries(q) /\ published'[q][j] = published[q][j]
                   /\ published'[p][i] = rowId[r]
          BY ONLY <4>2, <4>8, <5>4
        <5>5. QED
          BY <5>1, <5>2, <5>3, <5>4
      <4>9. (\A q \in Run : pc[q] = "recorded" =>
                \E i \in Entries(host[q]) : published[host[q]][i] = rowId[q])'
        BY <4>5
      <4>10. (\A p \in Process : \A i \in Entries(p) :
                 \E q \in Run : /\ pc[q] = "recorded" /\ host[q] = p
                                /\ rowId[q] = published[p][i])'
        BY <4>7
      <4>11. (\A p, q \in Process : \A i \in Entries(p), j \in Entries(q) :
                 published[p][i] = published[q][j] => p = q /\ i = j)'
        BY <4>8
      <4>12. QED
        BY <4>9, <4>10, <4>11
    <3>6. CASE InsertReturnsNull(r)
      BY <3>6 DEF InsertReturnsNull, Leave
    <3>7. CASE InsertRejects(r)
      BY <3>7 DEF InsertRejects, Leave
    <3>8. QED
      BY <2>6, <3>1, <3>2, <3>3, <3>4, <3>5, <3>6, <3>7 DEF RunStep
  <2>7. ASSUME NEW r \in Run, DbStep(r)
        PROVE  Published'
    <3>1. CASE DrawId(r)
      BY <3>1 DEF DrawId, StageStatement
    <3>2. CASE Commit(r)
      BY <3>2 DEF Commit
    <3>3. CASE Conflict(r)
      BY <3>3 DEF Conflict
    <3>4. CASE LoseStatement(r)
      BY <3>4 DEF LoseStatement
    <3>5. QED
      BY <2>7, <3>1, <3>2, <3>3, <3>4 DEF DbStep
  <2>8. ASSUME NEW p \in Process, Crash(p)
        PROVE  Published'
    <3>1. \A r \in Run : pc'[r] = "recorded" <=> pc[r] = "recorded"
      BY <2>8 DEF Crash
    <3>2. QED
      BY <2>8, <3>1 DEF Crash
  <2>9. ASSUME NEW p \in Process, Restart(p)
        PROVE  Published'
    BY <2>9 DEF Restart
  <2>10. CASE UNCHANGED vars
    BY <2>10 DEF vars
  <2>11. QED
    BY <2>3, <2>4, <2>5, <2>6, <2>7, <2>8, <2>9, <2>10 DEF Next, CallStep
<1>3. QED
  BY <1>1, <1>2, TypeCorrect, StageStatementInvariant, TableInvariant, PTL DEF Spec
-----------------------------------------------------------------------------
(* The pipeline implements the ledger: a commit records a ping, an answered*)
(* insert announces it, and every other step leaves the ledger alone.      *)
THEOREM LedgerImplemented == Spec => ImplementsLedger
<1> DEFINE Assumptions ==
      TypeOK /\ StageStatement /\ TableMatchesStatements /\ OutcomeTold
<1> USE DEF clientVars, dbVars
<1>1. Init => Ledger!Init
  BY DEF Init, Ledger!Init, announcedIds
<1>2. Assumptions /\ [Next]_vars => [Ledger!Next]_(Ledger!vars)
  <2> SUFFICES ASSUME Assumptions, [Next]_vars
               PROVE  [Ledger!Next]_(Ledger!vars)
    OBVIOUS
  <2>1. ASSUME rows' = rows, published' = published
        PROVE  UNCHANGED Ledger!vars
    BY <2>1 DEF Ledger!vars, announcedIds
  <2>2. ASSUME NEW r \in Run, Commit(r)
        PROVE  Ledger!Next
    <3> DEFINE ping == [id |-> rowId[r], slot |-> slot[r]]
    <3>1. ping \in Ledger!Ping
      BY DEF TypeOK, Ledger!Ping
    <3>2. \A other \in rows : other.id # ping.id
      BY <2>2 DEF Commit, TableMatchesStatements, RowOf, Numbered
    <3>3. ping.slot # NoSlot => \A other \in rows : other.slot # ping.slot
      BY <2>2 DEF Commit, Recorded
    <3>4. rows' = rows \cup {ping} /\ UNCHANGED announcedIds
      BY <2>2 DEF Commit, announcedIds
    <3>5. ping \in rows' \ rows
      BY <3>2, <3>4
    <3>6. QED
      BY <3>1, <3>2, <3>3, <3>4, <3>5 DEF Ledger!Next, Ledger!Record
  <2>3. ASSUME NEW r \in Run, InsertReturnsRow(r)
        PROVE  Ledger!Next
    <3> DEFINE ping == [id |-> rowId[r], slot |-> slot[r]]
               h == host[r]
    <3>1. /\ stmt[r] = "committed" /\ pc[r] = "inserting" /\ rows' = rows
          /\ published' = [published EXCEPT ![h] = Append(published[h], rowId[r])]
      BY <2>3 DEF InsertReturnsRow
    <3>2. ping \in rows
      BY <3>1 DEF TableMatchesStatements, RowOf
    <3>3. rowId[r] \notin announcedIds
      BY <3>1 DEF announcedIds, OutcomeTold, StageStatement,
                  TableMatchesStatements, Numbered
    <3>4. announcedIds' = announcedIds \cup {rowId[r]}
      <4> DEFINE Ids(p) == {published[p][i] : i \in DOMAIN published[p]}
      <4>1. h \in Process /\ published \in [Process -> Seq(Nat)] /\ rowId[r] \in Nat
        BY DEF TypeOK
      <4>2. ASSUME NEW p \in Process, NEW x
            PROVE  x \in Ids(p)' <=> x \in Ids(p) \/ (p = h /\ x = rowId[r])
        <5>1. CASE p # h
          BY <3>1, <4>1, <5>1
        <5>2. CASE p = h
          <6> DEFINE n == Len(published[p]) + 1
          <6>1. /\ DOMAIN published'[p] = DOMAIN published[p] \cup {n}
                /\ published'[p][n] = rowId[r]
                /\ \A i \in DOMAIN published[p] : published'[p][i] = published[p][i]
            BY <3>1, <4>1, <5>2
          <6> HIDE DEF n
          <6>2. QED
            BY <5>2, <6>1
        <5>3. QED
          BY <5>1, <5>2
      <4>3. \A x : x \in announcedIds <=> \E p \in Process : x \in Ids(p)
        BY DEF announcedIds
      <4>4. \A x : x \in announcedIds' <=> \E p \in Process : x \in Ids(p)'
        BY DEF announcedIds
      <4> HIDE DEF Ids
      <4>5. \A x : x \in announcedIds' <=> x \in announcedIds \/ x = rowId[r]
        BY <4>1, <4>2, <4>3, <4>4
      <4>6. QED
        BY <4>5
    <3>5. QED
      BY <3>1, <3>2, <3>3, <3>4 DEF Ledger!Next, Ledger!Announce
  <2>4. ASSUME NEW r \in Run, CallStep(r)
        PROVE  UNCHANGED Ledger!vars
    BY <2>1, <2>4 DEF CallStep, RunSlot, SkipInFlight, RunManual, Call
  <2>5. ASSUME NEW r \in Run, RunStep(r), ~InsertReturnsRow(r)
        PROVE  UNCHANGED Ledger!vars
    BY <2>1, <2>5 DEF RunStep, CheckHit, CheckMiss, CheckFails, ProbeSettles,
                      InsertReturnsNull, InsertRejects
  <2>6. ASSUME NEW r \in Run, DbStep(r), ~Commit(r)
        PROVE  UNCHANGED Ledger!vars
    BY <2>1, <2>6 DEF DbStep, DrawId, Conflict, LoseStatement
  <2>7. ASSUME NEW p \in Process, Crash(p) \/ Restart(p)
        PROVE  UNCHANGED Ledger!vars
    BY <2>1, <2>7 DEF Crash, Restart
  <2>8. CASE UNCHANGED vars
    BY <2>1, <2>8 DEF vars
  <2>9. QED
    BY <2>2, <2>3, <2>4, <2>5, <2>6, <2>7, <2>8 DEF Next
<1>3. QED
  BY <1>1, <1>2, TypeCorrect, StageStatementInvariant, TableInvariant,
     OutcomeToldInvariant, PTL DEF Spec, ImplementsLedger, Ledger!Spec
-----------------------------------------------------------------------------
(* The runs that probed a slot; those of them that a fault hit, or will,   *)
(* when their INSERT is lost.                                              *)
ProbersOf(s) == {r \in probed : slot[r] = s}
Faulted(s) == {r \in ProbersOf(s) : Failed(r) \/ stmt[r] = "lost"}

(* A fault hits one run per slot at most: a crash takes all runs of its    *)
(* process, but by SlotKeys only one of them works on the slot.            *)
FaultsPaid ==
    /\ IsFiniteSet(probed)
    /\ \A s \in Slot : Cardinality(Faulted(s)) <= faults

LEMMA FaultedFinite ==
    ASSUME IsFiniteSet(probed), NEW s
    PROVE  IsFiniteSet(Faulted(s)) /\ Cardinality(Faulted(s)) \in Nat
<1>1. Faulted(s) \in SUBSET probed
  BY DEF Faulted, ProbersOf
<1>2. QED
  BY <1>1, FS_Subset, FS_CardinalityType

(* A step that hits nobody new, and one that hits one run with a fault.    *)
LEMMA NobodyHit ==
    ASSUME TypeOK, FaultsPaid, IsFiniteSet(probed'), faults' \in Nat, faults <= faults',
           \A s \in Slot : Faulted(s)' \subseteq Faulted(s)
    PROVE  FaultsPaid'
<1>1. ASSUME NEW s \in Slot
      PROVE  Cardinality(Faulted(s)') <= faults'
  <2>1. IsFiniteSet(Faulted(s)) /\ Cardinality(Faulted(s)) \in Nat
    BY FaultedFinite DEF FaultsPaid
  <2>2. /\ IsFiniteSet(Faulted(s)')
        /\ Cardinality(Faulted(s)') <= Cardinality(Faulted(s))
    BY <2>1, FS_Subset
  <2>3. Cardinality(Faulted(s)') \in Nat /\ faults \in Nat
    BY <2>2, FS_CardinalityType, MaxFaultsAssumption DEF TypeOK
  <2>4. Cardinality(Faulted(s)) <= faults
    BY DEF FaultsPaid
  <2>5. QED
    BY <2>1, <2>2, <2>3, <2>4
<1>2. QED
  BY <1>1 DEF FaultsPaid

LEMMA OneMore ==
    ASSUME NEW S, NEW T, NEW x, IsFiniteSet(S), T \subseteq S \cup {x}
    PROVE  Cardinality(T) \in Nat /\ Cardinality(T) <= Cardinality(S) + 1
<1>1. IsFiniteSet(S \cup {x})
  BY FS_AddElement
<1>2. Cardinality(S \cup {x}) = Cardinality(S) \/ Cardinality(S \cup {x}) = Cardinality(S) + 1
  BY FS_AddElement
<1>3. IsFiniteSet(T) /\ Cardinality(T) <= Cardinality(S \cup {x})
  BY <1>1, FS_Subset
<1>4. /\ Cardinality(S) \in Nat /\ Cardinality(T) \in Nat
      /\ Cardinality(S \cup {x}) \in Nat
  BY <1>1, <1>3, FS_CardinalityType
<1>5. QED
  BY <1>2, <1>3, <1>4

LEMMA OneRunHit ==
    ASSUME TypeOK, FaultsPaid, probed' = probed, Fault,
           \A s \in Slot : \E x : Faulted(s)' \subseteq Faulted(s) \cup {x}
    PROVE  FaultsPaid'
<1>1. ASSUME NEW s \in Slot
      PROVE  Cardinality(Faulted(s)') <= faults'
  <2>1. IsFiniteSet(Faulted(s)) /\ Cardinality(Faulted(s)) \in Nat
    BY FaultedFinite DEF FaultsPaid
  <2>2. PICK x : Faulted(s)' \subseteq Faulted(s) \cup {x}
    OBVIOUS
  <2>3. Cardinality(Faulted(s)') \in Nat /\ Cardinality(Faulted(s)') <= Cardinality(Faulted(s)) + 1
    BY <2>1, <2>2, OneMore
  <2>4. faults \in Nat /\ faults' = faults + 1
    BY MaxFaultsAssumption DEF TypeOK, Fault
  <2>5. Cardinality(Faulted(s)) <= faults
    BY DEF FaultsPaid
  <2>6. QED
    BY <2>1, <2>3, <2>4, <2>5
<1>2. QED
  BY <1>1 DEF FaultsPaid

LEMMA FaultsPaidInvariant == Spec => []FaultsPaid
<1> DEFINE Assumptions == TypeOK /\ SlotKeys /\ StageStatement
<1>1. Init => FaultsPaid
  <2> SUFFICES ASSUME Init PROVE FaultsPaid
    OBVIOUS
  <2>1. probed = {} /\ faults = 0 /\ \A s \in Slot : Faulted(s) = {}
    BY DEF Init, Faulted, ProbersOf
  <2>2. QED
    BY <2>1, FS_EmptySet DEF FaultsPaid
<1>2. Assumptions /\ FaultsPaid /\ [Next]_vars => FaultsPaid'
  <2> SUFFICES ASSUME Assumptions, FaultsPaid, [Next]_vars PROVE FaultsPaid'
    OBVIOUS
  <2>1. /\ faults \in Nat /\ IsFiniteSet(probed)
        /\ probed \subseteq Run /\ stmt \in [Run -> Statement]
        /\ slot \in [Run -> Slot \cup {NoSlot}] /\ pc \in [Run -> Stage]
    BY MaxFaultsAssumption DEF TypeOK, FaultsPaid
  <2>2. \A r \in Run : IsFiniteSet(probed \cup {r})
    BY <2>1, FS_AddElement
  <2> USE DEF Faulted, ProbersOf, Failed
  <2>3. ASSUME NEW r \in Run, CallStep(r)
        PROVE  FaultsPaid'
    <3>1. /\ faults' = faults /\ stmt' = stmt /\ r \notin probed
          /\ probed' = probed \/ (probed' = probed \cup {r} /\ slot'[r] = NoSlot)
          /\ \A q \in Run : q # r => slot'[q] = slot[q] /\ pc'[q] = pc[q]
      BY <2>1, <2>3 DEF CallStep, RunSlot, SkipInFlight, RunManual, Call, StageStatement,
                        dbVars
    <3>2. IsFiniteSet(probed')
      BY <2>1, <2>2, <3>1
    <3>3. \A s \in Slot : Faulted(s)' \subseteq Faulted(s)
      BY <2>1, <3>1, NoSlotAssumption
    <3>4. QED
      BY <2>1, <3>1, <3>2, <3>3, NobodyHit
  <2>4. ASSUME NEW r \in Run, pc'[r] \notin {"rejected", "crashed"},
               RunStep(r), faults' = faults
        PROVE  FaultsPaid'
    <3>1. /\ slot' = slot
          /\ probed' = probed \/ probed' = probed \cup {r}
          /\ stmt'[r] = "lost" => stmt[r] = "lost" /\ r \in probed
          /\ \A q \in Run : q # r => pc'[q] = pc[q] /\ stmt'[q] = stmt[q]
      BY <2>1, <2>4
      DEF RunStep, CheckHit, CheckMiss, CheckFails, ProbeSettles, InsertReturnsRow,
          InsertReturnsNull, InsertRejects, Leave, dbVars, StageStatement
    <3>2. IsFiniteSet(probed')
      BY <2>1, <2>2, <3>1
    <3>3. \A s \in Slot : Faulted(s)' \subseteq Faulted(s)
      BY <2>1, <2>4, <3>1
    <3>4. QED
      BY <2>1, <2>4, <3>2, <3>3, NobodyHit
  <2>5. ASSUME NEW r \in Run, CheckFails(r)
        PROVE  FaultsPaid'
    <3>1. /\ slot' = slot /\ probed' = probed /\ stmt' = stmt /\ r \notin probed
          /\ faults' = faults + 1
          /\ \A q \in Run : q # r => pc'[q] = pc[q]
      BY <2>1, <2>5 DEF CheckFails, Leave, dbVars, StageStatement, Fault
    <3>2. \A s \in Slot : Faulted(s)' \subseteq Faulted(s)
      BY <2>1, <3>1
    <3>3. QED
      BY <2>1, <3>1, <3>2, NobodyHit
  <2>6. ASSUME NEW r \in Run, InsertRejects(r)
        PROVE  FaultsPaid'
    <3>1. /\ slot' = slot /\ probed' = probed /\ stmt' = stmt
          /\ \A q \in Run : q # r => pc'[q] = pc[q]
      BY <2>1, <2>6 DEF InsertRejects, Leave, dbVars
    <3>2. CASE stmt[r] = "lost"
      <4>1. faults' = faults
        BY <2>6, <3>2 DEF InsertRejects
      <4>2. \A s \in Slot : Faulted(s)' \subseteq Faulted(s)
        BY <2>1, <3>1, <3>2
      <4>3. QED
        BY <2>1, <3>1, <4>1, <4>2, NobodyHit
    <3>3. CASE stmt[r] # "lost"
      <4>1. Fault
        BY <2>6, <3>3 DEF InsertRejects
      <4>2. \A s \in Slot : Faulted(s)' \subseteq Faulted(s) \cup {r}
        BY <2>1, <3>1
      <4>3. QED
        BY <3>1, <4>1, <4>2, OneRunHit
    <3>4. QED
      BY <3>2, <3>3
  <2>7. ASSUME NEW r \in Run, LoseStatement(r)
        PROVE  FaultsPaid'
    <3>1. /\ slot' = slot /\ probed' = probed /\ pc' = pc /\ Fault
          /\ \A q \in Run : q # r => stmt'[q] = stmt[q]
      BY <2>1, <2>7 DEF LoseStatement, clientVars
    <3>2. \A s \in Slot : Faulted(s)' \subseteq Faulted(s) \cup {r}
      BY <2>1, <3>1
    <3>3. QED
      BY <3>1, <3>2, OneRunHit
  <2>8. ASSUME NEW r \in Run, DbStep(r), ~LoseStatement(r)
        PROVE  FaultsPaid'
    <3>1. /\ slot' = slot /\ probed' = probed /\ pc' = pc /\ faults' = faults
          /\ \A q \in Run : stmt'[q] = "lost" => stmt[q] = "lost"
      BY <2>1, <2>8 DEF DbStep, DrawId, Commit, Conflict, clientVars
    <3>2. \A s \in Slot : Faulted(s)' \subseteq Faulted(s)
      BY <2>1, <3>1
    <3>3. QED
      BY <2>1, <3>1, <3>2, NobodyHit
  <2>9. ASSUME NEW p \in Process, Crash(p)
        PROVE  FaultsPaid'
    <3>1. /\ slot' = slot /\ probed' = probed /\ stmt' = stmt /\ Fault
          /\ \A q \in Run : pc'[q] = pc[q] \/ (host[q] = p /\ pc[q] \in Active)
      BY <2>1, <2>9 DEF Crash, dbVars
    <3>2. ASSUME NEW s \in Slot
          PROVE  \E x : Faulted(s)' \subseteq Faulted(s) \cup {x}
      <4>1. \A q \in Faulted(s)' : q \in Faulted(s) \/ Holds(q, p, s)
        BY <2>1, <3>1 DEF Holds
      <4>2. \A q1, q2 \in Run : Holds(q1, p, s) /\ Holds(q2, p, s) => q1 = q2
        BY DEF SlotKeys
      <4>3. Faulted(s)' \subseteq Run
        BY <2>1, <3>1
      <4> HIDE DEF Faulted, Holds
      <4>4. QED
        BY <4>1, <4>2, <4>3
    <3> HIDE DEF Faulted
    <3>3. QED
      BY <3>1, <3>2, OneRunHit
  <2>10. ASSUME NEW p \in Process, Restart(p)
        PROVE  FaultsPaid'
    <3>1. UNCHANGED <<slot, probed, stmt, pc, faults>>
      BY <2>10 DEF Restart, clientVars, dbVars
    <3>2. QED
      BY <2>1, <3>1, NobodyHit
  <2>11. CASE UNCHANGED vars
    <3>1. UNCHANGED <<slot, probed, stmt, pc, faults>>
      BY <2>11 DEF vars
    <3>2. QED
      BY <2>1, <3>1, NobodyHit
  <2>12. ASSUME NEW r \in Run, RunStep(r)
        PROVE  FaultsPaid'
    <3>1. CheckFails(r) \/ InsertRejects(r)
          \/ (pc'[r] \notin {"rejected", "crashed"} /\ faults' = faults)
      BY <2>1, <2>12
      DEF RunStep, CheckHit, CheckMiss, ProbeSettles, InsertReturnsRow,
          InsertReturnsNull, Leave
    <3>2. QED
      BY <2>4, <2>5, <2>6, <2>12, <3>1
  <2>13. QED
    BY <2>3, <2>7, <2>8, <2>9, <2>10, <2>11, <2>12 DEF Next
<1>3. QED
  BY <1>1, <1>2, TypeCorrect, SlotKeysInvariant, StageStatementInvariant, PTL DEF Spec

(* ADR-0004's "at most two probes" for two processes, in general: the runs *)
(* that probed a slot are those a fault hit, one for each fault at most,   *)
(* and of the others, by ReprobeOnlyAfterFailure, one in each process.     *)
THEOREM ProbeBudgetInvariant == Spec => []ProbeBudget
<1>1. ASSUME TypeOK, ReprobeOnlyAfterFailure, FaultsPaid
      PROVE  ProbeBudget
  <2> SUFFICES ASSUME NEW s \in Slot
               PROVE  Cardinality(ProbersOf(s)) <= Cardinality(Process) + faults
    BY DEF ProbeBudget, ProbersOf
  <2> DEFINE Sound == {r \in ProbersOf(s) : ~Failed(r)}
             Hosts == [r \in Sound |-> host[r]]
  <2>1. /\ Sound \subseteq Run /\ host \in [Run -> Process] /\ faults \in Nat
        /\ s # NoSlot
    BY <1>1, MaxFaultsAssumption, NoSlotAssumption DEF TypeOK, ProbersOf
  <2>2. Hosts \in Injection(Sound, Process)
    <3>1. Hosts \in [Sound -> Process]
      BY <2>1
    <3>2. \A r, q \in Sound : Hosts[r] = Hosts[q] => r = q
      BY <1>1, <2>1 DEF ReprobeOnlyAfterFailure, ProbersOf
    <3> HIDE DEF Hosts, Sound
    <3>3. QED
      BY <3>1, <3>2 DEF Injection, IsInjective
  <2>3. IsFiniteSet(Sound) /\ Cardinality(Sound) <= Cardinality(Process)
    BY <2>2, ProcessAssumption, FS_Injection
  <2>4. /\ IsFiniteSet(Faulted(s)) /\ Cardinality(Faulted(s)) \in Nat
        /\ Cardinality(Faulted(s)) <= faults
    BY <1>1, FaultedFinite DEF FaultsPaid
  <2>5. ProbersOf(s) \subseteq Sound \cup Faulted(s)
    BY DEF Faulted
  <2>6. /\ Cardinality(Sound) \in Nat /\ Cardinality(Process) \in Nat
        /\ IsFiniteSet(Sound \cap Faulted(s))
    BY <2>3, ProcessAssumption, FS_CardinalityType, FS_Intersection
  <2>7. Cardinality(Sound \cap Faulted(s)) \in Nat
    BY <2>6, FS_CardinalityType
  <2>8. /\ IsFiniteSet(Sound \cup Faulted(s))
        /\ Cardinality(Sound \cup Faulted(s))
             = Cardinality(Sound) + Cardinality(Faulted(s)) - Cardinality(Sound \cap Faulted(s))
    BY <2>3, <2>4, FS_Union
  <2> HIDE DEF Sound
  <2>9. /\ Cardinality(ProbersOf(s)) <= Cardinality(Sound \cup Faulted(s))
        /\ IsFiniteSet(ProbersOf(s))
    BY <2>5, <2>8, FS_Subset
  <2>10. Cardinality(ProbersOf(s)) \in Nat
    BY <2>9, FS_CardinalityType
  <2>11. QED
    BY <2>1, <2>3, <2>4, <2>6, <2>7, <2>8, <2>9, <2>10
<1>2. QED
  BY <1>1, TypeCorrect, ReprobeOnlyAfterFailureInvariant, FaultsPaidInvariant, PTL
=============================================================================
