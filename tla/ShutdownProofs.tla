--------------------------- MODULE ShutdownProofs ---------------------------
(***************************************************************************)
(* Proofs about Shutdown, for any number of connections and of jobs.       *)
(* SInv is the inductive invariant: it adds to the properties which stage  *)
(* of the shutdown excludes which kind of work, so that a step that ends   *)
(* the pool is known to find both schedulers drained.                      *)
(***************************************************************************)
EXTENDS Shutdown, TLAPS

BeforePool == {"serving", "scheduler", "retention"}

(* The stages behind an await exclude what was awaited. *)
Awaited ==
    /\ stage \in {"retention", "pool", "sockets", "clean", "failed"} => ~Busy(Sched)
    /\ stage \in {"pool", "sockets", "clean", "failed"} => ~Busy(Sweep)

(* The pool and the stages. *)
PoolStage ==
    /\ stage \in BeforePool => pool = "open"
    /\ stage \in {"sockets", "clean"} => pool = "ended"
    /\ pool = "ended" => \A j \in Job : job[j] \notin Querying
    /\ stage \in {"sockets", "clean"} => \A c \in Conn : conn[c] = "none"

(* Until hub.stop() the hub has every stream there was at the signal. *)
WatchersHeard == stage \in BeforePool => watching \subseteq hub

SInv == TypeOK /\ Awaited /\ PoolStage /\ WatchersHeard /\ DrainedBeforePoolEnds
-----------------------------------------------------------------------------
(* Every step keeps the types, and the hub holds the open streams and no   *)
(* others: add, 'close', stop() and closeAllConnections() agree.           *)
LEMMA TypeStep == TypeOK /\ [Next]_vars => TypeOK'
<1>0. SUFFICES ASSUME TypeOK, [Next]_vars PROVE TypeOK'
  OBVIOUS
<1>b. Job \cap {"none", "idle", "stream"} = {}
  BY NamesAssumption
<1>1. ASSUME NEW j \in Job, Fire(j) PROVE TypeOK'
  BY <1>0, <1>1, <1>b DEF Fire, TypeOK, Job, Progress, Active, Querying
<1>2. ASSUME NEW r \in Req, NEW c \in Conn, Ask(r, c) PROVE TypeOK'
  BY <1>0, <1>2, <1>b DEF Ask, Settle, TypeOK, Job, Progress, Active, Querying
<1>3. ASSUME NEW j \in Job, Checked(j) PROVE TypeOK'
  BY <1>0, <1>3, <1>b DEF Checked, Settle, TypeOK, Job, Progress, Active, Querying
<1>4. ASSUME NEW j \in Job, Probed(j) PROVE TypeOK'
  BY <1>0, <1>4, <1>b DEF Probed, Settle, TypeOK, Job, Progress, Active, Querying
<1>5. ASSUME NEW j \in Job, Written(j) PROVE TypeOK'
  BY <1>0, <1>5, <1>b DEF Written, Settle, TypeOK, Job, Progress, Active, Querying
<1>6. ASSUME NEW c \in Conn, Connect(c) PROVE TypeOK'
  BY <1>0, <1>6 DEF Connect, TypeOK, Job
<1>7. ASSUME NEW c \in Conn, OpenStream(c) PROVE TypeOK'
  BY <1>0, <1>7, <1>b DEF OpenStream, TypeOK, Job
<1>8. ASSUME NEW c \in Conn, Disconnect(c) PROVE TypeOK'
  BY <1>0, <1>8, <1>b DEF Disconnect, TypeOK, Job
<1>9. ASSUME Signal PROVE TypeOK'
  BY <1>0, <1>9 DEF Signal, TypeOK, Stage, Exited
<1>10. ASSUME SchedulerDrained PROVE TypeOK'
  BY <1>0, <1>10 DEF SchedulerDrained, TypeOK, Stage, Exited
<1>11. ASSUME RetentionDrained PROVE TypeOK'
  BY <1>0, <1>11 DEF RetentionDrained, EndStreams, TypeOK, Stage, Exited
<1>12. ASSUME PoolEnds PROVE TypeOK'
  BY <1>0, <1>12 DEF PoolEnds, CutAll, TypeOK, Stage, Exited
<1>13. ASSUME PoolEndFails PROVE TypeOK'
  BY <1>0, <1>13 DEF PoolEndFails, CutAll, TypeOK, Stage, Exited
<1>14. ASSUME ServerClosed PROVE TypeOK'
  BY <1>0, <1>14 DEF ServerClosed, TypeOK, Stage, Exited
<1>15. ASSUME ForcedExit PROVE TypeOK'
  BY <1>0, <1>15 DEF ForcedExit, TypeOK, Stage, Exited
<1>16. CASE UNCHANGED vars
  BY <1>0, <1>16 DEF vars, TypeOK
<1>17. QED
  BY <1>0, <1>1, <1>2, <1>3, <1>4, <1>5, <1>6, <1>7, <1>8, <1>9, <1>10, <1>11, <1>12, <1>13, <1>14, <1>15, <1>16 DEF Next, JobStep, StopStep

(* The types, and that the hub holds the open streams and no others, for   *)
(* every number of connections and jobs.                                   *)
THEOREM TypeCorrect == Spec => []TypeOK
<1>1. Init => TypeOK
  BY DEF Init, TypeOK, Job, Stage, Progress, Active, Querying, Exited
<1>2. TypeOK /\ [Next]_vars => TypeOK'
  BY TypeStep
<1>3. QED
  BY <1>1, <1>2, PTL DEF Spec

(* What was awaited stays excluded: no timeout of a stopped scheduler fires. *)
LEMMA AwaitedStep == TypeOK /\ Awaited /\ [Next]_vars => Awaited'
<1>0. SUFFICES ASSUME TypeOK, Awaited, [Next]_vars PROVE Awaited'
  OBVIOUS
<1>a. Sched \cap Sweep = {} /\ Sched \cap Req = {} /\ Sweep \cap Req = {}
  BY KindsAssumption
<1>1. ASSUME NEW j \in Job, Fire(j) PROVE Awaited'
  BY <1>0, <1>1, <1>a DEF Fire, Awaited, TypeOK, Job, Busy, Active, Querying, Exited
<1>2. ASSUME NEW r \in Req, NEW c \in Conn, Ask(r, c) PROVE Awaited'
  BY <1>0, <1>2, <1>a DEF Ask, Settle, Awaited, TypeOK, Job, Busy, Active, Querying, Exited
<1>3. ASSUME NEW j \in Job, Checked(j) PROVE Awaited'
  BY <1>0, <1>3, <1>a DEF Checked, Settle, Alive, Exited, Awaited, TypeOK, Job, Busy, Active, Querying
<1>4. ASSUME NEW j \in Job, Probed(j) PROVE Awaited'
  BY <1>0, <1>4, <1>a DEF Probed, Settle, Alive, Exited, Awaited, TypeOK, Job, Busy, Active, Querying
<1>5. ASSUME NEW j \in Job, Written(j) PROVE Awaited'
  BY <1>0, <1>5, <1>a DEF Written, Settle, Alive, Exited, Awaited, TypeOK, Job, Busy, Active, Querying
<1>6. ASSUME NEW c \in Conn, Connect(c) PROVE Awaited'
  BY <1>0, <1>6, <1>a DEF Connect, Awaited, TypeOK, Job, Busy, Active, Querying, Exited
<1>7. ASSUME NEW c \in Conn, OpenStream(c) PROVE Awaited'
  BY <1>0, <1>7, <1>a DEF OpenStream, Awaited, TypeOK, Job, Busy, Active, Querying, Exited
<1>8. ASSUME NEW c \in Conn, Disconnect(c) PROVE Awaited'
  BY <1>0, <1>8, <1>a DEF Disconnect, Awaited, TypeOK, Job, Busy, Active, Querying, Exited
<1>9. ASSUME Signal PROVE Awaited'
  BY <1>0, <1>9, <1>a DEF Signal, Awaited, TypeOK, Job, Busy, Active, Querying, Exited
<1>10. ASSUME SchedulerDrained PROVE Awaited'
  BY <1>0, <1>10, <1>a DEF SchedulerDrained, Awaited, TypeOK, Job, Busy, Active, Querying, Exited
<1>11. ASSUME RetentionDrained PROVE Awaited'
  BY <1>0, <1>11, <1>a DEF RetentionDrained, EndStreams, Awaited, TypeOK, Job, Busy, Active, Querying, Exited
<1>12. ASSUME PoolEnds PROVE Awaited'
  BY <1>0, <1>12, <1>a DEF PoolEnds, CutAll, Awaited, TypeOK, Job, Busy, Active, Querying, Exited
<1>13. ASSUME PoolEndFails PROVE Awaited'
  BY <1>0, <1>13, <1>a DEF PoolEndFails, CutAll, Awaited, TypeOK, Job, Busy, Active, Querying, Exited
<1>14. ASSUME ServerClosed PROVE Awaited'
  BY <1>0, <1>14, <1>a DEF ServerClosed, Awaited, TypeOK, Job, Busy, Active, Querying, Exited
<1>15. ASSUME ForcedExit PROVE Awaited'
  BY <1>0, <1>15, <1>a DEF ForcedExit, Awaited, TypeOK, Job, Busy, Active, Querying, Exited
<1>16. CASE UNCHANGED vars
  BY <1>0, <1>16 DEF vars, Awaited, TypeOK, Job, Busy, Active, Querying, Exited
<1>. QED
  BY <1>0, <1>1, <1>2, <1>3, <1>4, <1>5, <1>6, <1>7, <1>8, <1>9, <1>10, <1>11, <1>12, <1>13, <1>14, <1>15, <1>16 DEF Next, JobStep, StopStep

(* The pool follows the stages, and is given up only when no query is out. *)
LEMMA PoolStageStep == TypeOK /\ PoolStage /\ [Next]_vars => PoolStage'
<1>0. SUFFICES ASSUME TypeOK, PoolStage, [Next]_vars PROVE PoolStage'
  OBVIOUS
<1>b. Job \cap {"none", "idle", "stream"} = {}
  BY NamesAssumption
<1>a. Sched \cap Sweep = {} /\ Sched \cap Req = {} /\ Sweep \cap Req = {}
  BY KindsAssumption
<1>1. ASSUME NEW j \in Job, Fire(j) PROVE PoolStage'
  BY <1>0, <1>1 DEF Fire, PoolStage, BeforePool, TypeOK, Job, Active, Querying, Exited, Alive
<1>2. ASSUME NEW r \in Req, NEW c \in Conn, Ask(r, c) PROVE PoolStage'
  BY <1>0, <1>2 DEF Ask, Settle, PoolStage, BeforePool, TypeOK, Job, Active, Querying, Exited, Alive
<1>3. ASSUME NEW j \in Job, Checked(j) PROVE PoolStage'
  BY <1>0, <1>3 DEF Checked, Settle, Alive, Exited, PoolStage, BeforePool, TypeOK, Job, Active, Querying
<1>4. ASSUME NEW j \in Job, Probed(j) PROVE PoolStage'
  <2>1. CASE job' = [job EXCEPT ![j] = "writing"] /\ pool = "open" /\ UNCHANGED conn
    BY <1>0, <1>4, <2>1 DEF Probed, Alive, Exited, PoolStage, BeforePool, TypeOK
  <2>2. CASE Settle(j, "refused")
    <3>1. stage' = stage /\ pool' = pool /\ job' = [job EXCEPT ![j] = "refused"]
      BY <1>4, <2>2 DEF Probed, Settle
    <3>2. \A i \in Job : job'[i] = job[i] \/ job'[i] = "refused"
      BY <1>0, <3>1 DEF TypeOK
    <3>3. \A c \in Conn : conn[c] = "none" => conn'[c] = "none"
      BY <1>b, <2>2 DEF Settle
    <3>. QED
      BY <1>0, <3>1, <3>2, <3>3 DEF PoolStage, BeforePool, Querying
  <2>. QED
    BY <1>4, <2>1, <2>2 DEF Probed
<1>5. ASSUME NEW j \in Job, Written(j) PROVE PoolStage'
  BY <1>0, <1>5 DEF Written, Settle, Alive, Exited, PoolStage, BeforePool, TypeOK, Job, Active, Querying
<1>6. ASSUME NEW c \in Conn, Connect(c) PROVE PoolStage'
  BY <1>0, <1>6 DEF Connect, PoolStage, BeforePool, TypeOK, Job, Active, Querying, Exited, Alive
<1>7. ASSUME NEW c \in Conn, OpenStream(c) PROVE PoolStage'
  BY <1>0, <1>7 DEF OpenStream, PoolStage, BeforePool, TypeOK, Job, Active, Querying, Exited, Alive
<1>8. ASSUME NEW c \in Conn, Disconnect(c) PROVE PoolStage'
  BY <1>0, <1>8 DEF Disconnect, PoolStage, BeforePool, TypeOK, Job, Active, Querying, Exited, Alive
<1>9. ASSUME Signal PROVE PoolStage'
  BY <1>0, <1>9 DEF Signal, PoolStage, BeforePool, TypeOK, Job, Active, Querying, Exited, Alive
<1>10. ASSUME SchedulerDrained PROVE PoolStage'
  BY <1>0, <1>10 DEF SchedulerDrained, PoolStage, BeforePool, TypeOK, Job, Active, Querying, Exited, Alive
<1>11. ASSUME RetentionDrained PROVE PoolStage'
  BY <1>0, <1>11 DEF RetentionDrained, EndStreams, PoolStage, BeforePool, TypeOK, Job, Active, Querying, Exited, Alive
<1>12. ASSUME PoolEnds PROVE PoolStage'
  BY <1>0, <1>12 DEF PoolEnds, CutAll, PoolStage, BeforePool, TypeOK, Job, Active, Querying, Exited, Alive
<1>13. ASSUME PoolEndFails PROVE PoolStage'
  BY <1>0, <1>13 DEF PoolEndFails, CutAll, PoolStage, BeforePool, TypeOK, Job, Active, Querying, Exited, Alive
<1>14. ASSUME ServerClosed PROVE PoolStage'
  BY <1>0, <1>14 DEF ServerClosed, PoolStage, BeforePool, TypeOK, Job, Active, Querying, Exited, Alive
<1>15. ASSUME ForcedExit PROVE PoolStage'
  BY <1>0, <1>15 DEF ForcedExit, PoolStage, BeforePool, TypeOK, Job, Active, Querying, Exited, Alive
<1>16. CASE UNCHANGED vars
  BY <1>0, <1>16 DEF vars, PoolStage, BeforePool, TypeOK, Job, Active, Querying, Exited, Alive
<1>. QED
  BY <1>0, <1>1, <1>2, <1>3, <1>4, <1>5, <1>6, <1>7, <1>8, <1>9, <1>10, <1>11, <1>12, <1>13, <1>14, <1>15, <1>16 DEF Next, JobStep, StopStep

(* Until hub.stop() a watching stream leaves the hub only by closing. *)
LEMMA WatchersHeardStep == TypeOK /\ WatchersHeard /\ [Next]_vars => WatchersHeard'
<1>0. SUFFICES ASSUME TypeOK, WatchersHeard, [Next]_vars PROVE WatchersHeard'
  OBVIOUS
<1>a. Sched \cap Sweep = {} /\ Sched \cap Req = {} /\ Sweep \cap Req = {}
  BY KindsAssumption
<1>1. ASSUME NEW j \in Job, Fire(j) PROVE WatchersHeard'
  BY <1>0, <1>1 DEF Fire, WatchersHeard, BeforePool, TypeOK, Exited
<1>2. ASSUME NEW r \in Req, NEW c \in Conn, Ask(r, c) PROVE WatchersHeard'
  BY <1>0, <1>2 DEF Ask, Settle, WatchersHeard, BeforePool, TypeOK, Exited
<1>3. ASSUME NEW j \in Job, Checked(j) PROVE WatchersHeard'
  BY <1>0, <1>3 DEF Checked, Settle, Alive, Exited, WatchersHeard, BeforePool, TypeOK
<1>4. ASSUME NEW j \in Job, Probed(j) PROVE WatchersHeard'
  BY <1>0, <1>4 DEF Probed, Settle, Alive, Exited, WatchersHeard, BeforePool, TypeOK
<1>5. ASSUME NEW j \in Job, Written(j) PROVE WatchersHeard'
  BY <1>0, <1>5 DEF Written, Settle, Alive, Exited, WatchersHeard, BeforePool, TypeOK
<1>6. ASSUME NEW c \in Conn, Connect(c) PROVE WatchersHeard'
  BY <1>0, <1>6 DEF Connect, WatchersHeard, BeforePool, TypeOK, Exited
<1>7. ASSUME NEW c \in Conn, OpenStream(c) PROVE WatchersHeard'
  BY <1>0, <1>7 DEF OpenStream, WatchersHeard, BeforePool, TypeOK, Exited
<1>8. ASSUME NEW c \in Conn, Disconnect(c) PROVE WatchersHeard'
  BY <1>0, <1>8 DEF Disconnect, WatchersHeard, BeforePool, TypeOK, Exited
<1>9. ASSUME Signal PROVE WatchersHeard'
  BY <1>0, <1>9 DEF Signal, WatchersHeard, BeforePool, TypeOK, Exited
<1>10. ASSUME SchedulerDrained PROVE WatchersHeard'
  BY <1>0, <1>10 DEF SchedulerDrained, WatchersHeard, BeforePool, TypeOK, Exited
<1>11. ASSUME RetentionDrained PROVE WatchersHeard'
  BY <1>0, <1>11 DEF RetentionDrained, EndStreams, WatchersHeard, BeforePool, TypeOK, Exited
<1>12. ASSUME PoolEnds PROVE WatchersHeard'
  BY <1>0, <1>12 DEF PoolEnds, CutAll, WatchersHeard, BeforePool, TypeOK, Exited
<1>13. ASSUME PoolEndFails PROVE WatchersHeard'
  BY <1>0, <1>13 DEF PoolEndFails, CutAll, WatchersHeard, BeforePool, TypeOK, Exited
<1>14. ASSUME ServerClosed PROVE WatchersHeard'
  BY <1>0, <1>14 DEF ServerClosed, WatchersHeard, BeforePool, TypeOK, Exited
<1>15. ASSUME ForcedExit PROVE WatchersHeard'
  BY <1>0, <1>15 DEF ForcedExit, WatchersHeard, BeforePool, TypeOK, Exited
<1>16. CASE UNCHANGED vars
  BY <1>0, <1>16 DEF vars, WatchersHeard, BeforePool, TypeOK, Exited
<1>. QED
  BY <1>0, <1>1, <1>2, <1>3, <1>4, <1>5, <1>6, <1>7, <1>8, <1>9, <1>10, <1>11, <1>12, <1>13, <1>14, <1>15, <1>16 DEF Next, JobStep, StopStep

(* The schedulers are drained before the pool ends, and stay so. *)
LEMMA DrainedStep == TypeOK /\ Awaited /\ PoolStage /\ DrainedBeforePoolEnds /\ [Next]_vars => DrainedBeforePoolEnds'
<1>0. SUFFICES ASSUME TypeOK, Awaited, PoolStage, DrainedBeforePoolEnds, [Next]_vars PROVE DrainedBeforePoolEnds'
  OBVIOUS
<1>a. Sched \cap Sweep = {} /\ Sched \cap Req = {} /\ Sweep \cap Req = {}
  BY KindsAssumption
<1>1. ASSUME NEW j \in Job, Fire(j) PROVE DrainedBeforePoolEnds'
  BY <1>0, <1>1, <1>a DEF Fire, DrainedBeforePoolEnds, Awaited, PoolStage, BeforePool, TypeOK, Job, Busy, Active, Querying, Exited, Alive
<1>2. ASSUME NEW r \in Req, NEW c \in Conn, Ask(r, c) PROVE DrainedBeforePoolEnds'
  BY <1>0, <1>2, <1>a DEF Ask, Settle, DrainedBeforePoolEnds, Awaited, PoolStage, BeforePool, TypeOK, Job, Busy, Active, Querying, Exited, Alive
<1>3. ASSUME NEW j \in Job, Checked(j) PROVE DrainedBeforePoolEnds'
  BY <1>0, <1>3, <1>a DEF Checked, Settle, Alive, Exited, DrainedBeforePoolEnds, Awaited, PoolStage, BeforePool, TypeOK, Job, Busy, Active, Querying
<1>4. ASSUME NEW j \in Job, Probed(j) PROVE DrainedBeforePoolEnds'
  BY <1>0, <1>4, <1>a DEF Probed, Settle, Alive, Exited, DrainedBeforePoolEnds, Awaited, PoolStage, BeforePool, TypeOK, Job, Busy, Active, Querying
<1>5. ASSUME NEW j \in Job, Written(j) PROVE DrainedBeforePoolEnds'
  BY <1>0, <1>5, <1>a DEF Written, Settle, Alive, Exited, DrainedBeforePoolEnds, Awaited, PoolStage, BeforePool, TypeOK, Job, Busy, Active, Querying
<1>6. ASSUME NEW c \in Conn, Connect(c) PROVE DrainedBeforePoolEnds'
  BY <1>0, <1>6, <1>a DEF Connect, DrainedBeforePoolEnds, Awaited, PoolStage, BeforePool, TypeOK, Job, Busy, Active, Querying, Exited, Alive
<1>7. ASSUME NEW c \in Conn, OpenStream(c) PROVE DrainedBeforePoolEnds'
  BY <1>0, <1>7, <1>a DEF OpenStream, DrainedBeforePoolEnds, Awaited, PoolStage, BeforePool, TypeOK, Job, Busy, Active, Querying, Exited, Alive
<1>8. ASSUME NEW c \in Conn, Disconnect(c) PROVE DrainedBeforePoolEnds'
  BY <1>0, <1>8, <1>a DEF Disconnect, DrainedBeforePoolEnds, Awaited, PoolStage, BeforePool, TypeOK, Job, Busy, Active, Querying, Exited, Alive
<1>9. ASSUME Signal PROVE DrainedBeforePoolEnds'
  BY <1>0, <1>9, <1>a DEF Signal, DrainedBeforePoolEnds, Awaited, PoolStage, BeforePool, TypeOK, Job, Busy, Active, Querying, Exited, Alive
<1>10. ASSUME SchedulerDrained PROVE DrainedBeforePoolEnds'
  BY <1>0, <1>10, <1>a DEF SchedulerDrained, DrainedBeforePoolEnds, Awaited, PoolStage, BeforePool, TypeOK, Job, Busy, Active, Querying, Exited, Alive
<1>11. ASSUME RetentionDrained PROVE DrainedBeforePoolEnds'
  BY <1>0, <1>11, <1>a DEF RetentionDrained, EndStreams, DrainedBeforePoolEnds, Awaited, PoolStage, BeforePool, TypeOK, Job, Busy, Active, Querying, Exited, Alive
<1>12. ASSUME PoolEnds PROVE DrainedBeforePoolEnds'
  BY <1>0, <1>12, <1>a DEF PoolEnds, CutAll, DrainedBeforePoolEnds, Awaited, PoolStage, BeforePool, TypeOK, Job, Busy, Active, Querying, Exited, Alive
<1>13. ASSUME PoolEndFails PROVE DrainedBeforePoolEnds'
  BY <1>0, <1>13, <1>a DEF PoolEndFails, CutAll, DrainedBeforePoolEnds, Awaited, PoolStage, BeforePool, TypeOK, Job, Busy, Active, Querying, Exited, Alive
<1>14. ASSUME ServerClosed PROVE DrainedBeforePoolEnds'
  BY <1>0, <1>14, <1>a DEF ServerClosed, DrainedBeforePoolEnds, Awaited, PoolStage, BeforePool, TypeOK, Job, Busy, Active, Querying, Exited, Alive
<1>15. ASSUME ForcedExit PROVE DrainedBeforePoolEnds'
  BY <1>0, <1>15, <1>a DEF ForcedExit, DrainedBeforePoolEnds, Awaited, PoolStage, BeforePool, TypeOK, Job, Busy, Active, Querying, Exited, Alive
<1>16. CASE UNCHANGED vars
  BY <1>0, <1>16 DEF vars, DrainedBeforePoolEnds, Awaited, PoolStage, BeforePool, TypeOK, Job, Busy, Active, Querying, Exited, Alive
<1>. QED
  BY <1>0, <1>1, <1>2, <1>3, <1>4, <1>5, <1>6, <1>7, <1>8, <1>9, <1>10, <1>11, <1>12, <1>13, <1>14, <1>15, <1>16 DEF Next, JobStep, StopStep

(* SInv holds at the start and is kept. *)
LEMMA Inductive == Spec => []SInv
<1>1. Init => SInv
  BY DEF Init, SInv, TypeOK, Awaited, PoolStage, WatchersHeard, DrainedBeforePoolEnds,
         Job, Stage, Progress, Active, Querying, Exited, Busy, BeforePool
<1>2. SInv /\ [Next]_vars => SInv'
  BY TypeStep, AwaitedStep, PoolStageStep, WatchersHeardStep, DrainedStep DEF SInv
<1>. QED
  BY <1>1, <1>2, PTL DEF Spec

(* The comment at container.ts:101-102, for any number of runs: no run of  *)
(* either scheduler is under way when the pool ends, or had a query refused. *)
THEOREM DrainedBeforePoolEndsInvariant == Spec => []DrainedBeforePoolEnds
<1>1. SInv => DrainedBeforePoolEnds
  BY DEF SInv
<1>. QED
  BY <1>1, Inductive, PTL

(* Exit code 0: the pool is released, no stream is left, no query is out. *)
THEOREM CleanExitIsCleanInvariant == Spec => []CleanExitIsClean
<1>1. SInv => CleanExitIsClean
  <2>1. SUFFICES ASSUME SInv, stage = "clean" PROVE CleanExitIsClean
    BY DEF CleanExitIsClean
  <2>2. pool = "ended" /\ \A c \in Conn : conn[c] = "none"
    BY <2>1 DEF SInv, PoolStage
  <2>3. hub = {}
    BY <2>1, <2>2 DEF SInv, TypeOK
  <2>4. ASSUME NEW j \in Job, job[j] \in Active PROVE j \in Req /\ job[j] = "probing"
    BY <2>1, <2>2, <2>4 DEF SInv, PoolStage, DrainedBeforePoolEnds, Job, Busy, Active
  <2>. QED
    BY <2>2, <2>3, <2>4 DEF CleanExitIsClean
<1>. QED
  BY <1>1, Inductive, PTL

(* The row of a run that is drained is broadcast to every dashboard that   *)
(* was watching when the signal came and has not left.                     *)
THEOREM DrainedRunsAreBroadcastTheorem == Spec => DrainedRunsAreBroadcast
<1>1. ASSUME SInv, [Next]_vars, NEW j \in Sched, job[j] = "writing", job'[j] = "done"
      PROVE  watching \subseteq hub
  <2>1. stage \in {"serving", "scheduler", "forced"}
    BY <1>1 DEF SInv, TypeOK, Awaited, Busy, Active, Querying, Stage, Exited
  <2>2. stage # "forced"
    BY <1>1 DEF Next, vars, JobStep, StopStep, Fire, Ask, Checked, Probed, Written, Alive,
                Exited, Connect, OpenStream, Disconnect, Signal, SchedulerDrained,
                RetentionDrained, PoolEnds, PoolEndFails, ServerClosed, ForcedExit
  <2>. QED
    BY <1>1, <2>1, <2>2 DEF SInv, WatchersHeard, BeforePool
<1>2. SInv /\ [Next]_vars =>
        [\A j \in Sched :
            job[j] = "writing" /\ job'[j] = "done" => watching \subseteq hub]_vars
  BY <1>1
<1>. QED
  BY <1>2, Inductive, PTL DEF Spec, DrainedRunsAreBroadcast
=============================================================================
