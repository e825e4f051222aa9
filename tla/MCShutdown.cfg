\* Two dashboards, overlapping runs, a sweep and a request.
CONSTANTS
    c1 = c1  c2 = c2  job1 = job1  job2 = job2  sweep1 = sweep1  req1 = req1
    Conn <- TwoConns
    Sched <- TwoJobs
    Sweep <- OneSweep
    Req <- OneReq
    PoolMayFail = TRUE
SPECIFICATION FairSpec
INVARIANTS TypeOK DrainedBeforePoolEnds CleanExitIsClean
PROPERTIES DrainedRunsAreBroadcast ShutdownFinishes
\* The process exits.
CHECK_DEADLOCK FALSE
