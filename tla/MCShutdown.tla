----------------------------- MODULE MCShutdown -----------------------------
(* Shutdown on small sets of connections and jobs. *)
EXTENDS Shutdown

CONSTANTS c1, c2, job1, job2, sweep1, req1

TwoConns == {c1, c2}
TwoJobs == {job1, job2}
OneSweep == {sweep1}
OneReq == {req1}
=============================================================================
