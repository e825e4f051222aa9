--------------------------- MODULE MCPingService ---------------------------
(* PingService on small sets of processes, calls and slots. *)
EXTENDS PingService

CONSTANTS p1, p2, r1, r2, r3, s1

TwoProcesses == {p1, p2}
ThreeRuns == {r1, r2, r3}
OneSlot == {s1}
=============================================================================
