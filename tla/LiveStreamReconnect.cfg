\* The first request fails before it is answered.
CONSTANTS
    MaxId = 1
    MaxConn = 2
    ReplayLimit = 2
    MaxFaults = 1
SPECIFICATION Spec
INVARIANT ReconnectMissesNothing
\* Pings and requests are bounded.
CHECK_DEADLOCK FALSE
