\* Two pings, three requests, two faults.
CONSTANTS
    MaxId = 2
    MaxConn = 3
    ReplayLimit = 2
    MaxFaults = 2
SPECIFICATION FairSpec
INVARIANTS TypeOK NothingLostWhileRegistered RefetchClosesTheGap ReplayBringsWhatIsAbove
PROPERTIES OwedIsTold StreamComesBack
\* Pings and requests are bounded.
CHECK_DEADLOCK FALSE
