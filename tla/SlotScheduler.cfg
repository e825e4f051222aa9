\* Two starts and stops, with runs in flight across them, and a clock set once.
CONSTANTS
    Interval = 3
    RunOnStart = TRUE
    Early = 1
    TimerMax = 100
    MaxNow = 8
    MaxStarts = 2
    MaxSteps = 1
SPECIFICATION FairSpec
INVARIANTS TypeOK ChainAlive SlotsAdvance NextBoundaryArmed StopDrains
PROPERTY KeepsFiring
\* The clock stops at MaxNow.
CHECK_DEADLOCK FALSE
