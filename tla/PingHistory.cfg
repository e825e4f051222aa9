\* Four pings, pages of two rows, one sweep after another.
CONSTANTS
    MaxId = 4
    MaxNow = 2
    MaxDelay = 1
    Retain = 1
    Limit = 2
SPECIFICATION Spec
INVARIANTS TypeOK WalkIsStable RecentPingsAreKept
\* Pings and time are bounded.
CHECK_DEADLOCK FALSE
