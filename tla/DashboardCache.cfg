\* Pages of two; events out of order, lost and replayed.
CONSTANTS
    MaxId = 5
    PageSize = 2
    MaxPending = 2
    Replays = TRUE
    Lossy = TRUE
SPECIFICATION Spec
INVARIANTS TypeOK NewestFirst ListIsWhole
