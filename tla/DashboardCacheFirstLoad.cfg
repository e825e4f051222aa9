\* A live ping arrives while the list is loaded for the first time.
CONSTANTS
    MaxId = 3
    PageSize = 2
    MaxPending = 1
    Replays = FALSE
    Lossy = FALSE
SPECIFICATION Spec
INVARIANT ChannelsConverge
