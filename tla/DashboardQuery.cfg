\* All routes; panels with two keys, two pings, and a fetch that may fail for good.
CONSTANTS
    Proxied = TRUE
    Key = {k1, k2}
    Narrow = k2
    LongLists = {k1}
    SeriesLimit = 2
    NoKey = NoKey
    MaxPings = 2
    MaxDisturbances = 5
SPECIFICATION FairQuerySpec
INVARIANTS QueryTypeOK OnlyFaultsAreFinal CurrentOrFlagged
PROPERTIES NeverBackwards CatchUp
\* A call settles.
CHECK_DEADLOCK FALSE
