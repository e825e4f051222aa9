\* Every answer, with the network and the timeout at any point.
CONSTANTS
    Status = {200, 204, 404, 502}
    Body = {"empty", "json", "garbage", "nul", "escaped nul"}
SPECIFICATION Spec
INVARIANTS TypeOK RecordedAsItWas
\* A probe settles.
CHECK_DEADLOCK FALSE
