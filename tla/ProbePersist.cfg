\* A target that sends a NUL.
CONSTANTS
    Status = {200}
    Body = {"json", "nul", "escaped nul"}
SPECIFICATION Spec
INVARIANT CanAlwaysPersist
\* A probe settles.
CHECK_DEADLOCK FALSE
