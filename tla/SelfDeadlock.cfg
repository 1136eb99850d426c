CONSTANTS
    Run = {r1, r2}
    Conv = {v1}
    MaxLegs = 2
    MaxCopies = 1
    Settings <- OverlapSettings
    None = None
SPECIFICATION Spec
INVARIANT NoSelfDeadlock
CHECK_DEADLOCK FALSE
