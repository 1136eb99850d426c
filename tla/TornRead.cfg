CONSTANTS
    Run = {r1, r2}
    Conv = {v1}
    MaxLegs = 2
    MaxCopies = 1
    Settings <- TornReadSettings
    None = None
SPECIFICATION Spec
INVARIANT ReturnsExpectedAgent
CHECK_DEADLOCK FALSE
