CONSTANTS
    Process = {p1}
    MaxFaults = 1
    None = None
SPECIFICATION Spec
INVARIANT HealthHonest
CHECK_DEADLOCK FALSE
