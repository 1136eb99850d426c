CONSTANTS
    Task = {t1}
    Consumer = {c1, c2}
    Poison = {}
    MaxAttempts = 1
    MaxFaults = 0
    OldTopologies = {"legacy"}
    None = None
SPECIFICATION FairSpec
PROPERTY CurrentQueueKept
CHECK_DEADLOCK FALSE
