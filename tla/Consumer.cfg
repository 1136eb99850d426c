CONSTANTS
    Task = {t1, t2}
    Consumer = {c1, c2}
    Poison = {t2}
    MaxAttempts = 2
    MaxFaults = 2
    OldTopologies = {"absent", "legacy"}
    None = None
SPECIFICATION FairSpec
INVARIANTS ConsumerInv NoTaskLost AttemptsHonest WorkBounded NoConcurrentRuns
PROPERTIES KeepsPromise EventuallySettled PoisonParked
CHECK_DEADLOCK FALSE
