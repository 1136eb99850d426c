CONSTANTS
    Request = {r1, r2, r3}
    Limit = 1
    Window = 2
    Ttl = 3
    MaxTime = 3
    MaxFaults = 2
    MaxSamples = 2
    None = None
SPECIFICATION Spec
SYMMETRY Symmetry
INVARIANTS ApiInv TwiceTheLimit RefusedForCause LeaksHaveCause SnapshotHonest
PROPERTY CountsOnlyUp
CHECK_DEADLOCK FALSE
