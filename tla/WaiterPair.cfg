CONSTANTS
    Run = {r1, r2}
    Conv = {v1, v2}
    MaxLegs = 2
    MaxCopies = 1
    Settings <- PairSettings
    None = None
SPECIFICATION Spec
INVARIANTS WaiterInv ConversationsApart SerialNoSelfDeadlock NoLeakedWaiter ProcessedWasHandled
PROPERTY KeepsExchange
CHECK_DEADLOCK FALSE
