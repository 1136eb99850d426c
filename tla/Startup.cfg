CONSTANTS
    Process = {p1, p2, p3}
    MaxFaults = 2
    None = None
SPECIFICATION FairSpec
INVARIANTS StartupInv OneConsumerEach ServesWithConsumer
PROPERTY ConsumerReturns
CHECK_DEADLOCK FALSE
