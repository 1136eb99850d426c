CONSTANTS
    Run = {r1, r2}
    Query = r1
    MaxFaults = 1
    Considered = {"approval", "outside"}
    None = None
SPECIFICATION FairSpec
INVARIANTS
    PipelineInv ResolvedRowWhole FailedRowClean LeftOpenForCause CountersBalance
    DecisionsAgree OnlyEligibleUnescalated ReviewAgrees FallbackAnswers StockOfOrder
PROPERTIES EveryRunAnswers KeepsConversation
CHECK_DEADLOCK FALSE
