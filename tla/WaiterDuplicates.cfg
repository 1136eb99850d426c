CONSTANTS
    Run = {r1}
    Conv = {v1}
    MaxLegs = 3
    MaxCopies = 2
    Settings <- DuplicateSettings
    None = None
SPECIFICATION FairSpec
INVARIANTS LoneAnswersOwnTask TraceBounded
PROPERTY AnswerArrives
CHECK_DEADLOCK FALSE
