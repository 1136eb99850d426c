CONSTANTS
    Run = {r1, r2}
    Conv = {v1}
    MaxLegs = 1
    MaxCopies = 1
    Settings <- StaleAnswerSettings
    None = None
SPECIFICATION Spec
INVARIANT AnswersOwnTask
CHECK_DEADLOCK FALSE
