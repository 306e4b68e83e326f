SPECIFICATION FairSpec
CONSTANTS
    Calls = {c1, c2}
    MaxAttempts = 3
    MaxTokens = 1
INVARIANTS
    AnswerIsOneAttempt
    TraceIsFaithful
PROPERTIES
    StopReturns
CHECK_DEADLOCK FALSE
