SPECIFICATION FairSpec
CONSTANTS
    Calls = {c1, c2}
    Boot = boot
    MaxRetries = 1
    ForeignIds = {4}
    MaxNoise = 1
INVARIANTS
    TypeOK
    AnswersTheCall
PROPERTIES
    NoAnswerReadAway
    CallsReturn
CHECK_DEADLOCK FALSE
