SPECIFICATION FairSpec
CONSTANTS
    Calls = {c1}
    MaxRetries = 2
    Allow = {"allow_once", "always_allow"}
    Refuse = {"deny_once", "always_deny"}
    NoAnswer = "none"
INVARIANTS
    NoToolWithoutConsent
    NoTwoProcesses
    ResultWasPublished
PROPERTIES
    CallsEnd
CHECK_DEADLOCK FALSE
