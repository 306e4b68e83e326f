\* Every tier and every answer, two requests of two sessions, with the timer
\* and without.
CONSTANTS
    Requests = {r1, r2}
    Sessions = {s1, s2}
    Tools = {bash, read}
    Bash = bash
    Default <- BashAsks
    Kinds = {"deny_pattern", "outside_cwd", "allow_pattern", "plain"}
    Timeouts = {TRUE, FALSE}
    Answers <- Decisions
    Fickle = {s1}
    DisconnectHook = TRUE
SPECIFICATION FairSpec
INVARIANTS ReturnsTheAnswer
    ForcedAskNotBypassed
    WaiterAnswerable
    ConsentBehindAutoAllow
PROPERTIES ImplementsApproval
    EveryRequestSettles
