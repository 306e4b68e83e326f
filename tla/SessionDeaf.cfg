SPECIFICATION Spec
CONSTANTS
    Runs = {r1, r2}
    Sessions = {s1}
    NoRun = NoRun
    Contents = {"text"}
    Commands = {"cancel", "close", "compact", "truncate"}
INVARIANT NewMessageReachesModel
CHECK_DEADLOCK FALSE
