\* The locks and the tasks, with everything that may cut a turn short.
SPECIFICATION FairSpec
CONSTANTS
    Runs = {r1, r2}
    Sessions = {s1}
    NoRun = NoRun
    Contents = {"text", "slash"}
    Commands = {"cancel", "close", "compact", "shutdown"}
PROPERTIES
    TasksEnd
CHECK_DEADLOCK FALSE
