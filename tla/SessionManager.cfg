\* Two runs of a session, every kind of message, every command.
SPECIFICATION Spec
CONSTANTS
    Runs = {r1, r2}
    Sessions = {s1}
    NoRun = NoRun
    Contents = {"text", "skill", "slash"}
    Commands = {"cancel", "close", "force", "compact", "truncate", "shutdown"}
INVARIANTS
    MetaTracksStatus
    OneTurnAtATime
    PromptIsTheThread
PROPERTIES
    TurnsAreReported
    ImplementsThread
SYMMETRY RunSymmetry
CHECK_DEADLOCK FALSE
