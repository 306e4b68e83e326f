\* Three runs of one session, cancelled, cut off, compacted and truncated.
SPECIFICATION Spec
CONSTANTS
    MaxRuns = 3
    max_steps = 2
    MaxCalls = 2
    MaxStray = 2
INVARIANTS
    SuccessIsAnAnswer
    ContextExtendsHistory
    RequestsArePaired
CHECK_DEADLOCK FALSE
