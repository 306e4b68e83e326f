\* Two connections and two permission requests, a message and a compaction or two
\* of either: any four of them together.
SPECIFICATION TuiSpec
CONSTANTS
    Callers <- MCCallers
    Requests = {p1, p2}
    MaxConnections = 2
    MaxInputs = 2
    MaxEffort = 4
    MaxPicks = 2
    MaxWire = 1
INVARIANTS
    TuiTypeOK
    LockedForAReason
    AloneIsAnswerable
    WaitersHaveAReader
SYMMETRY MCSymmetry
CHECK_DEADLOCK FALSE
