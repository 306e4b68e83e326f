\* Two runs, a client that follows and one that replays and may stall or go.
SPECIFICATION FairSpec
CONSTANTS
    r1 = r1
    r2 = r2
    c1 = c1
    c2 = c2
    Runs = {r1, r2}
    Clients = {c1, c2}
    LastEvent <- Short
    Everything = Everything
    NoRun = NoRun
    Subscriptions <- Asked
    Fickle = {c2}
INVARIANTS
    OrderedAndOnce
    FileTellsWhatClientsSaw
    ReplayMissesOneAtMost
PROPERTIES
    OnlyStalledClientsHold
CHECK_DEADLOCK FALSE
