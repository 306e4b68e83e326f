SPECIFICATION LifecycleSpec
CONSTANTS
    AgentRuns = {r1, r2}
    SessionRuns = {s1}
    Machines <- MCMachines
INVARIANTS
    LastSourceWins
    ExitClosesClients
PROPERTIES
    ConnectionsOutliveRuns
CHECK_DEADLOCK FALSE
