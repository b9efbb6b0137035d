SPECIFICATION FairSpec
CONSTANTS
    a = a
    b = b
    Callers = {a, b}
    Taps = {1, 2}
    MaxCalls = 2
    MaxSteps = 3
    Scenes <- Instances
CHECK_DEADLOCK FALSE
INVARIANTS
    TypeOK
    RunsAsAgreed
    LostConnectionStops
    ConfirmedOrRefused
PROPERTIES
    AuditedOnce
    TurnEnds
