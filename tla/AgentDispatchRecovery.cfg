SPECIFICATION FairSpec
CONSTANTS
    Tasks = {t1}
    Workers = {w1, w2}
    NoTask = NoTask
    NoWorker = NoWorker
    Taps = {1}
    Priority <- MCPriority
    SafeRecovery = TRUE
    MaxRecoveries = 1
    CrashPoints <- AfterAssignment
    CrashWhileQueued = FALSE
    MaxCancels = 1
    MaxRetries = 0
    MaxCrashes = 2
    MaxRecoveryFaults = 0
    MaxHalts = 1
CHECK_DEADLOCK FALSE
INVARIANTS
    NoAutomaticReplay
PROPERTIES
    QueuedWorkIsDispatched
    ActiveWorkEnds
