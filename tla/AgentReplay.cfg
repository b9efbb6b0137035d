SPECIFICATION Spec
CONSTANTS
    Tasks = {t1}
    Workers = {w1, w2}
    NoTask = NoTask
    NoWorker = NoWorker
    Taps = {1}
    Priority <- MCPriority
    SafeRecovery = TRUE
    MaxRecoveries = 1
    CrashPoints <- AfterAssignment
    CrashWhileQueued = TRUE
    MaxCancels = 0
    MaxRetries = 0
    MaxCrashes = 2
    MaxRecoveryFaults = 0
    MaxHalts = 0
SYMMETRY WorkerSymmetry
CHECK_DEADLOCK FALSE
INVARIANTS
    NoAutomaticReplay
