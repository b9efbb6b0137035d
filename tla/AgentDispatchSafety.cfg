SPECIFICATION Spec
CONSTANTS
    Tasks = {t1}
    Workers = {w1, w2}
    NoTask = NoTask
    NoWorker = NoWorker
    Taps = {1}
    Priority <- MCPriority
    SafeRecovery = TRUE
    MaxRecoveries = 1
    CrashPoints <- AfterAssignment
    CrashWhileQueued = TRUE
    MaxCancels = 1
    MaxRetries = 1
    MaxCrashes = 1
    MaxRecoveryFaults = 1
    MaxHalts = 1
SYMMETRY WorkerSymmetry
CHECK_DEADLOCK FALSE
INVARIANTS
    TypeOK
    OneExecutor
    NoLeakedSlot
PROPERTIES
    CancelStopsWork
