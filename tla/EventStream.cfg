SPECIFICATION FairSpec
CONSTANTS
    Producers = {p1, p2}
    QueueSize = 2
    BatchLimit = 1
    Serial = TRUE
    Listening = TRUE
    MaxEvents = 4
    MaxOutages = 1
    MaxDrops = 2
    MaxRestarts = 1
CHECK_DEADLOCK FALSE
INVARIANTS
    TypeOK
    NothingMissed
PROPERTIES
    ImplementsLog
    StreamDelivers
