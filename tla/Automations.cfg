SPECIFICATION FairSpec
CONSTANTS
    Runs = {1, 2, 3}
    Taps = {u1}
    Grace = 1
    Parallel = 2
    MaxTime = 3
    Never = Never
    Scenes <- Instances
CHECK_DEADLOCK FALSE
INVARIANTS
    TypeOK
    StartedOnce
PROPERTIES
    DueIsSettled
