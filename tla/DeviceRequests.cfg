SPECIFICATION FairSpec
CONSTANTS
    c1 = c1
    c2 = c2
    Calls = {c1, c2}
    NoRequest = NoRequest
    MaxConnections = 3
    Scenes <- Instances
CHECK_DEADLOCK FALSE
INVARIANTS
    TypeOK
    OneRunPerKey
    EndsAreTrue
    WelcomedIsReachable
PROPERTIES
    RequestEnds
    RevokedLeaves
