SPECIFICATION FairSpec
CONSTANT
    Deployments <- Instances
CHECK_DEADLOCK FALSE
INVARIANTS
    TypeOK
    OneTaskPerStep
    HandoffAsReviewed
    OverIsAnswered
    ClaimsAreTrue
PROPERTIES
    AnsweredOnce
    ReceiptEndsWork
    NoToolReplay
    WorkflowIsAnswered
