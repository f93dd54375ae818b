CONSTANTS
    group = group
    anna = anna
    bert = bert
    None = None
    Groups <- OneGroup
    Settings <- SomeSettings
    Savers <- TwoSavers
    TimeOf <- SomeSeconds
    MaxAttempts = 2
    MaxPosts = 3
    MaxPushes = 3
    MaxRows = 2
    Budgets <- Scenarios
SPECIFICATION Spec
INVARIANTS
    TypeOK
    NothingTwice
    NothingSkipped
    OncePerSession
CHECK_DEADLOCK FALSE
