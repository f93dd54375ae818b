\* One task.  It is saved twice while two executions of it are in flight, or three
\* times by two users while one is; it is deleted and the process restarted at any
\* moment.  A bound that is used up, or a deleted task, may end the behaviour.
CONSTANTS
    t1 = t1
    t2 = t2
    h = h
    x1 = x1
    x2 = x2
    u1 = u1
    u2 = u2
    None = None
    Results = {"failed"}
    Tasks <- OneTask
    Saved <- AnyDefinition
    Handlers <- MCHandlers
    Executions <- TwoExecutions
    Savers <- TwoSavers
    MaxConcurrency = 2
    MaxLocks = 3
    MaxSaves = 3
    MaxStops = 1
    Budgets <- Scenarios
SPECIFICATION Spec
INVARIANTS
    NoOverlap
    OnceStartsOnce
    RunningTellsTheTruth
    DeletedLeavesNothing
    EnabledIsScheduled
SYMMETRY Symmetry
CHECK_DEADLOCK FALSE
