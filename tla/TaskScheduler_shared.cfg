\* Two tasks and one permit: executions wait for each other across tasks.  A bound
\* that is used up, or a deleted task, may end the behaviour.
CONSTANTS
    t1 = t1
    t2 = t2
    h = h
    x1 = x1
    x2 = x2
    u1 = u1
    u2 = u2
    None = None
    Results = {"completed"}
    Tasks <- TwoTasks
    Saved <- Manual
    Handlers <- MCHandlers
    Executions <- TwoExecutions
    Savers <- OneSaver
    MaxConcurrency = 1
    MaxLocks = 4
    MaxSaves = 2
    MaxStops = 0
    Budgets <- Sharing
SPECIFICATION FairSpec
PROPERTIES
    ExecutionsEnd
CHECK_DEADLOCK FALSE
