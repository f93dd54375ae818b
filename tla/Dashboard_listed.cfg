\* The knowledge page with two actions of the user: it finds ListedAreOfSelected
\* violated.
SPECIFICATION Spec
CONSTANTS
    r1 = r1
    r2 = r2
    v1 = v1
    v2 = v2
    yousa = yousa
    other = other
    None = None
    Rows = {r1, r2}
    Values = {v1, v2}
    Typed = {v2}
    Collections = {yousa, other}
    Yousa = yousa
    MaxJobs = 3
    MaxRuns = 1
    MaxDeliveries = 1
    MaxLogs = 3
    MaxPolls = 2
    Budgets <- Wandering
INVARIANT ListedAreOfSelected
CHECK_DEADLOCK FALSE
