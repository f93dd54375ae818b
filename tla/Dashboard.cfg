\* Tables of two rows, forms that type one new value, two collections, three handlers
\* under way; which pages, and how much happens on them, is in Scenarios.  A behaviour
\* may stop when its bounds are used up.
SPECIFICATION FairSpec
CONSTANTS
    r1 = r1
    r2 = r2
    v1 = v1
    v2 = v2
    yousa = yousa
    other = other
    None = None
    Rows = {r1, r2}
    Values = {v1, v2}
    Typed = {v2}
    Collections = {yousa, other}
    Yousa = yousa
    MaxJobs = 3
    MaxRuns = 1
    MaxDeliveries = 1
    MaxLogs = 3
    MaxPolls = 2
    Budgets <- Scenarios
INVARIANTS
    TypeOK
    SettledShowsServer
    BusyMeansAsked
    SavedWhereOpened
PROPERTIES
    LiveLogsCatchUp
CHECK_DEADLOCK FALSE
