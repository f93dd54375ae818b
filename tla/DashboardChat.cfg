\* The chat page opened at most twice, two calls under way; how much the user does is in
\* Scenarios.  A behaviour may stop when its bounds are used up.
SPECIFICATION FairSpec
CONSTANTS
    Budgets <- Scenarios
    MaxViews = 2
    MaxCalls = 2
    MaxActs = 4
INVARIANTS
    ActiveIsListed
    ShownMatchesServer
    StoredIsSeen
    SendingMeansAsked
PROPERTIES
    SendingEnds
CHECK_DEADLOCK FALSE
