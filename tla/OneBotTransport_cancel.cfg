\* A connection ends while an action of one of its messages waits for its answer: the
\* run finds CompletedWasConfirmed violated.
CONSTANTS
    bot = bot
    None = None
    Bots <- OneBot
    BotOf <- MCBotOf
    Budgets <- OnlySharing
    MaxConcurrency = 1
    MaxConnections = 2
    MaxCalls = 2
SPECIFICATION FairSpec
PROPERTIES
    CompletedWasConfirmed
CHECK_DEADLOCK FALSE
