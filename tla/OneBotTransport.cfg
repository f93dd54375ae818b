\* One bot that makes three connections; a message and another action share one
\* permit.  Or two connections, and three messages in line.  When everything is
\* over the behaviour ends.
CONSTANTS
    bot = bot
    None = None
    Bots <- OneBot
    BotOf <- MCBotOf
    Budgets <- Scenarios
    MaxConcurrency = 1
    MaxConnections = 3
    MaxCalls = 3
SPECIFICATION FairSpec
INVARIANTS
    PendingHasReader
    NewestIsReachable
    MessagesKeepOrder
PROPERTIES
    CallsEnd
CHECK_DEADLOCK FALSE
