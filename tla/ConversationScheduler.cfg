\* Three calls over two conversations: every mixture of arrivals, ends and
\* cancellations.  Calls keep arriving, so nothing bounds the behaviours.
CONSTANTS
    t1 = t1
    t2 = t2
    t3 = t3
    c1 = c1
    c2 = c2
    e1 = e1
    e2 = e2
    e3 = e3
    NoEntry = NoEntry
    Tasks <- MCTasks
    Conversations <- MCConversations
    Entries <- MCEntries
SPECIFICATION FairSpec
INVARIANTS
    TypeOK
    OneAtATime
    DictionaryHoldsLiveEntries
PROPERTIES
    EveryCallEnds
    ImplementsMutex
