\* One user, two conversations, a deletion and a cancellation or a crash at any
\* moment of an approved call.  A bound that is used up ends the behaviour.
CONSTANTS
    alice = alice
    bob = bob
    group = group
    other = other
    p1 = p1
    p2 = p2
    None = None
    Actors <- OneActor
    Conversations <- TwoConversations
    ApprovalIds <- OneApproval
    CallKinds = {"text", "risky"}
    Outcomes = {"success", "timeout"}
    RecursionLimit = 5
    MaxCalls = 3
    MaxAborts = 1
    MaxDeletes = 1
SPECIFICATION FairSpec
INVARIANTS
    AtMostOnce
    HistoryTellsTheTruth
    EffectLeavesRecord
    PendingMatchesNode
PROPERTIES
    ImplementsApproval
    CallsEnd
CHECK_DEADLOCK FALSE
