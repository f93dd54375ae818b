\* Two users who share a group conversation, two approvals, a cancellation or a
\* crash.  A bound that is used up ends the behaviour.
CONSTANTS
    alice = alice
    bob = bob
    group = group
    other = other
    p1 = p1
    p2 = p2
    None = None
    Actors <- TwoActors
    Conversations <- OneConversation
    ApprovalIds <- TwoApprovals
    CallKinds = {"text", "noid", "refused", "safe", "risky"}
    Outcomes = {"success", "timeout"}
    RecursionLimit = 5
    MaxCalls = 3
    MaxAborts = 1
    MaxDeletes = 0
SPECIFICATION Spec
INVARIANTS
    TypeOK
    OnlyRequesterGrants
    CallsAreAnswered
    ClearedStaysCleared
PROPERTIES
    RequestEndsProperly
SYMMETRY Symmetry
CHECK_DEADLOCK FALSE
