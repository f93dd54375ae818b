\* The smallest instance in which delete_chat meets a run: it finds
\* ClearedStaysCleared violated.
CONSTANTS
    alice = alice
    bob = bob
    group = group
    other = other
    p1 = p1
    p2 = p2
    None = None
    Actors <- OneActor
    Conversations <- OneConversation
    ApprovalIds <- OneApproval
    CallKinds = {"text", "risky"}
    Outcomes = {"success", "timeout"}
    RecursionLimit = 5
    MaxCalls = 3
    MaxAborts = 0
    MaxDeletes = 1
SPECIFICATION Spec
INVARIANTS
    ClearedStaysCleared
CHECK_DEADLOCK FALSE
