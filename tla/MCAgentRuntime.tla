--------------------------- MODULE MCAgentRuntime ----------------------------
(* Small instances of AgentRuntime: two users who share a group conversation *)
(* and two approvals.                                                        *)
EXTENDS AgentRuntime

CONSTANTS alice, bob, group, other, p1, p2

TwoActors == {alice, bob}
OneActor == {alice}
OneConversation == {group}
TwoConversations == {group, other}
TwoApprovals == {p1, p2}
OneApproval == {p1}
Symmetry == Permutations(TwoActors) \union Permutations(TwoApprovals)
==============================================================================
