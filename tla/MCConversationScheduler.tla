----------------------- MODULE MCConversationScheduler -----------------------
(* A small instance of ConversationScheduler: three calls in flight, so that *)
(* one runs, one is next and one is behind it; two conversations, so that    *)
(* entries of different conversations can be confused.                       *)
EXTENDS ConversationScheduler

CONSTANTS t1, t2, t3, c1, c2, e1, e2, e3

MCTasks == {t1, t2, t3}
MCConversations == {c1, c2}
MCEntries == {e1, e2, e3}
==============================================================================
