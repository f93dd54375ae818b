-------------------------- MODULE ConversationMutex --------------------------
(***************************************************************************)
(* What ConversationScheduler promises its callers, free of locks and of   *)
(* reference counts: the operations of one conversation stand in one line, *)
(* in the order they arrived; only the one at the front runs; an operation *)
(* that is cancelled before it starts leaves the line without running; and *)
(* different conversations do not know of each other.                      *)
(***************************************************************************)
CONSTANTS Tasks, Conversations

VARIABLES
    line,       \* line[c]: the operations that stand in the line of conversation c
    ahead,      \* ahead[t]: those of them that arrived before t
    running     \* the operations that have started and not yet ended

vars == <<line, ahead, running>>

AtFront(t, c) == t \in line[c] /\ ahead[t] = {}

Init ==
    /\ line = [c \in Conversations |-> {}]
    /\ ahead = [t \in Tasks |-> {}]
    /\ running = {}

\* t arrives, behind all that stand there; alone in its line it may start at once.
Enter(t, c) ==
    /\ \A d \in Conversations : t \notin line[d]
    /\ line' = [line EXCEPT ![c] = @ \union {t}]
    /\ ahead' = [ahead EXCEPT ![t] = line[c]]
    /\ \/ UNCHANGED running
       \/ line[c] = {} /\ running' = running \union {t}

Start(t, c) ==
    /\ AtFront(t, c)
    /\ t \notin running
    /\ running' = running \union {t}
    /\ UNCHANGED <<line, ahead>>

\* t is gone, and those behind it move up.
StepOut(t, c) ==
    /\ line' = [line EXCEPT ![c] = @ \ {t}]
    /\ ahead' = [u \in Tasks |-> IF u = t THEN {} ELSE ahead[u] \ {t}]

Leave(t, c) ==
    /\ AtFront(t, c)
    /\ t \in running
    /\ StepOut(t, c)
    /\ running' = running \ {t}

Abandon(t, c) ==
    /\ t \in line[c] \ running
    /\ StepOut(t, c)
    /\ UNCHANGED running

Next ==
    \E t \in Tasks, c \in Conversations :
        Enter(t, c) \/ Start(t, c) \/ Leave(t, c) \/ Abandon(t, c)

Spec == Init /\ [][Next]_vars
==============================================================================
