---------------------------- MODULE ToolApproval -----------------------------
(***************************************************************************)
(* What the agent promises about one request to run a risky tool, free of  *)
(* graphs, checkpoints and ledgers: it is put to one user in one           *)
(* conversation; it is granted only if that user approved it there, and    *)
(* before it expired; the tool is started at most once, and only after a   *)
(* grant; a request that is refused, forgotten or lost is never started.   *)
(***************************************************************************)
CONSTANTS Requests, Actors, Conversations, None

VARIABLES
    phase,      \* "unasked", "waiting", "granted", "started" or "dropped"
    owner,      \* whom the request was put to: [actor, conv], or None
    votes,      \* approvals heard in time, as <<request, actor, conversation>>
    expired     \* requests whose time is over

vars == <<phase, owner, votes, expired>>

Init ==
    /\ phase = [a \in Requests |-> "unasked"]
    /\ owner = [a \in Requests |-> None]
    /\ votes = {}
    /\ expired = {}

Ask(a, u, c) ==
    /\ phase[a] = "unasked"
    /\ phase' = [phase EXCEPT ![a] = "waiting"]
    /\ owner' = [owner EXCEPT ![a] = [actor |-> u, conv |-> c]]
    /\ UNCHANGED <<votes, expired>>

\* Anyone may say that they approve; it is no vote once the request has expired.
Vote(a, u, c) ==
    /\ phase[a] # "unasked"
    /\ a \notin expired
    /\ votes' = votes \union {<<a, u, c>>}
    /\ UNCHANGED <<phase, owner, expired>>

Grant(a) ==
    /\ phase[a] = "waiting"
    /\ a \notin expired
    /\ <<a, owner[a].actor, owner[a].conv>> \in votes
    /\ phase' = [phase EXCEPT ![a] = "granted"]
    /\ UNCHANGED <<owner, votes, expired>>

StartTool(a) ==
    /\ phase[a] = "granted"
    /\ phase' = [phase EXCEPT ![a] = "started"]
    /\ UNCHANGED <<owner, votes, expired>>

\* Refused, expired, deleted with its conversation, or lost with the process: a crash
\* drops the requests of several conversations at once.
Drop(S) ==
    /\ S # {}
    /\ \A a \in S : phase[a] \in {"waiting", "granted"}
    /\ phase' = [a \in Requests |-> IF a \in S THEN "dropped" ELSE phase[a]]
    /\ UNCHANGED <<owner, votes, expired>>

Expire(a) ==
    /\ phase[a] # "unasked"
    /\ expired' = expired \union {a}
    /\ UNCHANGED <<phase, owner, votes>>

Next ==
    \/ \E a \in Requests :
        \/ \E u \in Actors, c \in Conversations : Ask(a, u, c) \/ Vote(a, u, c)
        \/ Grant(a)
        \/ StartTool(a)
        \/ Expire(a)
    \/ \E S \in SUBSET Requests : Drop(S)

Spec == Init /\ [][Next]_vars
==============================================================================
