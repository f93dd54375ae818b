------------------------- MODULE AgentRuntimeProofs --------------------------
(***************************************************************************)
(* AtMostOnce and OnlyRequesterGrants for any number of users,             *)
(* conversations, approvals, calls, crashes and deletions.                 *)
(*                                                                         *)
(* Neither is inductive.  The argument follows an approval through the     *)
(* graph: an approval is mentioned only by the snapshots of the one        *)
(* conversation it was asked in; a decision that approves carries a vote   *)
(* that was heard in time; the approval node passes only the requester's;  *)
(* and once the handler was started no snapshot of that conversation       *)
(* leads to it again, because a thread is resumed only at its approval     *)
(* node and a new message never resumes one at "execute".                  *)
(***************************************************************************)
EXTENDS AgentRuntime, TLAPS

\* The call is inside its graph.
GraphStates == {"step", "handler", "running", "complete", "put"}

\* The requester approved a, in conversation c and in time.  A is asked, V is votes.
Granted(c, a, A, V) ==
    /\ a \in ApprovalIds
    /\ A[a] # None
    /\ A[a].conv = c
    /\ <<a, A[a].actor, A[a].conv>> \in V

SnapshotOK(c, s, A, V) ==
    /\ s.next # "approval" => s.approval = None
    /\ s.next = "approval" =>
        /\ s.approval \in PendingApproval
        /\ s.approval.conv = c
        /\ A[s.approval.id] = [actor |-> s.approval.actor, conv |-> c]
        /\ s.tool = [risk |-> "risky", id |-> s.approval.id]
    /\ s.next = "execute" /\ s.tool.risk = "risky" => Granted(c, s.tool.id, A, V)

\* The call r of conversation c, whose thread is at t.  X is expired.
RunOK(c, r, t, A, V, X) ==
    /\ r.pc \in GraphStates =>
        r.at \in Snapshot /\ SnapshotOK(c, r.at, A, V) /\ t \in {None, r.at}
    /\ r.pc \notin GraphStates => r.at = None /\ r.decision = None
    /\ r.pc \in GraphStates \ {"step"} => r.at.next = "execute" /\ r.at.tool.risk = "risky"
    /\ r.pc \in {"complete", "put"} => r.result \in Codes
    /\ r.pc = "step" /\ r.decision # None /\ r.decision.approved =>
            <<r.decision.id, r.decision.actor, r.decision.conv>> \in V
    /\ r.pc = "decide" => t = None \/ t.approval = r.seen
    /\ /\ r.pc \in {"read", "decide"} /\ r.call.op = "approve"
       /\ t # None /\ t.approval # None /\ t.approval.id = r.call.id
       => r.call.id \in X \/ <<r.call.id, r.call.actor, c>> \in V

ConversationOK(c) ==
    /\ cp[c] # None => SnapshotOK(c, cp[c], asked, votes)
    /\ run[c] # None => RunOK(c, run[c], cp[c], asked, votes, expired)

\* The snapshot s may still lead to the handler of a.
LeadsTo(s, a) ==
    \/ s.next = "approval" /\ s.approval.id = a
    \/ s.next = "execute" /\ s.tool.risk = "risky" /\ s.tool.id = a

\* Nothing in conversation c leads to the handler of a.
Closed(c, a) ==
    /\ cp[c] # None /\ cp[c].next = "approval" => cp[c].approval.id # a
    /\ run[c] # None /\ run[c].pc \in {"step", "handler"} => ~LeadsTo(run[c].at, a)

\* A started handler: it was granted, it was started once, and nothing leads to it.
StartedOK(a) ==
    runs[a] > 0 =>
        /\ runs[a] = 1
        /\ asked[a] # None
        /\ Granted(asked[a].conv, a, asked, votes)
        /\ \A c \in Conversations : Closed(c, a)

IInv ==
    /\ TypeOK
    /\ \A c \in Conversations : ConversationOK(c)
    /\ \A a \in ApprovalIds : StartedOK(a)

------------------------------------------------------------------------------
(* What was asked, voted or expired stays so, and with it what was granted. *)

Grows ==
    /\ \A a \in ApprovalIds : asked[a] # None => asked'[a] = asked[a]
    /\ votes \subseteq votes'
    /\ expired \subseteq expired'

LEMMA SnapshotStays ==
    ASSUME NEW A, NEW B, NEW V, NEW W, V \subseteq W,
           \A a \in ApprovalIds : A[a] # None => B[a] = A[a],
           NEW c \in Conversations, NEW s \in Snapshot, SnapshotOK(c, s, A, V)
    PROVE  SnapshotOK(c, s, B, W)
<1>1. CASE s.next = "approval"
  <2>1. s.approval \in PendingApproval
    BY <1>1 DEF SnapshotOK, Snapshot
  <2>2. [actor |-> s.approval.actor, conv |-> c] # None
    BY <2>1, NoneAssumption DEF PendingApproval
  <2> QED
    BY <1>1, <2>1, <2>2 DEF SnapshotOK, PendingApproval
<1>2. CASE s.next = "execute"
  BY <1>2 DEF SnapshotOK, Granted
<1>3. CASE s.next \notin {"approval", "execute"}
  BY <1>3 DEF SnapshotOK
<1> QED
  BY <1>1, <1>2, <1>3

LEMMA RunStays ==
    ASSUME NEW A, NEW B, NEW V, NEW W, NEW X, NEW Y, V \subseteq W, X \subseteq Y,
           \A a \in ApprovalIds : A[a] # None => B[a] = A[a],
           NEW c \in Conversations, NEW r \in Run, NEW t, RunOK(c, r, t, A, V, X)
    PROVE  RunOK(c, r, t, B, W, Y)
<1>1. r.pc \in GraphStates => r.at \in Snapshot /\ SnapshotOK(c, r.at, B, W)
  BY SnapshotStays DEF RunOK
<1> QED
  BY <1>1 DEF RunOK

LEMMA ConversationStays ==
    ASSUME TypeOK, Grows, NEW c \in Conversations, ConversationOK(c),
           cp'[c] \in {None, cp[c]}, run'[c] \in {None, run[c]}
    PROVE  ConversationOK(c)'
<1>1. cp'[c] # None => SnapshotOK(c, cp'[c], asked', votes')
  <2> SUFFICES ASSUME cp'[c] # None PROVE SnapshotOK(c, cp'[c], asked', votes')
    OBVIOUS
  <2>1. cp'[c] = cp[c] /\ cp[c] \in Snapshot /\ SnapshotOK(c, cp[c], asked, votes)
    BY DEF TypeOK, ConversationOK
  <2>2. SnapshotOK(c, cp[c], asked', votes')
    BY <2>1, SnapshotStays DEF Grows
  <2> QED
    BY <2>1, <2>2
<1>2. run'[c] # None => RunOK(c, run'[c], cp'[c], asked', votes', expired')
  <2> SUFFICES ASSUME run'[c] # None
               PROVE  RunOK(c, run'[c], cp'[c], asked', votes', expired')
    OBVIOUS
  <2>1. run'[c] = run[c] /\ run[c] \in Run /\ RunOK(c, run[c], cp[c], asked, votes, expired)
    BY DEF TypeOK, ConversationOK
  <2>2. RunOK(c, run[c], cp[c], asked', votes', expired')
    BY <2>1, RunStays DEF Grows
  <2>3. RunOK(c, run[c], cp'[c], asked', votes', expired')
    BY <2>2 DEF RunOK
  <2> QED
    BY <2>1, <2>3
<1> QED
  BY <1>1, <1>2 DEF ConversationOK

\* A step of conversation c that starts no handler: what remains to be shown is about c.
LEMMA OneConversationSteps ==
    ASSUME IInv, NEW c \in Conversations, TypeOK', Grows, runs' = runs,
           \A d \in Conversations \ {c} : cp'[d] = cp[d] /\ run'[d] = run[d],
           ConversationOK(c)',
           \A a \in ApprovalIds : runs[a] > 0 => Closed(c, a)'
    PROVE  IInv'
<1>1. ASSUME NEW d \in Conversations PROVE ConversationOK(d)'
  BY ConversationStays DEF IInv
<1>2. ASSUME NEW a \in ApprovalIds PROVE StartedOK(a)'
  <2> SUFFICES ASSUME runs[a] > 0
               PROVE  /\ runs[a] = 1 /\ asked'[a] # None
                      /\ Granted(asked'[a].conv, a, asked', votes')
                      /\ \A d \in Conversations : Closed(d, a)'
    BY DEF StartedOK
  <2>1. StartedOK(a)
    BY DEF IInv
  <2>2. asked'[a] = asked[a] /\ votes \subseteq votes'
    BY <2>1 DEF StartedOK, Grows
  <2>3. \A d \in Conversations \ {c} : Closed(d, a)'
    BY <2>1 DEF StartedOK, Closed
  <2> QED
    BY <2>1, <2>2, <2>3 DEF StartedOK, Granted
<1> QED
  BY <1>1, <1>2 DEF IInv

\* TypeOK of what is neither a thread nor a run.
RestTyped ==
    /\ ledger \in [ApprovalIds -> Row \union {None}]
    /\ deleting \subseteq Conversations
    /\ expired \subseteq ApprovalIds
    /\ asked \in [ApprovalIds -> [actor : Actors, conv : Conversations] \union {None}]
    /\ votes \subseteq ApprovalIds \X Actors \X Conversations
    /\ forgotten \subseteq ApprovalIds
    /\ broken \subseteq Conversations
    /\ cleared \subseteq Conversations
    /\ used \in [{"calls", "aborts", "deletes"} -> Nat]

\* A step that leaves the thread of c at t and its call at r.
LEMMA ThreadAndCall ==
    ASSUME IInv, NEW c \in Conversations, RestTyped', Grows, runs' = runs,
           NEW t \in Snapshot \union {None}, NEW r \in Run \union {None},
           cp' = [cp EXCEPT ![c] = t], run' = [run EXCEPT ![c] = r],
           t # None => SnapshotOK(c, t, asked', votes'),
           r # None => RunOK(c, r, t, asked', votes', expired'),
           \A a \in ApprovalIds : runs[a] > 0 =>
                /\ t # None /\ t.next = "approval" => t.approval.id # a
                /\ r # None /\ r.pc \in {"step", "handler"} => ~LeadsTo(r.at, a)
    PROVE  IInv'
<1>1. cp'[c] = t /\ run'[c] = r
  BY DEF IInv, TypeOK
<1>2. \A d \in Conversations \ {c} : cp'[d] = cp[d] /\ run'[d] = run[d]
  BY DEF IInv, TypeOK
<1>3. TypeOK'
  BY DEF IInv, TypeOK, RestTyped
<1>4. ConversationOK(c)'
  BY <1>1 DEF ConversationOK
<1>5. \A a \in ApprovalIds : runs[a] > 0 => Closed(c, a)'
  BY <1>1 DEF Closed
<1> QED
  BY <1>2, <1>3, <1>4, <1>5, OneConversationSteps

\* What the invariant says of a call inside its graph.
LEMMA InGraph ==
    ASSUME IInv, NEW c \in Conversations, run[c] # None, run[c].pc \in GraphStates
    PROVE  /\ run[c] \in Run
           /\ run[c].at \in Snapshot
           /\ SnapshotOK(c, run[c].at, asked, votes)
           /\ cp[c] \in {None, run[c].at}
           /\ run[c].pc # "step" =>
                /\ run[c].at.next = "execute"
                /\ run[c].at.tool.risk = "risky"
                /\ Granted(c, run[c].at.tool.id, asked, votes)
           /\ run[c].pc \in {"step", "handler"} =>
                \A a \in ApprovalIds : runs[a] > 0 => ~LeadsTo(run[c].at, a)
           /\ \A a \in ApprovalIds : runs[a] > 0 => Closed(c, a)
<1>1. ConversationOK(c) /\ run[c] \in Run
  BY DEF IInv, TypeOK
<1>2. \A a \in ApprovalIds : runs[a] > 0 => Closed(c, a)
  BY DEF IInv, StartedOK
<1> QED
  BY <1>1, <1>2 DEF ConversationOK, RunOK, Closed, SnapshotOK, GraphStates

LEMMA UnusedTyped ==
    ASSUME NEW k \in {"calls", "aborts", "deletes"}, NEW bound, TypeOK, Unused(k, bound)
    PROVE  used' \in [{"calls", "aborts", "deletes"} -> Nat]
BY DEF Unused, TypeOK

\* The call q after a node that ended at s, as Advance writes it.
GoesOn(q, s, n) ==
    [q EXCEPT !.pc = "step", !.at = s, !.decision = None, !.steps = n, !.result = None]

LEMMA RunGoesOn ==
    ASSUME NEW q \in Run, NEW s \in Snapshot, NEW n \in Nat
    PROVE  /\ GoesOn(q, s, n) \in Run
           /\ GoesOn(q, s, n).pc = "step"
           /\ GoesOn(q, s, n).at = s
           /\ GoesOn(q, s, n).decision = None
<1>1. GoesOn(q, s, n) \in Run
  BY DEF Run, GoesOn
<1> QED
  BY <1>1 DEF Run, GoesOn

\* A node that ends at s.
LEMMA Advances ==
    ASSUME IInv, NEW c \in Conversations, RestTyped', Grows, runs' = runs,
           run[c] # None, run[c].pc \in GraphStates,
           NEW s \in Snapshot, Advance(c, s), SnapshotOK(c, s, asked', votes'),
           \A a \in ApprovalIds : runs[a] > 0 => ~LeadsTo(s, a)
    PROVE  IInv'
<1> DEFINE n == run[c].steps + 1
           r == GoesOn(run[c], s, n)
<1>1. run[c] \in Run /\ n \in Nat
  BY InGraph DEF Run
<1>2. r \in Run /\ r.pc = "step" /\ r.at = s /\ r.decision = None
  <2> HIDE DEF n
  <2> QED
    BY <1>1, RunGoesOn
<1>3. RunOK(c, r, s, asked', votes', expired')
  <2> HIDE DEF r
  <2> QED
    BY <1>2 DEF RunOK, GraphStates
<1>4. \A a \in ApprovalIds : runs[a] > 0 /\ s.next = "approval" => s.approval.id # a
  BY DEF LeadsTo
<1>5. cp' = [cp EXCEPT ![c] = s]
  BY DEF Advance
<1>6. CASE s.next = "end"
  <2>1. run' = [run EXCEPT ![c] = None]
    BY <1>6 DEF Advance, CallBecomes
  <2> QED
    BY <2>1, <1>4, <1>5, ThreadAndCall
<1>7. CASE s.next # "end"
  <2>1. run' = [run EXCEPT ![c] = r]
    BY <1>7 DEF Advance, CallBecomes, GoesOn
  <2> HIDE DEF r
  <2>2. \A a \in ApprovalIds : runs[a] > 0 =>
            /\ s # None /\ s.next = "approval" => s.approval.id # a
            /\ r # None /\ r.pc \in {"step", "handler"} => ~LeadsTo(r.at, a)
    BY <1>2, <1>4
  <2>3. PICK q : q = r
    OBVIOUS
  <2>4. q \in Run /\ run' = [run EXCEPT ![c] = q] /\ RunOK(c, q, s, asked', votes', expired')
    BY <2>1, <2>3, <1>2, <1>3
  <2>5. \A a \in ApprovalIds : runs[a] > 0 =>
            /\ s # None /\ s.next = "approval" => s.approval.id # a
            /\ q # None /\ q.pc \in {"step", "handler"} => ~LeadsTo(q.at, a)
    BY <2>2, <2>3
  <2> QED
    BY <2>4, <2>5, <1>5, ThreadAndCall
<1> QED
  BY <1>6, <1>7

\* A step of c's call that leaves its thread alone; r is None when the call is over.
LEMMA CallMoves ==
    ASSUME IInv, NEW c \in Conversations, RestTyped', Grows, runs' = runs, cp' = cp,
           NEW r \in Run \union {None}, CallBecomes(c, r),
           r # None => RunOK(c, r, cp[c], asked', votes', expired'),
           \A a \in ApprovalIds :
                runs[a] > 0 /\ r # None /\ r.pc \in {"step", "handler"} => ~LeadsTo(r.at, a)
    PROVE  IInv'
<1>1. PICK t \in Snapshot \union {None} : t = cp[c] /\ cp' = [cp EXCEPT ![c] = t]
  BY DEF IInv, TypeOK
<1>2. t # None => SnapshotOK(c, t, asked', votes')
  <2>1. t # None => SnapshotOK(c, t, asked, votes)
    BY <1>1 DEF IInv, ConversationOK
  <2> QED
    BY <2>1, SnapshotStays DEF Grows
<1>3. \A a \in ApprovalIds :
            runs[a] > 0 /\ t # None /\ t.next = "approval" => t.approval.id # a
  BY <1>1 DEF IInv, StartedOK, Closed
<1>4. run' = [run EXCEPT ![c] = r]
  BY DEF CallBecomes
<1>5. r # None => RunOK(c, r, t, asked', votes', expired')
  BY <1>1
<1> QED
  BY <1>1, <1>2, <1>3, <1>4, <1>5, ThreadAndCall

LEMMA CallEnds ==
    ASSUME IInv, NEW c \in Conversations, RestTyped', Grows, runs' = runs, cp' = cp,
           Release(c)
    PROVE  IInv'
BY CallMoves DEF Release

LEMMA AllUnchanged ==
    ASSUME TypeOK, UNCHANGED <<ledger, deleting, expired, history>>
    PROVE  RestTyped' /\ Grows /\ runs' = runs
BY DEF TypeOK, RestTyped, Grows, history

LEMMA AnsweredTyped ==
    ASSUME NEW s \in Snapshot, NEW code \in Codes, NEW i \in ApprovalIds \union {None}
    PROVE  /\ Answered(s, code, i) \in Snapshot
           /\ Answered(s, code, i).next = "model"
           /\ Answered(s, code, i).approval = None
<1>1. Tool(code, i) \in Message
  BY DEF Tool, Message
<1>2. s.msgs \in Seq(Message)
  BY DEF Snapshot
<1>3. Append(s.msgs, Tool(code, i)) \in Seq(Message)
  BY <1>1, <1>2
<1> QED
  BY <1>3 DEF Answered, Snapshot

\* A node that answers the pending call.
LEMMA Answers ==
    ASSUME IInv, NEW c \in Conversations, RestTyped', Grows, runs' = runs,
           run[c] # None, run[c].pc \in GraphStates,
           NEW code \in Codes, NEW i \in ApprovalIds \union {None},
           Advance(c, Answered(run[c].at, code, i))
    PROVE  IInv'
<1>1. PICK s : s = Answered(run[c].at, code, i)
  OBVIOUS
<1>2. s \in Snapshot /\ s.next = "model" /\ s.approval = None
  BY <1>1, InGraph, AnsweredTyped
<1>3. SnapshotOK(c, s, asked', votes')
  BY <1>2 DEF SnapshotOK
<1>4. \A a \in ApprovalIds : ~LeadsTo(s, a)
  BY <1>2 DEF LeadsTo
<1>5. Advance(c, s)
  BY <1>1
<1> QED
  BY <1>2, <1>3, <1>4, <1>5, Advances

------------------------------------------------------------------------------
(* Every action keeps the invariant. *)

LEMMA ReceiveKeeps ==
    ASSUME IInv, NEW c \in Conversations, NEW call \in Calls, Receive(c, call)
    PROVE  IInv'
<1>1. PICK r : r = [pc |-> IF call.op = "reset" THEN "reset" ELSE "read", call |-> call,
                    seen |-> None, at |-> None, decision |-> None, steps |-> 0,
                    result |-> None]
  OBVIOUS
<1>2. call \in Call
  BY DEF Calls, Call
<1>3. r \in Run
  BY <1>1, <1>2 DEF Run
<1>4. CallBecomes(c, r)
  BY <1>1 DEF Receive
<1>5. r.pc \in {"read", "reset"} /\ r.call = call /\ r.at = None /\ r.decision = None
  BY <1>1
<1>6. call.op = "approve" /\ asked[call.id] # None
        => call.id \in expired' \/ <<call.id, call.actor, c>> \in votes'
  BY DEF Receive
<1>7. cp[c] # None /\ cp[c].approval # None => asked[cp[c].approval.id] # None
  <2>1. ConversationOK(c) /\ cp[c] \in Snapshot \union {None}
    BY DEF IInv, TypeOK
  <2> SUFFICES ASSUME cp[c] # None, cp[c].approval # None
               PROVE  asked[cp[c].approval.id] # None
    OBVIOUS
  <2>2. cp[c].approval \in PendingApproval
    BY <2>1 DEF Snapshot
  <2>3. asked[cp[c].approval.id] = [actor |-> cp[c].approval.actor, conv |-> c]
    BY <2>1 DEF ConversationOK, SnapshotOK
  <2>4. cp[c].approval.actor \in Actors
    BY <2>2 DEF PendingApproval
  <2> QED
    BY <2>3, <2>4, NoneAssumption
<1>8. RunOK(c, r, cp[c], asked', votes', expired')
  BY <1>5, <1>6, <1>7 DEF RunOK, GraphStates
<1>9. RestTyped' /\ Grows /\ runs' = runs /\ cp' = cp
  <2>1. call.op = "approve" => call.id \in ApprovalIds /\ call.actor \in Actors
    BY DEF Calls
  <2>2. votes' \subseteq ApprovalIds \X Actors \X Conversations /\ votes \subseteq votes'
    BY <2>1 DEF Receive, IInv, TypeOK
  <2>3. used' \in [{"calls", "aborts", "deletes"} -> Nat]
    BY UnusedTyped DEF Receive, IInv
  <2> QED
    BY <2>2, <2>3 DEF Receive, IInv, TypeOK, RestTyped, Grows
<1> QED
  BY <1>3, <1>4, <1>5, <1>8, <1>9, CallMoves

LEMMA ReadPendingKeeps ==
    ASSUME IInv, NEW c \in Conversations, ReadPending(c)
    PROVE  IInv'
<1>1. PICK r : r = [run[c] EXCEPT !.pc = "decide",
                                  !.seen = IF cp[c] = None THEN None ELSE cp[c].approval]
  OBVIOUS
<1>2. run[c] \in Run /\ run[c].pc = "read" /\ ConversationOK(c) /\ run[c] # None
  BY DEF IInv, TypeOK, ReadPending, At
<1>3. (IF cp[c] = None THEN None ELSE cp[c].approval) \in PendingApproval \union {None}
  BY DEF IInv, TypeOK, Snapshot
<1>4. r \in Run
  BY <1>1, <1>2, <1>3 DEF Run
<1>5. /\ r.pc = "decide" /\ r.call = run[c].call /\ r.at = run[c].at
      /\ r.decision = run[c].decision
      /\ r.seen = IF cp[c] = None THEN None ELSE cp[c].approval
  BY <1>1, <1>2 DEF Run
<1>6. RunOK(c, r, cp[c], asked, votes, expired)
  BY <1>2, <1>5 DEF ConversationOK, RunOK, GraphStates
<1>7. RestTyped' /\ Grows /\ runs' = runs /\ cp' = cp
  BY AllUnchanged DEF ReadPending, IInv, history
<1>8. RunOK(c, r, cp[c], asked', votes', expired') /\ CallBecomes(c, r)
  BY <1>1, <1>6 DEF ReadPending, history
<1> QED
  BY <1>4, <1>5, <1>7, <1>8, CallMoves

LEMMA DeclineKeeps ==
    ASSUME IInv, NEW c \in Conversations, Decline(c)
    PROVE  IInv'
BY CallEnds, AllUnchanged DEF Decline, IInv

LEMMA StartGraphKeeps ==
    ASSUME IInv, NEW c \in Conversations, StartGraph(c)
    PROVE  IInv'
<1>1. PICK s : s = IF cp[c] = None
                   THEN [msgs |-> <<Human>>, actor |-> run[c].call.actor, tool |-> None,
                         approval |-> None, next |-> "model"]
                   ELSE [cp[c] EXCEPT !.msgs = Append(@, Human), !.actor = run[c].call.actor,
                                      !.next = "model"]
  OBVIOUS
<1>2. run[c] \in Run /\ run[c].pc = "decide" /\ run[c].seen = None /\ ConversationOK(c)
      /\ run[c] # None
  BY DEF IInv, TypeOK, StartGraph, At
<1>3. cp[c] # None => cp[c] \in Snapshot /\ cp[c].approval = None
  BY <1>2 DEF ConversationOK, RunOK, IInv, TypeOK
<1>4. Human \in Message /\ run[c].call.actor \in Actors
  BY <1>2 DEF Human, Message, Run, Call, AllCallKinds
<1>5. s \in Snapshot /\ s.next = "model" /\ s.approval = None
  <2>1. CASE cp[c] = None
    BY <2>1, <1>1, <1>4 DEF Snapshot
  <2>2. CASE cp[c] # None
    <3>1. Append(cp[c].msgs, Human) \in Seq(Message)
      BY <2>2, <1>3, <1>4 DEF Snapshot
    <3> QED
      BY <2>2, <3>1, <1>1, <1>3, <1>4 DEF Snapshot
  <2> QED
    BY <2>1, <2>2
<1>6. PICK r : r = [run[c] EXCEPT !.pc = "step", !.at = s]
  OBVIOUS
<1>7. r \in Run /\ r.pc = "step" /\ r.at = s /\ r.decision = run[c].decision
  BY <1>2, <1>5, <1>6 DEF Run
<1>8. run' = [run EXCEPT ![c] = r] /\ cp' = [cp EXCEPT ![c] = s]
  BY <1>1, <1>6 DEF StartGraph, CallBecomes
<1>9. SnapshotOK(c, s, asked', votes')
  BY <1>5 DEF SnapshotOK
<1>10. RunOK(c, r, s, asked', votes', expired')
  <2>1. run[c].decision = None
    BY <1>2 DEF ConversationOK, RunOK, GraphStates
  <2> QED
    BY <2>1, <1>5, <1>7, <1>9 DEF RunOK, GraphStates
<1>11. RestTyped' /\ Grows /\ runs' = runs
  BY AllUnchanged DEF StartGraph, IInv
<1>12. \A a \in ApprovalIds : ~LeadsTo(r.at, a) /\ ~LeadsTo(s, a)
  BY <1>5, <1>7 DEF LeadsTo
<1> QED
  BY <1>5, <1>7, <1>8, <1>9, <1>10, <1>11, <1>12, ThreadAndCall

LEMMA ResumeGraphKeeps ==
    ASSUME IInv, NEW c \in Conversations, ResumeGraph(c)
    PROVE  IInv'
<1>1. PICK d : d = [id |-> run[c].seen.id, actor |-> run[c].call.actor, conv |-> c,
                    approved |-> run[c].call.op = "approve" /\ run[c].seen.id \notin expired]
  OBVIOUS
<1>2. run[c] \in Run /\ run[c].pc = "decide" /\ ConversationOK(c) /\ run[c] # None
  BY DEF IInv, TypeOK, ResumeGraph, At
<1>3. RestTyped' /\ Grows /\ runs' = runs /\ cp' = cp
  BY DEF ResumeGraph, IInv, TypeOK, RestTyped, Grows, GiveUp
<1>4. CASE Release(c)
  BY <1>3, <1>4, CallEnds
<1>5. CASE cp[c] # None /\ CallBecomes(c, [run[c] EXCEPT !.pc = "step", !.at = cp[c],
                                                        !.decision = d])
  <2>1. run[c].seen \in PendingApproval
    BY <1>2 DEF ResumeGraph, MaySettle, Run
  <2>2. d \in Decision
    BY <1>1, <1>2, <2>1 DEF Decision, PendingApproval, Run, Call
  <2>3. PICK r : r = [run[c] EXCEPT !.pc = "step", !.at = cp[c], !.decision = d]
    OBVIOUS
  <2>4. cp[c] \in Snapshot /\ SnapshotOK(c, cp[c], asked, votes)
        /\ cp[c].approval = run[c].seen
    BY <1>2, <1>5 DEF IInv, TypeOK, ConversationOK, RunOK
  <2>5. r \in Run /\ r.pc = "step" /\ r.at = cp[c] /\ r.decision = d
    BY <1>2, <2>2, <2>3, <2>4 DEF Run
  <2>6. d.approved => <<d.id, d.actor, d.conv>> \in votes
    <3> SUFFICES ASSUME d.approved PROVE <<d.id, d.actor, d.conv>> \in votes
      OBVIOUS
    <3>1. run[c].call.op = "approve" /\ run[c].seen.id \notin expired
      BY <1>1
    <3>2. run[c].call.id = run[c].seen.id
      BY <3>1 DEF ResumeGraph, MaySettle
    <3>3. run[c].seen # None
      BY <2>1, <2>4, <1>2 DEF ResumeGraph, MaySettle
    <3>4. run[c].call.id \in expired \/ <<run[c].call.id, run[c].call.actor, c>> \in votes
      BY <1>2, <1>5, <2>4, <3>1, <3>2, <3>3 DEF ConversationOK, RunOK
    <3> QED
      BY <1>1, <3>1, <3>2, <3>4
  <2>7. RunOK(c, r, cp[c], asked', votes', expired')
    <3>1. RunOK(c, r, cp[c], asked, votes, expired)
      BY <2>4, <2>5, <2>6 DEF RunOK, GraphStates
    <3> QED
      BY <2>5, <3>1, <1>3, RunStays DEF Grows
  <2>8. \A a \in ApprovalIds : runs[a] > 0 => ~LeadsTo(cp[c], a)
    <3>1. run[c].seen # None
      BY DEF ResumeGraph, MaySettle
    <3>2. cp[c].next = "approval"
      BY <2>4, <3>1 DEF SnapshotOK
    <3> QED
      BY <1>5, <3>2 DEF IInv, StartedOK, Closed, LeadsTo
  <2> QED
    BY <1>3, <1>5, <2>3, <2>5, <2>7, <2>8, CallMoves
<1> QED
  BY <1>1, <1>4, <1>5 DEF ResumeGraph, GiveUp

LEMMA CallModelKeeps ==
    ASSUME IInv, NEW c \in Conversations, NEW k \in CallKinds, CallModel(c, k)
    PROVE  IInv'
<1>1. PICK s : s = [run[c].at EXCEPT !.msgs = Append(@, AI(k)),
                                     !.next = IF k = "text" THEN "end" ELSE "guard"]
  OBVIOUS
<1>2. run[c] # None /\ run[c].pc \in GraphStates /\ run[c].at.next = "model"
  BY DEF CallModel, AtNode, At, GraphStates
<1>3. run[c].at \in Snapshot /\ run[c].at.approval = None
  BY <1>2, InGraph DEF SnapshotOK
<1>4. AI(k) \in Message
  BY CallKindsAssumption DEF AI, Message
<1>5. Append(run[c].at.msgs, AI(k)) \in Seq(Message)
  BY <1>3, <1>4 DEF Snapshot
<1>6. s \in Snapshot /\ s.next \in {"end", "guard"} /\ s.approval = None
  BY <1>1, <1>3, <1>5 DEF Snapshot
<1>7. SnapshotOK(c, s, asked', votes') /\ \A a \in ApprovalIds : ~LeadsTo(s, a)
  BY <1>6 DEF SnapshotOK, LeadsTo
<1>8. RestTyped' /\ Grows /\ runs' = runs
  BY AllUnchanged DEF CallModel, IInv
<1>9. Advance(c, s)
  BY <1>1 DEF CallModel
<1> QED
  BY <1>2, <1>6, <1>7, <1>8, <1>9, Advances

LEMMA GuardRefusesKeeps ==
    ASSUME IInv, NEW c \in Conversations, GuardRefuses(c)
    PROVE  IInv'
<1>1. run[c] # None /\ run[c].pc \in GraphStates
  BY DEF GuardRefuses, AtNode, At, GraphStates
<1>2. RestTyped' /\ Grows /\ runs' = runs
  BY AllUnchanged DEF GuardRefuses, IInv
<1>3. Advance(c, Answered(run[c].at, "invalid_arguments", None))
  BY DEF GuardRefuses
<1> QED
  BY <1>1, <1>2, <1>3, Answers DEF Codes

LEMMA GuardPassesKeeps ==
    ASSUME IInv, NEW c \in Conversations, GuardPasses(c)
    PROVE  IInv'
<1>1. PICK s : s = [run[c].at EXCEPT !.tool = [risk |-> "safe", id |-> None],
                                     !.approval = None, !.next = "execute"]
  OBVIOUS
<1>2. run[c] # None /\ run[c].pc \in GraphStates
  BY DEF GuardPasses, AtNode, At, GraphStates
<1>3. run[c].at \in Snapshot
  BY <1>2, InGraph
<1>4. [risk |-> "safe", id |-> None] \in PendingTool
  BY DEF PendingTool
<1>5. s \in Snapshot /\ s.next = "execute" /\ s.approval = None
      /\ s.tool = [risk |-> "safe", id |-> None]
  BY <1>1, <1>3, <1>4 DEF Snapshot
<1>6. SnapshotOK(c, s, asked', votes') /\ \A a \in ApprovalIds : ~LeadsTo(s, a)
  BY <1>5 DEF SnapshotOK, LeadsTo
<1>7. RestTyped' /\ Grows /\ runs' = runs
  BY AllUnchanged DEF GuardPasses, IInv
<1>8. Advance(c, s)
  BY <1>1 DEF GuardPasses
<1> QED
  BY <1>2, <1>5, <1>6, <1>7, <1>8, Advances

LEMMA GuardAsksKeeps ==
    ASSUME IInv, NEW c \in Conversations, NEW a \in ApprovalIds, GuardAsks(c, a)
    PROVE  IInv'
<1>1. PICK p : p = [id |-> a, actor |-> run[c].at.actor, conv |-> c]
  OBVIOUS
<1>2. PICK s : s = [run[c].at EXCEPT !.tool = [risk |-> "risky", id |-> a],
                                     !.approval = p, !.next = "approval"]
  OBVIOUS
<1>3. run[c] # None /\ run[c].pc \in GraphStates
  BY DEF GuardAsks, AtNode, At, GraphStates
<1>4. run[c].at \in Snapshot /\ run[c].at.actor \in Actors
  BY <1>3, InGraph DEF Snapshot
<1>5. p \in PendingApproval /\ [risk |-> "risky", id |-> a] \in PendingTool
  BY <1>1, <1>4 DEF PendingTool, PendingApproval
<1>6. s \in Snapshot /\ s.next = "approval" /\ s.approval = p
      /\ s.tool = [risk |-> "risky", id |-> a]
  BY <1>2, <1>4, <1>5 DEF Snapshot
<1>7. asked' = [asked EXCEPT ![a] = [actor |-> p.actor, conv |-> c]]
      /\ p.id = a /\ p.conv = c /\ p.actor \in Actors
  BY <1>1, <1>4 DEF GuardAsks
<1>8. SnapshotOK(c, s, asked', votes')
  <2>1. asked'[a] = [actor |-> p.actor, conv |-> c]
    BY <1>7 DEF IInv, TypeOK
  <2> QED
    BY <1>5, <1>6, <1>7, <2>1 DEF SnapshotOK
<1>9. RestTyped' /\ Grows /\ runs' = runs
  <2>1. [actor |-> p.actor, conv |-> c] \in [actor : Actors, conv : Conversations]
    BY <1>7
  <2>2. asked' \in [ApprovalIds -> [actor : Actors, conv : Conversations] \union {None}]
    BY <1>7, <2>1 DEF IInv, TypeOK
  <2>3. \A b \in ApprovalIds : asked[b] # None => asked'[b] = asked[b]
    BY <1>7 DEF GuardAsks, IInv, TypeOK
  <2> QED
    BY <2>2, <2>3 DEF GuardAsks, IInv, TypeOK, RestTyped, Grows
<1>10. \A b \in ApprovalIds : runs[b] > 0 => ~LeadsTo(s, b)
  BY <1>6, <1>7 DEF LeadsTo, GuardAsks, IInv, StartedOK
<1>11. Advance(c, s)
  BY <1>1, <1>2 DEF GuardAsks
<1> QED
  BY <1>3, <1>6, <1>8, <1>9, <1>10, <1>11, Advances

LEMMA InterruptKeeps ==
    ASSUME IInv, NEW c \in Conversations, Interrupt(c)
    PROVE  IInv'
BY CallEnds, AllUnchanged DEF Interrupt, IInv

LEMMA AwaitApprovalKeeps ==
    ASSUME IInv, NEW c \in Conversations, AwaitApproval(c)
    PROVE  IInv'
<1> DEFINE p == run[c].at.approval
           d == run[c].decision
<1>1. run[c] # None /\ run[c].pc = "step" /\ d # None /\ run[c].at.next = "approval"
  BY DEF AwaitApproval, AtNode, At
<1>2. run[c].at \in Snapshot /\ SnapshotOK(c, run[c].at, asked, votes)
  BY <1>1, InGraph DEF GraphStates
<1>3. RestTyped' /\ Grows /\ runs' = runs
  BY AllUnchanged DEF AwaitApproval, IInv
<1>4. CASE Passes(d, p)
  <2>1. PICK s : s = [run[c].at EXCEPT !.approval = None, !.next = "execute"]
    OBVIOUS
  <2>2. s \in Snapshot /\ s.next = "execute" /\ s.approval = None /\ s.tool = run[c].at.tool
    BY <1>2, <2>1 DEF Snapshot
  <2>3. s.tool.id = p.id /\ p.id \in ApprovalIds
    BY <1>1, <1>2, <2>2 DEF SnapshotOK, PendingApproval
  <2>4. <<d.id, d.actor, d.conv>> \in votes
    BY <1>1, <1>4 DEF IInv, ConversationOK, RunOK, Passes
  <2>5. asked[p.id] = [actor |-> p.actor, conv |-> c] /\ p.conv = c
    BY <1>1, <1>2 DEF SnapshotOK
  <2>6. asked[p.id] # None
    <3>1. p.actor \in Actors
      BY <1>1, <1>2 DEF SnapshotOK, PendingApproval
    <3> QED
      BY <2>5, <3>1, NoneAssumption
  <2>7. Granted(c, s.tool.id, asked, votes)
    BY <1>4, <2>3, <2>4, <2>5, <2>6 DEF Granted, Passes, ValidIdentity
  <2>8. SnapshotOK(c, s, asked', votes')
    <3>1. SnapshotOK(c, s, asked, votes)
      BY <2>2, <2>7 DEF SnapshotOK
    <3> QED
      BY <2>2, <3>1, <1>3, SnapshotStays DEF Grows
  <2>9. \A a \in ApprovalIds : runs[a] > 0 => ~LeadsTo(s, a)
    <3>1. \A a \in ApprovalIds : runs[a] > 0 => p.id # a
      BY <1>1, InGraph DEF LeadsTo, GraphStates
    <3> QED
      BY <2>2, <2>3, <3>1 DEF LeadsTo
  <2>10. Advance(c, s)
    BY <1>4, <2>1 DEF AwaitApproval
  <2> QED
    BY <1>1, <1>3, <2>2, <2>8, <2>9, <2>10, Advances DEF GraphStates
<1>5. CASE ~Passes(d, p)
  <2>1. PICK code \in RefusalCodes : Advance(c, Answered(run[c].at, code, p.id))
    BY <1>5 DEF AwaitApproval, RefusalCodes
  <2>2. p.id \in ApprovalIds
    BY <1>1, <1>2 DEF SnapshotOK, PendingApproval
  <2>3. code \in Codes
    BY DEF Codes
  <2> HIDE DEF p
  <2> QED
    BY <1>1, <1>3, <2>1, <2>2, <2>3, Answers DEF GraphStates
<1> QED
  BY <1>4, <1>5

LEMMA ExecuteSafeKeeps ==
    ASSUME IInv, NEW c \in Conversations,
           NEW code \in Outcomes \union {"invalid_arguments"}, ExecuteSafe(c, code)
    PROVE  IInv'
<1>1. run[c] # None /\ run[c].pc \in GraphStates
  BY DEF ExecuteSafe, AtNode, At, GraphStates
<1>2. RestTyped' /\ Grows /\ runs' = runs
  BY AllUnchanged DEF ExecuteSafe, IInv
<1>3. code \in Codes
  BY OutcomesAssumption DEF Codes
<1>4. Advance(c, Answered(run[c].at, code, None))
  BY DEF ExecuteSafe
<1> QED
  BY <1>1, <1>2, <1>3, <1>4, Answers

\* The steps of an approved call that change pc and result only.
LEMMA ApprovedCallMoves ==
    ASSUME IInv, NEW c \in Conversations, run[c] # None, run[c].pc \in GraphStates,
           run[c].at.next = "execute", run[c].at.tool.risk = "risky",
           RestTyped', Grows, runs' = runs, cp' = cp,
           NEW pc \in {"handler", "running", "complete", "put"},
           NEW result \in Codes \union {None},
           pc \in {"complete", "put"} => result \in Codes, pc = "handler" => run[c].pc = "step",
           CallBecomes(c, [run[c] EXCEPT !.pc = pc, !.result = result])
    PROVE  IInv'
<1>1. PICK r : r = [run[c] EXCEPT !.pc = pc, !.result = result]
  OBVIOUS
<1>2. run[c] \in Run /\ ConversationOK(c)
  BY DEF IInv, TypeOK
<1>3. r \in Run /\ r.pc = pc /\ r.at = run[c].at /\ r.result = result
  BY <1>1, <1>2 DEF Run
<1>4. RunOK(c, r, cp[c], asked, votes, expired)
  BY <1>2, <1>3 DEF ConversationOK, RunOK, GraphStates
<1>5. RunOK(c, r, cp[c], asked', votes', expired')
  BY <1>3, <1>4, RunStays DEF Grows
<1>6. \A a \in ApprovalIds :
            runs[a] > 0 /\ r # None /\ r.pc \in {"step", "handler"} => ~LeadsTo(r.at, a)
  BY <1>3, InGraph
<1> QED
  BY <1>1, <1>3, <1>5, <1>6, CallMoves

LEMMA ClaimKeeps ==
    ASSUME IInv, NEW c \in Conversations, Claim(c)
    PROVE  IInv'
<1> DEFINE a == run[c].at.tool.id
<1>1. run[c] # None /\ run[c].pc = "step" /\ run[c].at.next = "execute"
      /\ run[c].at.tool.risk = "risky"
  BY DEF Claim, AtNode, At
<1>2. SnapshotOK(c, run[c].at, asked, votes) /\ run[c] \in Run
  BY <1>1, InGraph DEF GraphStates
<1>3. a \in ApprovalIds
  BY <1>1, <1>2 DEF SnapshotOK, Granted
<1>4. RestTyped' /\ Grows /\ runs' = runs
  <2>1. [conv |-> c, status |-> "started", result |-> None] \in Row
    BY DEF Row
  <2>2. ledger' \in [ApprovalIds -> Row \union {None}]
    <3> HIDE DEF a
    <3> QED
      BY <1>3, <2>1 DEF Claim, InsertRow, IInv, TypeOK, a
  <2> QED
    BY <2>2 DEF Claim, IInv, TypeOK, RestTyped, Grows, history
<1>5. CASE ledger[a] = None
  <2>1. cp' = cp /\ CallBecomes(c, [run[c] EXCEPT !.pc = "handler"])
    BY <1>5 DEF Claim
  <2>2. CallBecomes(c, [run[c] EXCEPT !.pc = "handler", !.result = run[c].result])
    <3>1. [run[c] EXCEPT !.pc = "handler"]
          = [run[c] EXCEPT !.pc = "handler", !.result = run[c].result]
      BY <1>2 DEF Run
    <3> QED
      BY <2>1, <3>1
  <2>3. run[c].result \in Codes \union {None}
    BY <1>2 DEF Run
  <2> QED
    BY <1>1, <1>4, <2>1, <2>2, <2>3, ApprovedCallMoves DEF GraphStates
<1>6. CASE ledger[a] # None
  <2>1. PICK code : code = RecordedCode(ledger[a], c)
    OBVIOUS
  <2>2. code \in Codes
    BY <1>3, <1>6, <2>1 DEF RecordedCode, IInv, TypeOK, Row, Codes, RefusalCodes, HandlerCodes
  <2>3. Advance(c, Answered(run[c].at, code, a))
    BY <1>6, <2>1 DEF Claim
  <2> HIDE DEF a
  <2> QED
    BY <1>1, <1>3, <1>4, <2>2, <2>3, Answers DEF GraphStates
<1> QED
  BY <1>5, <1>6

LEMMA EndHandlerKeeps ==
    ASSUME IInv, NEW c \in Conversations, NEW code \in Outcomes, EndHandler(c, code)
    PROVE  IInv'
<1>1. run[c] # None /\ run[c].pc = "running"
  BY DEF EndHandler, At
<1>2. run[c].at.next = "execute" /\ run[c].at.tool.risk = "risky"
  BY <1>1, InGraph DEF GraphStates
<1>3. RestTyped' /\ Grows /\ runs' = runs /\ cp' = cp
  BY AllUnchanged DEF EndHandler, IInv
<1>4. code \in Codes
  BY OutcomesAssumption DEF Codes
<1> QED
  BY <1>1, <1>2, <1>3, <1>4, ApprovedCallMoves DEF EndHandler, GraphStates

LEMMA CompleteKeeps ==
    ASSUME IInv, NEW c \in Conversations, Complete(c)
    PROVE  IInv'
<1>1. run[c] # None /\ run[c].pc = "complete"
  BY DEF Complete, At
<1>2. run[c].at.next = "execute" /\ run[c].at.tool.risk = "risky" /\ run[c] \in Run
  BY <1>1, InGraph DEF GraphStates
<1>3. run[c].result \in Codes
  BY <1>1 DEF IInv, ConversationOK, RunOK
<1>4. RestTyped' /\ Grows /\ runs' = runs /\ cp' = cp
  <2>1. PICK a : a = run[c].at.tool.id
    OBVIOUS
  <2>2. ledger' = IF ledger[a] = None THEN ledger
                  ELSE [ledger EXCEPT ![a] = [@ EXCEPT !.status = "completed",
                                                       !.result = run[c].result]]
    BY <2>1 DEF Complete, SetResult
  <2>3. a \in ApprovalIds
    BY <1>1, <2>1, InGraph DEF GraphStates, Granted
  <2>4. ledger[a] # None =>
            [ledger[a] EXCEPT !.status = "completed", !.result = run[c].result] \in Row
    BY <1>3, <2>3 DEF IInv, TypeOK, Row
  <2>5. ledger' \in [ApprovalIds -> Row \union {None}]
    BY <2>2, <2>3, <2>4 DEF IInv, TypeOK
  <2> QED
    BY <2>5 DEF Complete, IInv, TypeOK, RestTyped, Grows, history
<1>5. [run[c] EXCEPT !.pc = "put"] = [run[c] EXCEPT !.pc = "put", !.result = run[c].result]
  BY <1>2 DEF Run
<1>6. CallBecomes(c, [run[c] EXCEPT !.pc = "put", !.result = run[c].result])
  BY <1>5 DEF Complete
<1> QED
  BY <1>1, <1>2, <1>3, <1>4, <1>6, ApprovedCallMoves DEF GraphStates

LEMMA PutResultKeeps ==
    ASSUME IInv, NEW c \in Conversations, PutResult(c)
    PROVE  IInv'
<1>1. run[c] # None /\ run[c].pc = "put"
  BY DEF PutResult, At
<1>2. run[c].at.tool.id \in ApprovalIds
  BY <1>1, InGraph DEF GraphStates, Granted
<1>3. run[c].result \in Codes
  BY <1>1 DEF IInv, ConversationOK, RunOK
<1>4. RestTyped' /\ Grows /\ runs' = runs
  BY AllUnchanged DEF PutResult, IInv
<1>5. Advance(c, Answered(run[c].at, run[c].result, run[c].at.tool.id))
  BY DEF PutResult
<1> QED
  BY <1>1, <1>2, <1>3, <1>4, <1>5, Answers DEF GraphStates

\* The only step that starts a handler: nothing led to it twice, so it is the first
\* start, and its call leaves "handler" with it.
LEMMA StartHandlerKeeps ==
    ASSUME IInv, NEW c \in Conversations, StartHandler(c)
    PROVE  IInv'
<1>1. run[c] # None /\ run[c].pc = "handler"
  BY DEF StartHandler, At
<1>2. /\ run[c] \in Run /\ run[c].at \in Snapshot
      /\ run[c].at.next = "execute" /\ run[c].at.tool.risk = "risky"
      /\ Granted(c, run[c].at.tool.id, asked, votes)
      /\ cp[c] \in {None, run[c].at}
  BY <1>1, InGraph DEF GraphStates
<1>3. RestTyped' /\ Grows /\ cp' = cp
  BY DEF StartHandler, IInv, TypeOK, RestTyped, Grows
<1>4. CASE runs' = runs /\ CallBecomes(c, [run[c] EXCEPT !.pc = "complete",
                                                       !.result = "invalid_arguments"])
  <2>1. "invalid_arguments" \in Codes
    BY DEF Codes
  <2> QED
    BY <1>1, <1>2, <1>3, <1>4, <2>1, ApprovedCallMoves DEF GraphStates
<1>5. CASE /\ CallBecomes(c, [run[c] EXCEPT !.pc = "running"])
           /\ runs' = [runs EXCEPT ![run[c].at.tool.id] = @ + 1]
  <2>1. PICK a \in ApprovalIds : a = run[c].at.tool.id
    BY <1>2 DEF Granted
  <2>2. runs[a] = 0
    <3>1. LeadsTo(run[c].at, a)
      BY <1>2, <2>1 DEF LeadsTo
    <3> QED
      BY <1>1, <3>1, InGraph DEF GraphStates, IInv, TypeOK
  <2>3. runs' = [runs EXCEPT ![a] = 1]
    BY <1>5, <2>1, <2>2
  <2>4. PICK r : r = [run[c] EXCEPT !.pc = "running"]
    OBVIOUS
  <2>5. r \in Run /\ r.pc = "running" /\ r.at = run[c].at
    BY <1>2, <2>4 DEF Run
  <2>6. run' = [run EXCEPT ![c] = r]
    BY <1>5, <2>4 DEF CallBecomes
  <2>7. run'[c] = r /\ \A d \in Conversations \ {c} : run'[d] = run[d]
    BY <2>6 DEF IInv, TypeOK
  <2>8. TypeOK'
    <3>1. run' \in [Conversations -> Run \union {None}]
      BY <2>5, <2>6 DEF IInv, TypeOK
    <3>2. runs' \in [ApprovalIds -> Nat]
      BY <2>3 DEF IInv, TypeOK
    <3> QED
      BY <3>1, <3>2, <1>3 DEF IInv, TypeOK, RestTyped
  <2>9. ASSUME NEW d \in Conversations PROVE ConversationOK(d)'
    <3>1. CASE d # c
      BY <1>3, <2>7, <3>1, ConversationStays DEF IInv
    <3>2. CASE d = c
      <4>1. RunOK(c, r, cp[c], asked, votes, expired)
        BY <1>1, <1>2, <2>5 DEF IInv, ConversationOK, RunOK, GraphStates
      <4>2. cp[c] # None => SnapshotOK(c, cp[c], asked, votes)
        BY DEF IInv, ConversationOK
      <4>3. asked' = asked /\ votes' = votes /\ expired' = expired
        BY DEF StartHandler
      <4> QED
        BY <1>3, <2>7, <3>2, <4>1, <4>2, <4>3 DEF ConversationOK
    <3> QED
      BY <3>1, <3>2
  <2>10. ASSUME NEW d \in Conversations PROVE Closed(d, a)'
    <3>1. asked[a].conv = c
      BY <1>2, <2>1 DEF Granted
    <3>2. CASE d = c
      BY <1>2, <1>3, <2>5, <2>7, <3>2 DEF Closed
    <3>3. CASE d # c
      <4>1. ASSUME NEW s \in Snapshot, SnapshotOK(d, s, asked, votes) PROVE ~LeadsTo(s, a)
        <5>1. s.next = "approval" => s.approval.id # a
          BY <3>1, <3>3, <4>1 DEF SnapshotOK
        <5>2. s.next = "execute" /\ s.tool.risk = "risky" => s.tool.id # a
          BY <3>1, <3>3, <4>1 DEF SnapshotOK, Granted
        <5> QED
          BY <5>1, <5>2 DEF LeadsTo
      <4>2. cp[d] # None => ~LeadsTo(cp[d], a)
        BY <4>1 DEF IInv, TypeOK, ConversationOK
      <4>3. run[d] # None /\ run[d].pc \in {"step", "handler"} => ~LeadsTo(run[d].at, a)
        BY <4>1, InGraph DEF GraphStates
      <4>4. cp'[d] = cp[d] /\ run'[d] = run[d]
        BY <1>3, <2>7, <3>3
      <4> QED
        BY <4>2, <4>3, <4>4 DEF Closed, LeadsTo
    <3> QED
      BY <3>2, <3>3
  <2>11. ASSUME NEW b \in ApprovalIds PROVE StartedOK(b)'
    <3>1. asked' = asked /\ votes' = votes
      BY DEF StartHandler
    <3>2. CASE b = a
      <4>1. runs'[a] = 1
        BY <2>3 DEF IInv, TypeOK
      <4>2. asked[a] # None /\ Granted(asked[a].conv, a, asked, votes)
        BY <1>2, <2>1 DEF Granted
      <4>3. Granted(asked'[a].conv, a, asked', votes')
        BY <3>1, <4>2
      <4> QED
        BY <2>10, <3>1, <3>2, <4>1, <4>2, <4>3 DEF StartedOK
    <3>3. CASE b # a
      <4> SUFFICES ASSUME runs'[b] > 0
                   PROVE  /\ runs'[b] = 1 /\ asked'[b] # None
                          /\ Granted(asked'[b].conv, b, asked', votes')
                          /\ \A d \in Conversations : Closed(d, b)'
        BY DEF StartedOK
      <4>1. runs'[b] = runs[b]
        BY <2>3, <3>3 DEF IInv, TypeOK
      <4>2. runs[b] > 0 /\ StartedOK(b)
        BY <4>1 DEF IInv
      <4>3. ASSUME NEW d \in Conversations PROVE Closed(d, b)'
        <5>1. Closed(d, b)
          BY <4>2 DEF StartedOK
        <5>2. cp'[d] = cp[d] /\ (d # c => run'[d] = run[d])
          BY <1>3, <2>7
        <5>3. d = c => run'[d].pc = "running"
          BY <2>5, <2>7
        <5> QED
          BY <5>1, <5>2, <5>3 DEF Closed
      <4>4. Granted(asked'[b].conv, b, asked', votes')
        BY <3>1, <4>2 DEF StartedOK
      <4> QED
        BY <3>1, <4>1, <4>2, <4>3, <4>4 DEF StartedOK
    <3> QED
      BY <3>2, <3>3
  <2> QED
    BY <2>8, <2>9, <2>11 DEF IInv
<1> QED
  BY <1>4, <1>5 DEF StartHandler

\* Steps that only end calls and drop threads.
LEMMA OnlyDrops ==
    ASSUME IInv, RestTyped', Grows, runs' = runs,
           cp' \in [Conversations -> Snapshot \union {None}],
           run' \in [Conversations -> Run \union {None}],
           \A c \in Conversations : cp'[c] \in {None, cp[c]} /\ run'[c] \in {None, run[c]}
    PROVE  IInv'
<1>1. TypeOK'
  BY DEF IInv, TypeOK, RestTyped
<1>2. ASSUME NEW c \in Conversations PROVE ConversationOK(c)'
  BY ConversationStays DEF IInv
<1>3. ASSUME NEW a \in ApprovalIds PROVE StartedOK(a)'
  <2> SUFFICES ASSUME runs[a] > 0
               PROVE  /\ runs[a] = 1 /\ asked'[a] # None
                      /\ Granted(asked'[a].conv, a, asked', votes')
                      /\ \A c \in Conversations : Closed(c, a)'
    BY DEF StartedOK
  <2>1. StartedOK(a)
    BY DEF IInv
  <2>2. asked'[a] = asked[a] /\ votes \subseteq votes'
    BY <2>1 DEF StartedOK, Grows
  <2>3. ASSUME NEW c \in Conversations PROVE Closed(c, a)'
    <3>1. Closed(c, a) /\ cp'[c] \in {None, cp[c]} /\ run'[c] \in {None, run[c]}
      BY <2>1 DEF StartedOK
    <3> QED
      BY <3>1 DEF Closed
  <2> QED
    BY <2>1, <2>2, <2>3 DEF StartedOK, Granted
<1> QED
  BY <1>1, <1>2, <1>3 DEF IInv

LEMMA RunFailsKeeps ==
    ASSUME IInv, NEW c \in Conversations, RunFails(c)
    PROVE  IInv'
<1>1. RestTyped' /\ Grows /\ runs' = runs /\ cp' = cp /\ Release(c)
  BY DEF RunFails, GiveUp, IInv, TypeOK, RestTyped, Grows
<1> QED
  BY <1>1, CallEnds

LEMMA CancelKeeps ==
    ASSUME IInv, NEW c \in Conversations, Cancel(c)
    PROVE  IInv'
<1>1. used' \in [{"calls", "aborts", "deletes"} -> Nat]
  BY UnusedTyped DEF Cancel, IInv
<1>2. RestTyped' /\ Grows /\ runs' = runs /\ cp' = cp /\ Release(c)
  BY <1>1 DEF Cancel, GiveUp, IInv, TypeOK, RestTyped, Grows
<1> QED
  BY <1>2, CallEnds

LEMMA CrashKeeps ==
    ASSUME IInv, Crash
    PROVE  IInv'
<1>1. used' \in [{"calls", "aborts", "deletes"} -> Nat]
  BY UnusedTyped DEF Crash, IInv
<1>2. RestTyped' /\ Grows /\ runs' = runs
  BY <1>1 DEF Crash, IInv, TypeOK, RestTyped, Grows
<1>3. cp' = cp /\ cp \in [Conversations -> Snapshot \union {None}]
      /\ run' = [c \in Conversations |-> None]
  BY DEF Crash, IInv, TypeOK
<1>4. run' \in [Conversations -> Run \union {None}]
  BY <1>3
<1> QED
  BY <1>2, <1>3, <1>4, OnlyDrops

LEMMA ExpireKeeps ==
    ASSUME IInv, NEW a \in ApprovalIds, Expire(a)
    PROVE  IInv'
<1>1. RestTyped' /\ Grows /\ runs' = runs
  BY DEF Expire, IInv, TypeOK, RestTyped, Grows, history
<1>2. cp' = cp /\ cp \in [Conversations -> Snapshot \union {None}]
      /\ run' = run /\ run \in [Conversations -> Run \union {None}]
  BY DEF Expire, IInv, TypeOK
<1> QED
  BY <1>1, <1>2, OnlyDrops

LEMMA ResetThreadKeeps ==
    ASSUME IInv, NEW c \in Conversations, ResetThread(c)
    PROVE  IInv'
<1>1. PICK r : r = [run[c] EXCEPT !.pc = "clear"]
  OBVIOUS
<1>2. run[c] \in Run /\ run[c].pc = "reset" /\ ConversationOK(c) /\ run[c] # None
  BY DEF IInv, TypeOK, ResetThread, At
<1>3. r \in Run /\ r.pc = "clear" /\ r.at = run[c].at /\ r.decision = run[c].decision
  BY <1>1, <1>2 DEF Run
<1>4. RunOK(c, r, None, asked', votes', expired')
  BY <1>2, <1>3 DEF ConversationOK, RunOK, GraphStates
<1>5. RestTyped' /\ Grows /\ runs' = runs
  BY DEF ResetThread, IInv, TypeOK, RestTyped, Grows
<1>6. cp' = [cp EXCEPT ![c] = None] /\ run' = [run EXCEPT ![c] = r]
  BY <1>1 DEF ResetThread, DropThread, CallBecomes
<1> QED
  BY <1>3, <1>4, <1>5, <1>6, ThreadAndCall

LEMMA RowsDropTyped ==
    ASSUME TypeOK, NEW c \in Conversations, DropRows(c)
    PROVE  /\ ledger' \in [ApprovalIds -> Row \union {None}]
           /\ forgotten' \subseteq ApprovalIds
           /\ cleared' \subseteq Conversations
BY DEF DropRows, TypeOK

LEMMA ResetRowsKeeps ==
    ASSUME IInv, NEW c \in Conversations, ResetRows(c)
    PROVE  IInv'
<1>1. RestTyped' /\ Grows /\ runs' = runs /\ cp' = cp /\ Release(c)
  BY RowsDropTyped DEF ResetRows, IInv, TypeOK, RestTyped, Grows
<1> QED
  BY <1>1, CallEnds

LEMMA DeleteThreadKeeps ==
    ASSUME IInv, NEW c \in Conversations, DeleteThread(c)
    PROVE  IInv'
<1>1. used' \in [{"calls", "aborts", "deletes"} -> Nat]
  BY UnusedTyped DEF DeleteThread, IInv
<1>2. RestTyped' /\ Grows /\ runs' = runs /\ run' = run
  BY <1>1 DEF DeleteThread, IInv, TypeOK, RestTyped, Grows
<1>3. cp' = [cp EXCEPT ![c] = None] /\ cp \in [Conversations -> Snapshot \union {None}]
      /\ run \in [Conversations -> Run \union {None}]
  BY DEF DeleteThread, DropThread, IInv, TypeOK
<1>4. cp' \in [Conversations -> Snapshot \union {None}]
      /\ \A d \in Conversations : cp'[d] \in {None, cp[d]}
  BY <1>3
<1> QED
  BY <1>2, <1>3, <1>4, OnlyDrops

LEMMA DeleteRowsKeeps ==
    ASSUME IInv, NEW c \in Conversations, DeleteRows(c)
    PROVE  IInv'
<1>1. RestTyped' /\ Grows /\ runs' = runs
  BY RowsDropTyped DEF DeleteRows, IInv, TypeOK, RestTyped, Grows
<1>2. cp' = cp /\ cp \in [Conversations -> Snapshot \union {None}]
      /\ run' = run /\ run \in [Conversations -> Run \union {None}]
  BY DEF DeleteRows, IInv, TypeOK
<1> QED
  BY <1>1, <1>2, OnlyDrops

------------------------------------------------------------------------------
(* The theorems *)

LEMMA InitEstablishes ==
    Init => IInv
<1> SUFFICES ASSUME Init PROVE IInv
  OBVIOUS
<1>1. TypeOK
  BY DEF Init, TypeOK
<1>2. \A c \in Conversations : ConversationOK(c)
  BY DEF Init, ConversationOK
<1>3. \A a \in ApprovalIds : StartedOK(a)
  BY DEF Init, StartedOK
<1> QED
  BY <1>1, <1>2, <1>3 DEF IInv

LEMMA RunStepKeeps ==
    ASSUME IInv, NEW c \in Conversations, RunStep(c)
    PROVE  IInv'
<1>1. CASE ReadPending(c) \/ Decline(c) \/ StartGraph(c) \/ ResumeGraph(c)
  BY <1>1, ReadPendingKeeps, DeclineKeeps, StartGraphKeeps, ResumeGraphKeeps
<1>2. CASE \E k \in CallKinds : CallModel(c, k)
  BY <1>2, CallModelKeeps
<1>3. CASE GuardRefuses(c) \/ GuardPasses(c) \/ \E a \in ApprovalIds : GuardAsks(c, a)
  BY <1>3, GuardRefusesKeeps, GuardPassesKeeps, GuardAsksKeeps
<1>4. CASE Interrupt(c) \/ AwaitApproval(c)
  BY <1>4, InterruptKeeps, AwaitApprovalKeeps
<1>5. CASE \E code \in Outcomes \union {"invalid_arguments"} : ExecuteSafe(c, code)
  BY <1>5, ExecuteSafeKeeps
<1>6. CASE Claim(c) \/ StartHandler(c) \/ \E code \in Outcomes : EndHandler(c, code)
  BY <1>6, ClaimKeeps, StartHandlerKeeps, EndHandlerKeeps
<1>7. CASE Complete(c) \/ PutResult(c) \/ RunFails(c)
  BY <1>7, CompleteKeeps, PutResultKeeps, RunFailsKeeps
<1>8. CASE ResetThread(c) \/ ResetRows(c)
  BY <1>8, ResetThreadKeeps, ResetRowsKeeps
<1> QED
  BY <1>1, <1>2, <1>3, <1>4, <1>5, <1>6, <1>7, <1>8 DEF RunStep

LEMMA NextKeeps ==
    IInv /\ [Next]_vars => IInv'
<1> SUFFICES ASSUME IInv, [Next]_vars PROVE IInv'
  OBVIOUS
<1>1. CASE UNCHANGED vars
  <2>1. RestTyped' /\ Grows /\ runs' = runs
    BY <1>1, AllUnchanged DEF vars, IInv
  <2>2. cp' = cp /\ cp \in [Conversations -> Snapshot \union {None}]
        /\ run' = run /\ run \in [Conversations -> Run \union {None}]
    BY <1>1 DEF vars, IInv, TypeOK
  <2> QED
    BY <2>1, <2>2, OnlyDrops
<1>2. CASE \E c \in Conversations : \E call \in Calls : Receive(c, call)
  BY <1>2, ReceiveKeeps
<1>3. CASE \E c \in Conversations : RunStep(c)
  BY <1>3, RunStepKeeps
<1>4. CASE \E c \in Conversations : Cancel(c) \/ DeleteThread(c) \/ DeleteRows(c)
  BY <1>4, CancelKeeps, DeleteThreadKeeps, DeleteRowsKeeps
<1>5. CASE Crash \/ \E a \in ApprovalIds : Expire(a)
  BY <1>5, CrashKeeps, ExpireKeeps
<1> QED
  BY <1>1, <1>2, <1>3, <1>4, <1>5 DEF Next

\* The inductive invariant holds of every behaviour of the runtime.
THEOREM Inductive == Spec => []IInv
  BY InitEstablishes, NextKeeps, PTL DEF Spec

\* Threads, ledger rows and calls keep their shapes: every checkpoint the graph
\* writes is a state AgentWorkflow's nodes can read.
THEOREM TypeCorrect == Spec => []TypeOK
<1>1. IInv => TypeOK
  BY DEF IInv
<1> QED
  BY <1>1, Inductive, PTL

\* _execute_approved_tool: for any number of users, conversations, approvals, crashes,
\* cancellations and deletions, no approval starts its handler twice.
THEOREM StartedAtMostOnce == Spec => []AtMostOnce
<1>1. IInv => AtMostOnce
  <2> SUFFICES ASSUME IInv, NEW a \in ApprovalIds PROVE runs[a] <= 1
    BY DEF AtMostOnce
  <2>1. StartedOK(a) /\ runs[a] \in Nat
    BY DEF IInv, TypeOK
  <2> QED
    BY <2>1 DEF StartedOK
<1> QED
  BY <1>1, Inductive, PTL

\* _decide, _await_approval: a risky handler starts only after /approve by the actor
\* who was asked, in the conversation it was asked in, before the approval expired.
THEOREM GrantedByRequester == Spec => []OnlyRequesterGrants
<1>1. IInv => OnlyRequesterGrants
  BY DEF IInv, StartedOK, Granted, OnlyRequesterGrants
<1> QED
  BY <1>1, Inductive, PTL
------------------------------------------------------------------------------
(***************************************************************************)
(* What is on record, for any number of users, conversations, approvals,   *)
(* calls, crashes and deletions: HistoryTellsTheTruth, EffectLeavesRecord, *)
(* PendingMatchesNode, CallsAreAnswered, RequestEndsProperly, and          *)
(* ClearedStaysCleared when nobody deletes a chat; and, at the end, that   *)
(* AgentRuntime implements ToolApproval.                                   *)
(*                                                                         *)
(* The argument: an approval a thread or a run still leads to is untouched *)
(* (the first part shows that only its own conversation leads to it);      *)
(* a message about it is written when it has been settled, by a node that  *)
(* leads away from it; and each node that ends has answered the call at    *)
(* the end of the history or left it there for the next one.               *)
(***************************************************************************)

IsCall(m) == m.kind = "ai" /\ m.what # "text"

\* A history whose calls are answered, but for the last one, which the node that runs
\* next is going to answer.  A run of c that was cut off, once, leaves gaps: B is broken.
Paired(c, s, B) ==
    /\ Len(s.msgs) > 0
    /\ \A i \in DOMAIN s.msgs :
        /\ IsCall(s.msgs[i]) /\ i < Len(s.msgs) => s.msgs[i + 1].kind = "tool" \/ c \in B
        /\ s.msgs[i].kind = "tool" => i > 1 /\ IsCall(s.msgs[i - 1])
    /\ s.next = "guard" => \E k \in AllCallKinds \ {"text"} : LastMessage(s) = AI(k)
    /\ s.next \in {"approval", "execute"} =>
        s.tool \in PendingTool /\ LastMessage(s) = AI(s.tool.risk)
    /\ s.next \in {"model", "end"} => ~IsCall(LastMessage(s))

\* How often the handler was started, by what is reported of it.
Started(code) == IF code \in HandlerCodes THEN 1 ELSE 0

Reported(a, code) ==
    /\ runs[a] = Started(code)
    /\ ledger[a] # None => ledger[a].status = "completed" /\ ledger[a].result = code

\* What the history s of conversation c says of an approval, and that it is over.
Told(c, s) ==
    \A i \in DOMAIN s.msgs : s.msgs[i].kind = "tool" /\ s.msgs[i].id # None =>
        /\ asked[s.msgs[i].id] # None
        /\ asked[s.msgs[i].id].conv = c
        /\ Reported(s.msgs[i].id, s.msgs[i].what)
        /\ ~LeadsTo(s, s.msgs[i].id)

Untouched(a) == runs[a] = 0 /\ ledger[a] = None

OnRecord(a) == ledger[a] # None \/ a \in forgotten

\* The thread t of conversation c.
ThreadTold(c, t) ==
    t # None =>
        /\ Paired(c, t, broken)
        /\ Told(c, t)
        /\ t.next = "approval" => Untouched(t.approval.id)

\* A thread that no run is working on is at an end, or was cut off.
Rested(c, t, r) ==
    t # None /\ (r = None \/ r.pc \notin GraphStates) /\ c \notin broken =>
        t.next \in {"approval", "end"}

\* How far the approved call of the run r has come.
PlaceOK(r) ==
    /\ r.pc = "step" => \A a \in ApprovalIds : LeadsTo(r.at, a) => Untouched(a)
    /\ r.pc = "step" /\ r.decision # None /\ r.at.next = "approval" =>
        r.at.approval.id \in expired \/ VotesOn(r.call, r.at.approval)
    /\ r.pc = "handler" => runs[r.at.tool.id] = 0
    /\ r.pc = "running" => runs[r.at.tool.id] = 1
    /\ r.pc = "complete" => runs[r.at.tool.id] = Started(r.result)
    /\ r.pc = "put" => Reported(r.at.tool.id, r.result)
    /\ r.pc \in GraphStates \ {"step"} => OnRecord(r.at.tool.id)

CallTold(c, r) ==
    r # None /\ r.pc \in GraphStates =>
        /\ Paired(c, r.at, broken)
        /\ Told(c, r.at)
        /\ PlaceOK(r)

ConversationTold(c) ==
    ThreadTold(c, cp[c]) /\ Rested(c, cp[c], run[c]) /\ CallTold(c, run[c])

RowsOK ==
    \A a \in ApprovalIds :
        /\ ledger[a] # None => asked[a] # None /\ ledger[a].conv = asked[a].conv
        /\ runs[a] > 0 => OnRecord(a)

TInv ==
    /\ IInv
    /\ \A c \in Conversations : ConversationTold(c)
    /\ RowsOK

\* What ClearedStaysCleared rests on when nobody deletes a chat.
EmptyInv ==
    /\ TypeOK
    /\ deleting = {}
    /\ ClearedStaysCleared
    /\ \A c \in cleared : run[c] = None
    /\ \A c \in Conversations : At(c, "clear") => cp[c] = None

------------------------------------------------------------------------------
(* Histories *)

\* The call that a guard looks at.
LEMMA GuardedCall ==
    ASSUME NEW c, NEW B, NEW s, Paired(c, s, B), s.next = "guard"
    PROVE  IsCall(LastMessage(s)) /\ LastMessage(s) = AI(LastMessage(s).what)
<1>1. PICK k \in AllCallKinds \ {"text"} : LastMessage(s) = AI(k)
  BY DEF Paired
<1>2. AI(k).kind = "ai" /\ AI(k).what = k
  BY DEF AI
<1> QED
  BY <1>1, <1>2 DEF IsCall

LEMMA PairedGrows ==
    ASSUME NEW c, NEW B, NEW s \in Snapshot, Paired(c, s, B),
           NEW m \in Message, NEW z \in Snapshot, z.msgs = Append(s.msgs, m),
           IsCall(LastMessage(s)) => m.kind = "tool" \/ c \in B,
           m.kind = "tool" => IsCall(LastMessage(s)),
           z.next \in {"model", "guard", "end"},
           z.next = "guard" => \E k \in AllCallKinds \ {"text"} : m = AI(k),
           z.next # "guard" => ~IsCall(m)
    PROVE  Paired(c, z, B)
<1> DEFINE n == Len(s.msgs)
<1>1. n \in Nat /\ n > 0 /\ DOMAIN s.msgs = 1..n
  BY DEF Paired, Snapshot
<1>2. /\ Len(z.msgs) = n + 1 /\ DOMAIN z.msgs = 1..(n + 1)
      /\ z.msgs[n + 1] = m
      /\ \A i \in 1..n : z.msgs[i] = s.msgs[i]
  BY <1>1 DEF Snapshot
<1>3. LastMessage(s) = s.msgs[n] /\ LastMessage(z) = m
  BY <1>2 DEF LastMessage
<1>4. ASSUME NEW i \in 1..(n + 1)
      PROVE  /\ IsCall(z.msgs[i]) /\ i < n + 1 => z.msgs[i + 1].kind = "tool" \/ c \in B
             /\ z.msgs[i].kind = "tool" => i > 1 /\ IsCall(z.msgs[i - 1])
  <2>1. CASE i < n
    <3>1. i \in 1..n /\ i + 1 \in 1..n /\ (i > 1 => i - 1 \in 1..n)
      BY <1>1, <2>1
    <3>2. /\ IsCall(s.msgs[i]) /\ i < n => s.msgs[i + 1].kind = "tool" \/ c \in B
          /\ s.msgs[i].kind = "tool" => i > 1 /\ IsCall(s.msgs[i - 1])
      BY <1>1, <3>1 DEF Paired
    <3>3. z.msgs[i] = s.msgs[i] /\ z.msgs[i + 1] = s.msgs[i + 1]
          /\ (i > 1 => z.msgs[i - 1] = s.msgs[i - 1])
      BY <1>2, <3>1
    <3> QED
      BY <2>1, <3>2, <3>3
  <2>2. CASE i = n
    <3>1. s.msgs[n].kind = "tool" => n > 1 /\ IsCall(s.msgs[n - 1])
      <4>1. n \in DOMAIN s.msgs
        BY <1>1
      <4> HIDE DEF n
      <4> QED
        BY <4>1 DEF Paired
    <3>2. n \in 1..n /\ (n > 1 => n - 1 \in 1..n)
      BY <1>1
    <3> QED
      BY <2>2, <3>1, <3>2, <1>1, <1>2, <1>3
  <2>3. CASE i = n + 1
    BY <2>3, <1>1, <1>2, <1>3
  <2> QED
    BY <1>1, <2>1, <2>2, <2>3
<1>5. /\ z.next = "guard" => \E k \in AllCallKinds \ {"text"} : LastMessage(z) = AI(k)
      /\ z.next \notin {"approval", "execute"}
      /\ z.next # "guard" => ~IsCall(LastMessage(z))
  BY <1>3
<1> QED
  BY <1>1, <1>2, <1>4, <1>5 DEF Paired

LEMMA PairedOnward ==
    ASSUME NEW c, NEW B, NEW s \in Snapshot, Paired(c, s, B), NEW z \in Snapshot,
           z.msgs = s.msgs, z.next \in {"approval", "execute"}, z.tool \in PendingTool,
           LastMessage(s) = AI(z.tool.risk)
    PROVE  Paired(c, z, B)
BY DEF Paired, LastMessage

LEMMA PairedLoosens ==
    ASSUME NEW c, NEW s, NEW B, NEW D, Paired(c, s, B), c \in B => c \in D
    PROVE  Paired(c, s, D)
BY DEF Paired

\* What is on record of a stays true.
Unaffected(a) ==
    /\ runs'[a] = runs[a]
    /\ ledger'[a] \in {None, ledger[a]}
    /\ OnRecord(a) => OnRecord(a)'

LEMMA ToldStays ==
    ASSUME TypeOK, NEW c \in Conversations, NEW s \in Snapshot, NEW z \in Snapshot,
           Told(c, s), z.msgs = s.msgs, Grows,
           \A a \in ApprovalIds : asked[a] # None /\ asked[a].conv = c /\ ~LeadsTo(s, a) =>
                Unaffected(a) /\ ~LeadsTo(z, a)
    PROVE  Told(c, z)'
<1> SUFFICES ASSUME NEW i \in DOMAIN s.msgs, s.msgs[i].kind = "tool", s.msgs[i].id # None
             PROVE  /\ asked'[s.msgs[i].id] # None
                    /\ asked'[s.msgs[i].id].conv = c
                    /\ Reported(s.msgs[i].id, s.msgs[i].what)'
                    /\ ~LeadsTo(z, s.msgs[i].id)
  BY DEF Told, LeadsTo
<1> DEFINE a == s.msgs[i].id
<1>1. a \in ApprovalIds
  <2>1. s.msgs \in Seq(Message)
    BY DEF Snapshot
  <2>2. s.msgs[i] \in Message
    BY <2>1
  <2> QED
    BY <2>2 DEF Message
<1>2. asked[a] # None /\ asked[a].conv = c /\ Reported(a, s.msgs[i].what) /\ ~LeadsTo(s, a)
  BY DEF Told
<1>3. Unaffected(a) /\ ~LeadsTo(z, a) /\ asked'[a] = asked[a]
  BY <1>1, <1>2 DEF Grows
<1> QED
  BY <1>2, <1>3 DEF Reported, Unaffected

\* The message m was added by a node that leads away from what m is about.
LEMMA ToldGrows ==
    ASSUME TypeOK, NEW c \in Conversations, NEW s \in Snapshot, NEW z \in Snapshot,
           NEW m \in Message, Told(c, s), z.msgs = Append(s.msgs, m), Grows,
           \A a \in ApprovalIds : ~LeadsTo(z, a),
           \A a \in ApprovalIds : asked[a] # None /\ asked[a].conv = c /\ ~LeadsTo(s, a) =>
                Unaffected(a),
           m.kind = "tool" /\ m.id # None =>
                asked'[m.id] # None /\ asked'[m.id].conv = c /\ Reported(m.id, m.what)'
    PROVE  Told(c, z)'
<1> DEFINE n == Len(s.msgs)
<1>1. n \in Nat /\ DOMAIN s.msgs = 1..n
  BY DEF Snapshot
<1>2. /\ DOMAIN z.msgs = 1..(n + 1)
      /\ z.msgs[n + 1] = m
      /\ \A i \in 1..n : z.msgs[i] = s.msgs[i]
  BY <1>1 DEF Snapshot
<1> SUFFICES ASSUME NEW i \in 1..(n + 1), z.msgs[i].kind = "tool", z.msgs[i].id # None
             PROVE  /\ asked'[z.msgs[i].id] # None
                    /\ asked'[z.msgs[i].id].conv = c
                    /\ Reported(z.msgs[i].id, z.msgs[i].what)'
                    /\ ~LeadsTo(z, z.msgs[i].id)
  BY <1>2 DEF Told, LeadsTo
<1> DEFINE a == z.msgs[i].id
<1>3. z.msgs[i] \in Message
  BY <1>2 DEF Snapshot
<1>4. a \in ApprovalIds
  BY <1>3 DEF Message
<1>5. CASE i = n + 1
  BY <1>2, <1>4, <1>5
<1>6. CASE i \in 1..n
  <2>1. z.msgs[i] = s.msgs[i]
    BY <1>2, <1>6
  <2>2. asked[a] # None /\ asked[a].conv = c /\ Reported(a, z.msgs[i].what) /\ ~LeadsTo(s, a)
    BY <1>1, <1>6, <2>1 DEF Told
  <2>3. Unaffected(a) /\ asked'[a] = asked[a]
    BY <1>4, <2>2 DEF Grows
  <2> QED
    BY <1>4, <2>2, <2>3 DEF Reported, Unaffected
<1> QED
  BY <1>1, <1>5, <1>6

------------------------------------------------------------------------------
(* What a step leaves as it was *)

LEMMA LeadsHere ==
    ASSUME NEW c \in Conversations, NEW s \in Snapshot, SnapshotOK(c, s, asked, votes),
           NEW a \in ApprovalIds, LeadsTo(s, a)
    PROVE  asked[a] # None /\ asked[a].conv = c
<1>1. CASE s.next = "approval" /\ s.approval.id = a
  <2>1. s.approval \in PendingApproval /\ asked[a] = [actor |-> s.approval.actor, conv |-> c]
    BY <1>1 DEF SnapshotOK
  <2>2. s.approval.actor \in Actors
    BY <2>1 DEF PendingApproval
  <2> QED
    BY <2>1, <2>2, NoneAssumption
<1>2. CASE s.next = "execute" /\ s.tool.risk = "risky" /\ s.tool.id = a
  BY <1>2 DEF SnapshotOK, Granted
<1> QED
  BY <1>1, <1>2 DEF LeadsTo

\* Nothing of what conversation c was asked is touched.
Spared(c) == \A a \in ApprovalIds : asked[a] # None /\ asked[a].conv = c => Unaffected(a)

LEMMA ThreadEndures ==
    ASSUME TInv, Grows, NEW c \in Conversations, Spared(c), NEW t \in Snapshot \union {None},
           ThreadTold(c, t), t # None => SnapshotOK(c, t, asked, votes),
           c \in broken => c \in broken'
    PROVE  ThreadTold(c, t)'
<1> SUFFICES ASSUME t # None
             PROVE  /\ Paired(c, t, broken')
                    /\ Told(c, t)'
                    /\ t.next = "approval" => Untouched(t.approval.id)'
  BY DEF ThreadTold, Paired, LastMessage
<1>1. t \in Snapshot /\ Paired(c, t, broken) /\ Told(c, t)
  BY DEF ThreadTold
<1>2. Paired(c, t, broken')
  BY <1>1, PairedLoosens
<1>3. Told(c, t)'
  BY <1>1, ToldStays DEF Spared, TInv, IInv
<1>4. ASSUME t.next = "approval" PROVE Untouched(t.approval.id)'
  <2>1. t.approval.id \in ApprovalIds
    BY <1>4 DEF SnapshotOK, PendingApproval
  <2>2. LeadsTo(t, t.approval.id)
    BY <1>4 DEF LeadsTo
  <2>3. Unaffected(t.approval.id)
    BY <1>1, <2>1, <2>2, LeadsHere DEF Spared
  <2>4. Untouched(t.approval.id)
    BY <1>4 DEF ThreadTold
  <2> QED
    BY <2>3, <2>4 DEF Untouched, Unaffected
<1> QED
  BY <1>2, <1>3, <1>4

\* The histories that a call carries, said of s to keep primes apart.
LEMMA CallEndures ==
    ASSUME TInv, Grows, NEW c \in Conversations, Spared(c),
           run[c] # None, run[c].pc \in GraphStates, NEW s, s = run[c].at,
           c \in broken => c \in broken'
    PROVE  Paired(c, s, broken') /\ Told(c, s)'
<1>1. s \in Snapshot /\ Paired(c, s, broken) /\ Told(c, s)
  BY InGraph DEF TInv, ConversationTold, CallTold
<1>2. Paired(c, s, broken')
  BY <1>1, PairedLoosens
<1>3. Told(c, s)'
  BY <1>1, ToldStays DEF Spared, TInv, IInv
<1> QED
  BY <1>2, <1>3

LEMMA PlaceEndures ==
    ASSUME TInv, Grows, NEW c \in Conversations, Spared(c),
           run[c] # None, run[c].pc \in GraphStates, NEW r, r = run[c]
    PROVE  PlaceOK(r)'
<1>1. /\ r.at \in Snapshot /\ SnapshotOK(c, r.at, asked, votes)
      /\ r.pc # "step" => Granted(c, r.at.tool.id, asked, votes)
      /\ PlaceOK(r)
  BY InGraph DEF TInv, ConversationTold, CallTold
<1>2. ASSUME r.pc = "step", NEW a \in ApprovalIds, LeadsTo(r.at, a) PROVE Untouched(a)'
  <2>1. Unaffected(a)
    BY <1>1, <1>2, LeadsHere DEF Spared
  <2>2. Untouched(a)
    BY <1>1, <1>2 DEF PlaceOK
  <2> QED
    BY <2>1, <2>2 DEF Untouched, Unaffected
<1>3. r.pc # "step" => Unaffected(r.at.tool.id)
  BY <1>1 DEF Granted, Spared
<1>4. r.pc = "step" /\ r.decision # None /\ r.at.next = "approval" =>
        r.at.approval.id \in expired' \/ VotesOn(r.call, r.at.approval)
  BY <1>1 DEF PlaceOK, Grows
<1> QED
  BY <1>1, <1>2, <1>3, <1>4 DEF PlaceOK, Unaffected, Reported, LeadsTo

LEMMA Endures ==
    ASSUME TInv, Grows, NEW c \in Conversations, Spared(c),
           cp'[c] \in {None, cp[c]}, run'[c] \in {None, run[c]},
           c \in broken => c \in broken',
           Rested(c, cp[c], run[c])'
    PROVE  ConversationTold(c)'
<1>1. PICK t, r : t = cp'[c] /\ r = run'[c]
  OBVIOUS
<1>2. ThreadTold(c, t)'
  <2>1. t \in Snapshot \union {None} /\ ThreadTold(c, t)
        /\ (t # None => SnapshotOK(c, t, asked, votes))
    BY <1>1 DEF TInv, IInv, TypeOK, ConversationOK, ConversationTold, ThreadTold
  <2> QED
    BY <2>1, ThreadEndures
<1>3. CallTold(c, r)'
  <2> SUFFICES ASSUME r # None, r.pc \in GraphStates
               PROVE  Paired(c, r.at, broken') /\ Told(c, r.at)' /\ PlaceOK(r)'
    BY DEF CallTold, Paired, LastMessage
  <2>1. r = run[c]
    BY <1>1
  <2>2. PICK s : s = r.at
    OBVIOUS
  <2>3. Paired(c, s, broken') /\ Told(c, s)'
    BY <2>1, <2>2, CallEndures
  <2>4. PlaceOK(r)'
    BY <2>1, PlaceEndures
  <2> QED
    BY <2>2, <2>3, <2>4 DEF Told, LeadsTo
<1> QED
  BY <1>1, <1>2, <1>3 DEF ConversationTold, ThreadTold, CallTold, PlaceOK, Told

\* A step of conversation c: what remains to be shown is about c and the rows.
LEMMA OneConversationTold ==
    ASSUME TInv, IInv', Grows, NEW c \in Conversations,
           \A d \in Conversations \ {c} :
                Spared(d) /\ cp'[d] = cp[d] /\ run'[d] = run[d] /\ (d \in broken' <=> d \in broken),
           ConversationTold(c)', RowsOK'
    PROVE  TInv'
<1>1. ASSUME NEW d \in Conversations \ {c} PROVE ConversationTold(d)'
  <2>1. Rested(d, cp[d], run[d])'
    BY <1>1 DEF TInv, ConversationTold, Rested
  <2> QED
    BY <2>1, Endures
<1> QED
  BY <1>1 DEF TInv

LEMMA RowsEndure ==
    ASSUME TInv, Grows, \A a \in ApprovalIds : Unaffected(a)
    PROVE  RowsOK'
BY DEF TInv, RowsOK, Unaffected, Grows

LEMMA Quiet ==
    ASSUME TInv, UNCHANGED <<ledger, runs, forgotten>>
    PROVE  (\A a \in ApprovalIds : Unaffected(a)) /\ \A c \in Conversations : Spared(c)
BY DEF Unaffected, OnRecord, Spared

\* A node that ends at s.
LEMMA AdvanceTold ==
    ASSUME TInv, IInv', Grows, NEW c \in Conversations,
           run[c] # None, run[c].pc \in GraphStates, NEW s \in Snapshot, Advance(c, s),
           broken' = broken, \A d \in Conversations \ {c} : Spared(d), RowsOK',
           Paired(c, s, broken), Told(c, s)',
           \A a \in ApprovalIds : LeadsTo(s, a) => Untouched(a)'
    PROVE  TInv'
<1> DEFINE n == run[c].steps + 1
<1>0. PICK q : q = GoesOn(run[c], s, n)
  OBVIOUS
<1>1. run[c] \in Run /\ n \in Nat
  BY InGraph DEF Run, TInv
<1>2. q \in Run /\ q.pc = "step" /\ q.at = s /\ q.decision = None
  <2> HIDE DEF n
  <2> QED
    BY <1>0, <1>1, RunGoesOn
<1>3. cp' = [cp EXCEPT ![c] = s] /\ run' = [run EXCEPT ![c] = IF s.next = "end" THEN None ELSE q]
  BY <1>0 DEF Advance, CallBecomes, GoesOn
<1>4. cp'[c] = s /\ run'[c] = IF s.next = "end" THEN None ELSE q
  BY <1>3 DEF TInv, IInv, TypeOK
<1>5. \A d \in Conversations \ {c} : cp'[d] = cp[d] /\ run'[d] = run[d]
  BY <1>3 DEF TInv, IInv, TypeOK
<1>6. s # None /\ s.next = "approval" => Untouched(s.approval.id)'
  <2> SUFFICES ASSUME s # None, s.next = "approval" PROVE Untouched(s.approval.id)'
    OBVIOUS
  <2>1. SnapshotOK(c, s, asked', votes')
    BY <1>4 DEF IInv, ConversationOK, Snapshot
  <2>2. s.approval.id \in ApprovalIds /\ LeadsTo(s, s.approval.id)
    BY <2>1 DEF SnapshotOK, PendingApproval, LeadsTo
  <2> QED
    BY <2>2 DEF Untouched
<1>7. ThreadTold(c, cp[c])'
  BY <1>4, <1>6 DEF ThreadTold, Told, Paired, LastMessage, Untouched
<1>8. Rested(c, cp[c], run[c])'
  BY <1>2, <1>4, NothingAssumption DEF Rested, GraphStates
<1>9. PlaceOK(q)'
  BY <1>2 DEF PlaceOK, GraphStates, LeadsTo, Untouched
<1>10. CallTold(c, run[c])'
  BY <1>2, <1>4, <1>9 DEF CallTold, Told, Paired, LastMessage, PlaceOK
<1>11. ConversationTold(c)'
  BY <1>7, <1>8, <1>10 DEF ConversationTold
<1> QED
  BY <1>5, <1>11, OneConversationTold

\* A step of c's call that leaves its thread alone.
LEMMA CallMovesTold ==
    ASSUME TInv, IInv', Grows, NEW c \in Conversations, cp' = cp, broken' = broken,
           \A d \in Conversations \ {c} : Spared(d), RowsOK',
           NEW r, CallBecomes(c, r), ThreadTold(c, cp[c])', Rested(c, cp[c], r), CallTold(c, r)'
    PROVE  TInv'
<1>1. run'[c] = r /\ \A d \in Conversations \ {c} : run'[d] = run[d]
  BY DEF TInv, IInv, TypeOK, CallBecomes
<1>2. Rested(c, cp[c], run[c])'
  BY <1>1 DEF Rested
<1>3. CallTold(c, run[c])'
  BY <1>1 DEF CallTold, Told, Paired, LastMessage, PlaceOK
<1>4. ConversationTold(c)'
  BY <1>2, <1>3 DEF ConversationTold
<1> QED
  BY <1>1, <1>4, OneConversationTold

\* A step of c's call outside its graph that touches no thread and no row.
LEMMA CallWaitsTold ==
    ASSUME TInv, IInv', Grows, NEW c \in Conversations, cp' = cp, broken' = broken,
           UNCHANGED <<ledger, runs, forgotten>>,
           run[c] = None \/ run[c].pc \notin GraphStates,
           NEW r, CallBecomes(c, r), r # None => r.pc \notin GraphStates
    PROVE  TInv'
<1>1. ConversationTold(c)
  BY DEF TInv
<1>2. ThreadTold(c, cp[c])'
  <2>1. PICK t : t = cp[c]
    OBVIOUS
  <2>2. t \in Snapshot \union {None} /\ ThreadTold(c, t)
        /\ (t # None => SnapshotOK(c, t, asked, votes))
    BY <1>1, <2>1 DEF TInv, IInv, TypeOK, ConversationOK, ConversationTold, ThreadTold
  <2>3. ThreadTold(c, t)'
    BY <2>2, Quiet, ThreadEndures
  <2> QED
    BY <2>1, <2>3 DEF ThreadTold, Told, Paired, LastMessage, Untouched
<1>3. Rested(c, cp[c], r)
  BY <1>1 DEF ConversationTold, Rested
<1>4. CallTold(c, r)'
  BY DEF CallTold
<1> QED
  BY <1>2, <1>3, <1>4, Quiet, RowsEndure, CallMovesTold

------------------------------------------------------------------------------
(* Every action keeps the invariant: the nodes *)

\* What the invariant says of a call inside its graph.
LEMMA InGraphTold ==
    ASSUME TInv, NEW c \in Conversations, run[c] # None, run[c].pc \in GraphStates
    PROVE  /\ run[c].at \in Snapshot
           /\ SnapshotOK(c, run[c].at, asked, votes)
           /\ Paired(c, run[c].at, broken)
           /\ Told(c, run[c].at)
           /\ PlaceOK(run[c])
           /\ run[c].pc # "step" =>
                /\ LeadsTo(run[c].at, run[c].at.tool.id)
                /\ run[c].at.tool.id \in ApprovalIds
                /\ Granted(c, run[c].at.tool.id, asked, votes)
           /\ run[c].at.next \in {"guard", "approval", "execute"} =>
                IsCall(LastMessage(run[c].at))
<1>1. IInv /\ CallTold(c, run[c])
  BY DEF TInv, ConversationTold
<1>2. Paired(c, run[c].at, broken) /\ Told(c, run[c].at) /\ PlaceOK(run[c])
  BY <1>1 DEF CallTold
<1>3. run[c].at.next \in {"guard", "approval", "execute"} => IsCall(LastMessage(run[c].at))
  <2>1. CASE run[c].at.next = "guard"
    BY <1>2, <2>1, GuardedCall
  <2>2. CASE run[c].at.next \in {"approval", "execute"}
    <3>1. PICK k \in {"safe", "risky"} : LastMessage(run[c].at) = AI(k)
      BY <1>2, <2>2 DEF Paired, PendingTool
    <3>2. AI(k).kind = "ai" /\ AI(k).what = k
      BY DEF AI
    <3> QED
      BY <3>1, <3>2 DEF IsCall
  <2> QED
    BY <2>1, <2>2
<1>4. run[c].pc # "step" =>
                /\ LeadsTo(run[c].at, run[c].at.tool.id)
                /\ run[c].at.tool.id \in ApprovalIds
                /\ Granted(c, run[c].at.tool.id, asked, votes)
  BY <1>1, InGraph DEF LeadsTo, Granted
<1> QED
  BY <1>1, <1>2, <1>3, <1>4, InGraph

\* A node that answers the call at the end of the history.
LEMMA AnswersTold ==
    ASSUME TInv, IInv', Grows, NEW c \in Conversations,
           run[c] # None, run[c].pc \in GraphStates,
           run[c].at.next \in {"guard", "approval", "execute"},
           NEW code \in Codes, NEW i \in ApprovalIds \union {None},
           Advance(c, Answered(run[c].at, code, i)),
           UNCHANGED <<ledger, runs, forgotten, broken>>,
           i # None => LeadsTo(run[c].at, i) /\ Reported(i, code)
    PROVE  TInv'
<1>1. PICK s, z : s = run[c].at /\ z = Answered(s, code, i)
  OBVIOUS
<1>2. /\ s \in Snapshot /\ SnapshotOK(c, s, asked, votes) /\ Paired(c, s, broken)
      /\ Told(c, s) /\ IsCall(LastMessage(s))
  BY <1>1, InGraphTold
<1>3. PICK m : m = Tool(code, i)
  OBVIOUS
<1>4. m \in Message /\ m.kind = "tool" /\ m.what = code /\ m.id = i
  BY <1>3 DEF Message, Tool
<1>5. z \in Snapshot /\ z.next = "model" /\ z.approval = None
  BY <1>1, <1>2, AnsweredTyped
<1>6. z.msgs = Append(s.msgs, m)
  BY <1>1, <1>2, <1>3 DEF Answered, Snapshot
<1>7. Paired(c, z, broken)
  <2>1. ~IsCall(m)
    BY <1>4 DEF IsCall
  <2> QED
    BY <1>2, <1>4, <1>5, <1>6, <2>1, PairedGrows
<1>8. \A a \in ApprovalIds : ~LeadsTo(z, a)
  BY <1>5 DEF LeadsTo
<1>9. Told(c, z)'
  <2>1. i # None => asked'[i] # None /\ asked'[i].conv = c /\ Reported(i, code)'
    <3> SUFFICES ASSUME i # None
                 PROVE  asked'[i] # None /\ asked'[i].conv = c /\ Reported(i, code)'
      OBVIOUS
    <3>1. i \in ApprovalIds /\ asked[i] # None /\ asked[i].conv = c
      BY <1>1, <1>2, LeadsHere
    <3> QED
      BY <3>1 DEF Reported, Grows
  <2>2. \A a \in ApprovalIds : Unaffected(a)
    BY Quiet
  <2>3. TypeOK
    BY DEF TInv, IInv
  <2> QED
    BY <1>2, <1>4, <1>5, <1>6, <1>8, <2>1, <2>2, <2>3, ToldGrows
<1>10. Advance(c, z)
  BY <1>1
<1>11. RowsOK' /\ \A d \in Conversations : Spared(d)
  BY Quiet, RowsEndure
<1> QED
  BY <1>5, <1>7, <1>8, <1>9, <1>10, <1>11, AdvanceTold

\* A node that leaves the call at the end of the history to the next node.
LEMMA PassesTold ==
    ASSUME TInv, IInv', Grows, NEW c \in Conversations,
           run[c] # None, run[c].pc \in GraphStates, NEW s \in Snapshot, Advance(c, s),
           UNCHANGED <<ledger, runs, forgotten, broken>>,
           s.msgs = run[c].at.msgs, s.next \in {"approval", "execute"},
           s.tool \in PendingTool, LastMessage(run[c].at) = AI(s.tool.risk),
           \A a \in ApprovalIds : LeadsTo(s, a) =>
                Untouched(a) /\ (asked[a] = None \/ LeadsTo(run[c].at, a))
    PROVE  TInv'
<1>1. PICK w : w = run[c].at
  OBVIOUS
<1>2. w \in Snapshot /\ Paired(c, w, broken) /\ Told(c, w)
  BY <1>1, InGraphTold
<1>3. Paired(c, s, broken)
  BY <1>1, <1>2, PairedOnward
<1>4. RowsOK' /\ (\A a \in ApprovalIds : Unaffected(a)) /\ \A d \in Conversations : Spared(d)
  BY Quiet, RowsEndure
<1>5. Told(c, s)'
  <2>1. TypeOK
    BY DEF TInv, IInv
  <2>2. \A a \in ApprovalIds : asked[a] # None /\ ~LeadsTo(w, a) => ~LeadsTo(s, a)
    BY <1>1
  <2> QED
    BY <1>1, <1>2, <1>4, <2>1, <2>2, ToldStays
<1>6. \A a \in ApprovalIds : LeadsTo(s, a) => Untouched(a)'
  BY DEF Untouched
<1> QED
  BY <1>3, <1>4, <1>5, <1>6, AdvanceTold

LEMMA CallModelTold ==
    ASSUME TInv, IInv', Grows, NEW c \in Conversations, NEW k \in CallKinds, CallModel(c, k)
    PROVE  TInv'
<1>1. PICK s, z, m : /\ s = run[c].at /\ m = AI(k)
                     /\ z = [s EXCEPT !.msgs = Append(@, AI(k)),
                                      !.next = IF k = "text" THEN "end" ELSE "guard"]
  OBVIOUS
<1>2. run[c] # None /\ run[c].pc \in GraphStates /\ s.next = "model"
  BY <1>1 DEF CallModel, AtNode, At, GraphStates
<1>3. s \in Snapshot /\ Paired(c, s, broken) /\ Told(c, s)
  BY <1>1, <1>2, InGraphTold
<1>4. m \in Message /\ m.kind = "ai" /\ m.what = k
  BY <1>1, CallKindsAssumption DEF AI, Message
<1>5. Append(s.msgs, m) \in Seq(Message)
  BY <1>3, <1>4 DEF Snapshot
<1>6. z \in Snapshot /\ z.next = (IF k = "text" THEN "end" ELSE "guard")
      /\ z.msgs = Append(s.msgs, m)
  BY <1>1, <1>3, <1>5 DEF Snapshot
<1>7. Paired(c, z, broken)
  <2>1. ~IsCall(LastMessage(s))
    BY <1>2, <1>3 DEF Paired
  <2>2. /\ z.next = "guard" => k \in AllCallKinds \ {"text"}
        /\ z.next # "guard" => ~IsCall(m)
    BY <1>4, <1>6, CallKindsAssumption DEF IsCall
  <2>3. z.next \in {"model", "guard", "end"} /\ m.kind # "tool"
    BY <1>4, <1>6
  <2> QED
    BY <1>1, <1>3, <1>4, <1>6, <2>1, <2>2, <2>3, PairedGrows
<1>8. \A a \in ApprovalIds : ~LeadsTo(z, a)
  BY <1>6 DEF LeadsTo
<1>9. UNCHANGED <<ledger, runs, forgotten, broken>> /\ Advance(c, z)
  BY <1>1 DEF CallModel, history
<1>10. RowsOK' /\ (\A a \in ApprovalIds : Unaffected(a)) /\ \A d \in Conversations : Spared(d)
  BY <1>9, Quiet, RowsEndure
<1>11. Told(c, z)'
  <2>1. TypeOK
    BY DEF TInv, IInv
  <2> QED
    BY <1>3, <1>4, <1>6, <1>8, <1>10, <2>1, ToldGrows
<1> QED
  BY <1>2, <1>6, <1>7, <1>8, <1>9, <1>10, <1>11, AdvanceTold

LEMMA GuardRefusesTold ==
    ASSUME TInv, IInv', Grows, NEW c \in Conversations, GuardRefuses(c)
    PROVE  TInv'
<1>1. run[c] # None /\ run[c].pc \in GraphStates /\ run[c].at.next = "guard"
  BY DEF GuardRefuses, AtNode, At, GraphStates
<1>2. Advance(c, Answered(run[c].at, "invalid_arguments", None))
      /\ UNCHANGED <<ledger, runs, forgotten, broken>>
  BY DEF GuardRefuses, history
<1>3. "invalid_arguments" \in Codes
  BY DEF Codes
<1> QED
  BY <1>1, <1>2, <1>3, AnswersTold

LEMMA GuardPassesTold ==
    ASSUME TInv, IInv', Grows, NEW c \in Conversations, GuardPasses(c)
    PROVE  TInv'
<1>1. PICK s : s = [run[c].at EXCEPT !.tool = [risk |-> "safe", id |-> None],
                                     !.approval = None, !.next = "execute"]
  OBVIOUS
<1>2. run[c] # None /\ run[c].pc \in GraphStates /\ run[c].at.next = "guard"
      /\ LastMessage(run[c].at).what = "safe"
  BY DEF GuardPasses, AtNode, At, GraphStates
<1>3. run[c].at \in Snapshot /\ Paired(c, run[c].at, broken)
  BY <1>2, InGraphTold
<1>4. [risk |-> "safe", id |-> None] \in PendingTool
  BY DEF PendingTool
<1>5. /\ s \in Snapshot /\ s.next = "execute" /\ s.msgs = run[c].at.msgs
      /\ s.tool = [risk |-> "safe", id |-> None]
  BY <1>1, <1>3, <1>4 DEF Snapshot
<1>6. LastMessage(run[c].at) = AI("safe")
  BY <1>2, <1>3, GuardedCall
<1>7. \A a \in ApprovalIds : ~LeadsTo(s, a)
  BY <1>5 DEF LeadsTo
<1>8. Advance(c, s) /\ UNCHANGED <<ledger, runs, forgotten, broken>>
  BY <1>1 DEF GuardPasses, history
<1> QED
  BY <1>2, <1>4, <1>5, <1>6, <1>7, <1>8, PassesTold

LEMMA UnaskedUntouched ==
    ASSUME TInv, NEW a \in ApprovalIds, asked[a] = None
    PROVE  Untouched(a)
<1>1. ledger[a] = None
  BY DEF TInv, RowsOK
<1>2. runs[a] = 0
  BY DEF TInv, IInv, StartedOK, TypeOK
<1> QED
  BY <1>1, <1>2 DEF Untouched

LEMMA GuardAsksTold ==
    ASSUME TInv, IInv', Grows, NEW c \in Conversations, NEW a \in ApprovalIds, GuardAsks(c, a)
    PROVE  TInv'
<1>1. PICK p : p = [id |-> a, actor |-> run[c].at.actor, conv |-> c]
  OBVIOUS
<1>2. PICK s : s = [run[c].at EXCEPT !.tool = [risk |-> "risky", id |-> a],
                                     !.approval = p, !.next = "approval"]
  OBVIOUS
<1>3. run[c] # None /\ run[c].pc \in GraphStates /\ run[c].at.next = "guard"
      /\ LastMessage(run[c].at).what = "risky"
  BY DEF GuardAsks, AtNode, At, GraphStates
<1>4. run[c].at \in Snapshot /\ Paired(c, run[c].at, broken) /\ run[c].at.actor \in Actors
  BY <1>3, InGraphTold DEF Snapshot
<1>5. p \in PendingApproval /\ p.id = a /\ [risk |-> "risky", id |-> a] \in PendingTool
  BY <1>1, <1>4 DEF PendingTool, PendingApproval
<1>6. /\ s \in Snapshot /\ s.next = "approval" /\ s.approval = p /\ s.msgs = run[c].at.msgs
      /\ s.tool = [risk |-> "risky", id |-> a]
  BY <1>2, <1>4, <1>5 DEF Snapshot
<1>7. LastMessage(run[c].at) = AI("risky")
  BY <1>3, <1>4, GuardedCall
<1>8. \A b \in ApprovalIds : LeadsTo(s, b) => b = a
  BY <1>5, <1>6 DEF LeadsTo
<1>9. asked[a] = None
  BY DEF GuardAsks
<1>10. Advance(c, s) /\ UNCHANGED <<ledger, runs, forgotten, broken>>
  BY <1>1, <1>2 DEF GuardAsks
<1> QED
  BY <1>3, <1>5, <1>6, <1>7, <1>8, <1>9, <1>10, UnaskedUntouched, PassesTold

LEMMA AwaitApprovalTold ==
    ASSUME TInv, IInv', Grows, NEW c \in Conversations, AwaitApproval(c)
    PROVE  TInv'
<1>1. PICK w : w = run[c].at
  OBVIOUS
<1>2. run[c] # None /\ run[c].pc = "step" /\ run[c].pc \in GraphStates /\ w.next = "approval"
  BY <1>1 DEF AwaitApproval, AtNode, At, GraphStates
<1>3. w \in Snapshot /\ SnapshotOK(c, w, asked, votes) /\ Paired(c, w, broken) /\ PlaceOK(run[c])
  BY <1>1, <1>2, InGraphTold
<1>4. w.approval.id \in ApprovalIds /\ LeadsTo(w, w.approval.id)
      /\ w.tool = [risk |-> "risky", id |-> w.approval.id]
  BY <1>2, <1>3 DEF SnapshotOK, PendingApproval, LeadsTo
<1>5. Untouched(w.approval.id)
  BY <1>1, <1>2, <1>3, <1>4 DEF PlaceOK
<1>6. UNCHANGED <<ledger, runs, forgotten, broken>>
  BY DEF AwaitApproval, history
<1>7. CASE Passes(run[c].decision, w.approval)
  <2>1. PICK s : s = [w EXCEPT !.approval = None, !.next = "execute"]
    OBVIOUS
  <2>2. s \in Snapshot /\ s.next = "execute" /\ s.tool = w.tool /\ s.msgs = w.msgs
    BY <1>3, <2>1 DEF Snapshot
  <2>3. Advance(c, s)
    BY <1>1, <1>7, <2>1 DEF AwaitApproval
  <2>4. s.tool \in PendingTool /\ LastMessage(w) = AI(s.tool.risk)
    BY <1>2, <1>3, <2>2 DEF Paired
  <2>5. \A a \in ApprovalIds : LeadsTo(s, a) => a = w.approval.id
    BY <1>4, <2>2 DEF LeadsTo
  <2> QED
    BY <1>1, <1>2, <1>4, <1>5, <1>6, <2>2, <2>3, <2>4, <2>5, PassesTold
<1>8. CASE ~Passes(run[c].decision, w.approval)
  <2>1. PICK code \in RefusalCodes : Advance(c, Answered(w, code, w.approval.id))
    BY <1>1, <1>8 DEF AwaitApproval, RefusalCodes
  <2>2. code \in Codes /\ code \notin HandlerCodes
    BY DEF Codes, RefusalCodes, HandlerCodes
  <2>3. Reported(w.approval.id, code)
    BY <1>5, <2>2 DEF Reported, Untouched, Started
  <2> QED
    BY <1>1, <1>2, <1>4, <1>6, <2>1, <2>2, <2>3, AnswersTold
<1> QED
  BY <1>7, <1>8

LEMMA ExecuteSafeTold ==
    ASSUME TInv, IInv', Grows, NEW c \in Conversations,
           NEW code \in Outcomes \union {"invalid_arguments"}, ExecuteSafe(c, code)
    PROVE  TInv'
<1>1. run[c] # None /\ run[c].pc \in GraphStates /\ run[c].at.next = "execute"
  BY DEF ExecuteSafe, AtNode, At, GraphStates
<1>2. Advance(c, Answered(run[c].at, code, None))
      /\ UNCHANGED <<ledger, runs, forgotten, broken>>
  BY DEF ExecuteSafe, history
<1>3. code \in Codes
  BY OutcomesAssumption DEF Codes
<1> QED
  BY <1>1, <1>2, <1>3, AnswersTold

LEMMA PutResultTold ==
    ASSUME TInv, IInv', Grows, NEW c \in Conversations, PutResult(c)
    PROVE  TInv'
<1>1. run[c] # None /\ run[c].pc = "put" /\ run[c].pc \in GraphStates
  BY DEF PutResult, At, GraphStates
<1>2. PICK a, code : a = run[c].at.tool.id /\ code = run[c].result
  OBVIOUS
<1>3. a \in ApprovalIds /\ LeadsTo(run[c].at, a) /\ Reported(a, code)
  BY <1>1, <1>2, InGraphTold DEF PlaceOK
<1>4. code \in Codes /\ run[c].at.next = "execute"
  BY <1>1, <1>2, InGraph DEF TInv, IInv, ConversationOK, RunOK
<1>5. Advance(c, Answered(run[c].at, code, a)) /\ UNCHANGED <<ledger, runs, forgotten, broken>>
  BY <1>2 DEF PutResult, history
<1> QED
  BY <1>1, <1>3, <1>4, <1>5, AnswersTold

\* A step of c's call between its claim and its answer: only what is on record of the
\* approved call changes.
LEMMA ApprovedTold ==
    ASSUME TInv, IInv', Grows, NEW c \in Conversations, run[c] # None,
           run[c].pc \in GraphStates, run[c].at.next = "execute", run[c].at.tool.risk = "risky",
           NEW a \in ApprovalIds, a = run[c].at.tool.id,
           cp' = cp, broken' = broken, NEW r, CallBecomes(c, r),
           r \in Run, r.at = run[c].at, r.pc \in GraphStates, PlaceOK(r)',
           \A b \in ApprovalIds \ {a} : Unaffected(b),
           OnRecord(a)', ledger'[a] # None => ledger'[a].conv = c
    PROVE  TInv'
<1>1. PICK s : s = run[c].at
  OBVIOUS
<1>2. /\ s \in Snapshot /\ SnapshotOK(c, s, asked, votes) /\ Paired(c, s, broken)
      /\ Told(c, s) /\ LeadsTo(s, a) /\ s.next = "execute"
  BY <1>1, InGraphTold DEF LeadsTo
<1>3. asked[a] # None /\ asked[a].conv = c
  BY <1>2, LeadsHere
<1>4. \A d \in Conversations \ {c} : Spared(d)
  BY <1>3 DEF Spared
<1>5. Told(c, s)'
  <2>1. TypeOK
    BY DEF TInv, IInv
  <2>2. \A b \in ApprovalIds : ~LeadsTo(s, b) => Unaffected(b)
    BY <1>2
  <2> QED
    BY <1>2, <2>1, <2>2, ToldStays
<1>6. cp[c] \in {None, s}
  BY <1>1, InGraph DEF TInv
<1>7. ThreadTold(c, cp[c])'
  BY <1>2, <1>5, <1>6 DEF ThreadTold, Told, Paired, LastMessage
<1>8. Rested(c, cp[c], r)
  BY NothingAssumption DEF Rested
<1>9. CallTold(c, r)'
  BY <1>1, <1>2, <1>5 DEF CallTold, Told, Paired, LastMessage
<1>10. RowsOK'
  <2> SUFFICES ASSUME NEW b \in ApprovalIds
               PROVE  /\ ledger'[b] # None => asked'[b] # None /\ ledger'[b].conv = asked'[b].conv
                      /\ runs'[b] > 0 => OnRecord(b)'
    BY DEF RowsOK, OnRecord
  <2>1. CASE b = a
    BY <1>3, <2>1 DEF Grows, OnRecord
  <2>2. CASE b # a
    BY <2>2 DEF TInv, RowsOK, Unaffected, Grows
  <2> QED
    BY <2>1, <2>2
<1> QED
  BY <1>4, <1>7, <1>8, <1>9, <1>10, CallMovesTold

LEMMA ClaimTold ==
    ASSUME TInv, IInv', Grows, NEW c \in Conversations, Claim(c)
    PROVE  TInv'
<1>1. PICK a, r : a = run[c].at.tool.id /\ r = [run[c] EXCEPT !.pc = "handler"]
  OBVIOUS
<1>2. run[c] # None /\ run[c].pc = "step" /\ run[c].pc \in GraphStates
      /\ run[c].at.next = "execute" /\ run[c].at.tool.risk = "risky"
  BY DEF Claim, AtNode, At, GraphStates
<1>3. run[c] \in Run /\ run[c].at \in Snapshot /\ PlaceOK(run[c])
      /\ SnapshotOK(c, run[c].at, asked, votes)
  BY <1>2, InGraphTold DEF TInv, IInv, TypeOK
<1>4. a \in ApprovalIds /\ LeadsTo(run[c].at, a)
  BY <1>1, <1>2, <1>3 DEF SnapshotOK, Granted, LeadsTo
<1>5. Untouched(a)
  BY <1>2, <1>3, <1>4 DEF PlaceOK
<1>6. ledger' = [ledger EXCEPT ![a] = [conv |-> c, status |-> "started", result |-> None]]
      /\ CallBecomes(c, r) /\ cp' = cp
  BY <1>1, <1>5 DEF Claim, InsertRow, Untouched
<1>7. UNCHANGED <<runs, forgotten, broken>>
  BY DEF Claim, history
<1>8. PICK row : row = [conv |-> c, status |-> "started", result |-> None]
  OBVIOUS
<1>9. ledger'[a] = row /\ row # None /\ row.conv = c
      /\ \A b \in ApprovalIds \ {a} : ledger'[b] = ledger[b]
  <2>1. row \in Row
    BY <1>8 DEF Row
  <2> QED
    BY <1>4, <1>6, <1>8, <2>1, NothingAssumption DEF TInv, IInv, TypeOK
<1>10. \A b \in ApprovalIds \ {a} : Unaffected(b)
  BY <1>7, <1>9 DEF Unaffected, OnRecord
<1>11. r \in Run /\ r.pc = "handler" /\ r.at = run[c].at
  BY <1>1, <1>3 DEF Run
<1>12. PlaceOK(r)' /\ OnRecord(a)'
  BY <1>1, <1>5, <1>7, <1>9, <1>11 DEF PlaceOK, OnRecord, Untouched
<1>13. r.pc \in GraphStates
  BY <1>11 DEF GraphStates
<1> QED
  BY <1>1, <1>2, <1>4, <1>6, <1>7, <1>9, <1>10, <1>11, <1>12, <1>13, ApprovedTold

LEMMA StartHandlerTold ==
    ASSUME TInv, IInv', Grows, NEW c \in Conversations, StartHandler(c)
    PROVE  TInv'
<1>1. PICK a : a = run[c].at.tool.id
  OBVIOUS
<1>2. run[c] # None /\ run[c].pc = "handler" /\ run[c].pc \in GraphStates
  BY DEF StartHandler, At, GraphStates
<1>3. run[c] \in Run /\ a \in ApprovalIds /\ runs[a] = 0 /\ OnRecord(a)
  BY <1>1, <1>2, InGraphTold DEF PlaceOK, TInv, IInv, TypeOK
<1>4. run[c].at.next = "execute" /\ run[c].at.tool.risk = "risky"
  BY <1>2, InGraph DEF TInv
<1>5. UNCHANGED <<cp, ledger, forgotten, broken>>
  BY DEF StartHandler
<1>6. ledger'[a] # None => ledger'[a].conv = c
  <2>1. asked[a].conv = c
    BY <1>1, <1>2, InGraph DEF TInv, Granted
  <2> QED
    BY <1>3, <1>5, <2>1 DEF TInv, RowsOK
<1>7. OnRecord(a)'
  BY <1>3, <1>5 DEF OnRecord
<1>8. CASE runs' = runs /\ CallBecomes(c, [run[c] EXCEPT !.pc = "complete",
                                                       !.result = "invalid_arguments"])
  <2>1. PICK r : r = [run[c] EXCEPT !.pc = "complete", !.result = "invalid_arguments"]
    OBVIOUS
  <2>2. r \in Run /\ r.pc = "complete" /\ r.at = run[c].at /\ r.result = "invalid_arguments"
    BY <1>3, <2>1 DEF Run, Codes
  <2>3. PlaceOK(r)' /\ r.pc \in GraphStates
    BY <1>1, <1>3, <1>7, <1>8, <2>2 DEF PlaceOK, Started, HandlerCodes, GraphStates, OnRecord
  <2>4. \A b \in ApprovalIds \ {a} : Unaffected(b)
    BY <1>5, <1>8, Quiet
  <2> QED
    BY <1>1, <1>2, <1>3, <1>4, <1>5, <1>6, <1>7, <1>8, <2>1, <2>2, <2>3, <2>4, ApprovedTold
<1>9. CASE /\ CallBecomes(c, [run[c] EXCEPT !.pc = "running"])
           /\ runs' = [runs EXCEPT ![run[c].at.tool.id] = @ + 1]
  <2>1. PICK r : r = [run[c] EXCEPT !.pc = "running"]
    OBVIOUS
  <2>2. r \in Run /\ r.pc = "running" /\ r.at = run[c].at
    BY <1>3, <2>1 DEF Run
  <2>3. runs'[a] = 1 /\ \A b \in ApprovalIds \ {a} : runs'[b] = runs[b]
    BY <1>1, <1>3, <1>9 DEF TInv, IInv, TypeOK
  <2>4. PlaceOK(r)' /\ r.pc \in GraphStates
    BY <1>1, <1>7, <2>2, <2>3 DEF PlaceOK, GraphStates, OnRecord
  <2>5. \A b \in ApprovalIds \ {a} : Unaffected(b)
    BY <1>5, <2>3 DEF Unaffected, OnRecord
  <2> QED
    BY <1>1, <1>2, <1>3, <1>4, <1>5, <1>6, <1>7, <1>9, <2>1, <2>2, <2>4, <2>5, ApprovedTold
<1> QED
  BY <1>8, <1>9 DEF StartHandler

LEMMA EndHandlerTold ==
    ASSUME TInv, IInv', Grows, NEW c \in Conversations, NEW code \in Outcomes,
           EndHandler(c, code)
    PROVE  TInv'
<1>1. PICK a, r : a = run[c].at.tool.id
                  /\ r = [run[c] EXCEPT !.pc = "complete", !.result = code]
  OBVIOUS
<1>2. run[c] # None /\ run[c].pc = "running" /\ run[c].pc \in GraphStates
  BY DEF EndHandler, At, GraphStates
<1>3. run[c] \in Run /\ a \in ApprovalIds /\ runs[a] = 1 /\ OnRecord(a)
  BY <1>1, <1>2, InGraphTold DEF PlaceOK, TInv, IInv, TypeOK
<1>4. run[c].at.next = "execute" /\ run[c].at.tool.risk = "risky" /\ asked[a].conv = c
  BY <1>1, <1>2, InGraph DEF TInv, Granted
<1>5. UNCHANGED <<cp, ledger, runs, forgotten, broken>> /\ CallBecomes(c, r)
  BY <1>1 DEF EndHandler, history
<1>6. (ledger'[a] # None => ledger'[a].conv = c) /\ OnRecord(a)'
  BY <1>3, <1>4, <1>5 DEF TInv, RowsOK, OnRecord
<1>7. code \in HandlerCodes /\ code \in Codes
  BY OutcomesAssumption DEF Codes
<1>8. r \in Run /\ r.pc = "complete" /\ r.at = run[c].at /\ r.result = code
  BY <1>1, <1>3, <1>7 DEF Run
<1>9. PlaceOK(r)' /\ r.pc \in GraphStates
  BY <1>1, <1>3, <1>5, <1>6, <1>7, <1>8 DEF PlaceOK, Started, GraphStates, OnRecord
<1>10. \A b \in ApprovalIds \ {a} : Unaffected(b)
  BY <1>5, Quiet
<1> QED
  BY <1>1, <1>2, <1>3, <1>4, <1>5, <1>6, <1>8, <1>9, <1>10, ApprovedTold

LEMMA CompleteTold ==
    ASSUME TInv, IInv', Grows, NEW c \in Conversations, Complete(c)
    PROVE  TInv'
<1>1. PICK a, r : a = run[c].at.tool.id /\ r = [run[c] EXCEPT !.pc = "put"]
  OBVIOUS
<1>2. run[c] # None /\ run[c].pc = "complete" /\ run[c].pc \in GraphStates
  BY DEF Complete, At, GraphStates
<1>3. run[c] \in Run /\ a \in ApprovalIds /\ runs[a] = Started(run[c].result) /\ OnRecord(a)
  BY <1>1, <1>2, InGraphTold DEF PlaceOK, TInv, IInv, TypeOK
<1>4. run[c].at.next = "execute" /\ run[c].at.tool.risk = "risky" /\ asked[a].conv = c
  BY <1>1, <1>2, InGraph DEF TInv, Granted
<1>5. UNCHANGED <<cp, runs, forgotten, broken>> /\ CallBecomes(c, r)
  BY <1>1 DEF Complete, history
<1>6. r \in Run /\ r.pc = "put" /\ r.at = run[c].at /\ r.result = run[c].result
  BY <1>1, <1>3 DEF Run
<1>7. /\ ledger[a] = None => ledger' = ledger
      /\ ledger[a] # None =>
            ledger' = [ledger EXCEPT ![a] = [ledger[a] EXCEPT !.status = "completed",
                                                             !.result = r.result]]
  BY <1>1, <1>3, <1>6 DEF Complete, SetResult, TInv, IInv, TypeOK
<1>8. /\ ledger'[a] # None => /\ ledger[a] # None /\ ledger'[a].conv = ledger[a].conv
                              /\ ledger'[a].status = "completed"
                              /\ ledger'[a].result = r.result
      /\ ledger[a] # None => ledger'[a] # None
      /\ \A b \in ApprovalIds \ {a} : ledger'[b] = ledger[b]
  <2>1. CASE ledger[a] = None
    BY <1>3, <1>7, <2>1
  <2>2. CASE ledger[a] # None
    <3>1. PICK row : row = [ledger[a] EXCEPT !.status = "completed", !.result = r.result]
      OBVIOUS
    <3>2. ledger[a] \in Row /\ r.result \in Codes
      BY <1>2, <1>3, <1>6, <2>2 DEF TInv, IInv, TypeOK, ConversationOK, RunOK
    <3>3. row \in Row /\ row.conv = ledger[a].conv /\ row.status = "completed"
          /\ row.result = r.result
      BY <3>1, <3>2 DEF Row
    <3>4. ledger' = [ledger EXCEPT ![a] = row] /\ row # None
      BY <1>7, <2>2, <3>1, <3>3, NothingAssumption
    <3> QED
      BY <1>3, <2>2, <3>3, <3>4 DEF TInv, IInv, TypeOK
  <2> QED
    BY <2>1, <2>2
<1>9. (ledger'[a] # None => ledger'[a].conv = c) /\ OnRecord(a)'
  BY <1>3, <1>4, <1>5, <1>8 DEF TInv, RowsOK, OnRecord
<1>10. PlaceOK(r)' /\ r.pc \in GraphStates
  BY <1>1, <1>3, <1>5, <1>6, <1>8, <1>9 DEF PlaceOK, Reported, GraphStates, OnRecord
<1>11. \A b \in ApprovalIds \ {a} : Unaffected(b)
  BY <1>5, <1>8 DEF Unaffected, OnRecord
<1> QED
  BY <1>1, <1>2, <1>3, <1>4, <1>5, <1>6, <1>9, <1>10, <1>11, ApprovedTold

------------------------------------------------------------------------------
(* Every action keeps the invariant: calls, failures and reset() *)

\* Steps that only end calls, drop threads and rows.
LEMMA OnlyEnds ==
    ASSUME TInv, IInv', Grows, \A a \in ApprovalIds : Unaffected(a),
           \A c \in Conversations :
                /\ cp'[c] \in {None, cp[c]}
                /\ run'[c] \in {None, run[c]}
                /\ c \in broken => c \in broken'
                /\ \/ run'[c] = run[c] \/ c \in broken' \/ run[c].pc \notin GraphStates
                   \/ cp'[c] = None \/ cp[c].next = "approval"
    PROVE  TInv'
<1>1. ASSUME NEW c \in Conversations PROVE ConversationTold(c)'
  <2>1. Spared(c)
    BY DEF Spared
  <2>2. Rested(c, cp[c], run[c])
    BY DEF TInv, ConversationTold
  <2>3. Rested(c, cp[c], run[c])'
    BY <2>2 DEF Rested
  <2> QED
    BY <2>1, <2>3, Endures
<1> QED
  BY <1>1, RowsEndure DEF TInv

LEMMA ReceiveTold ==
    ASSUME TInv, IInv', Grows, NEW c \in Conversations, NEW call \in Calls, Receive(c, call)
    PROVE  TInv'
<1>1. PICK r : r = [pc |-> IF call.op = "reset" THEN "reset" ELSE "read", call |-> call,
                    seen |-> None, at |-> None, decision |-> None, steps |-> 0,
                    result |-> None]
  OBVIOUS
<1>2. r.pc \notin GraphStates
  BY <1>1 DEF GraphStates
<1>3. /\ cp' = cp /\ broken' = broken /\ UNCHANGED <<ledger, runs, forgotten>>
      /\ run[c] = None /\ CallBecomes(c, r)
  BY <1>1 DEF Receive
<1> QED
  BY <1>2, <1>3, CallWaitsTold

LEMMA ReadPendingTold ==
    ASSUME TInv, IInv', Grows, NEW c \in Conversations, ReadPending(c)
    PROVE  TInv'
<1>1. PICK r : r = [run[c] EXCEPT !.pc = "decide",
                                  !.seen = IF cp[c] = None THEN None ELSE cp[c].approval]
  OBVIOUS
<1>2. run[c] \in Run /\ run[c].pc = "read"
  BY DEF TInv, IInv, TypeOK, ReadPending, At
<1>3. r.pc \notin GraphStates /\ run[c].pc \notin GraphStates
  BY <1>1, <1>2 DEF GraphStates, Run
<1>4. cp' = cp /\ broken' = broken /\ UNCHANGED <<ledger, runs, forgotten>> /\ CallBecomes(c, r)
  BY <1>1 DEF ReadPending, history
<1> QED
  BY <1>3, <1>4, CallWaitsTold

LEMMA DeclineTold ==
    ASSUME TInv, IInv', Grows, NEW c \in Conversations, Decline(c)
    PROVE  TInv'
<1>1. run[c].pc \notin GraphStates
  BY DEF Decline, At, GraphStates
<1>2. cp' = cp /\ broken' = broken /\ UNCHANGED <<ledger, runs, forgotten>>
      /\ CallBecomes(c, None)
  BY DEF Decline, Release, history
<1> QED
  BY <1>1, <1>2, CallWaitsTold

\* A message after a thread whose last call was not answered: the thread was cut off.
LEMMA StartGraphTold ==
    ASSUME TInv, IInv', Grows, NEW c \in Conversations, StartGraph(c)
    PROVE  TInv'
<1>1. PICK s : s = IF cp[c] = None
                   THEN [msgs |-> <<Human>>, actor |-> run[c].call.actor, tool |-> None,
                         approval |-> None, next |-> "model"]
                   ELSE [cp[c] EXCEPT !.msgs = Append(@, Human), !.actor = run[c].call.actor,
                                      !.next = "model"]
  OBVIOUS
<1>2. /\ run[c] \in Run /\ run[c].pc = "decide" /\ run[c].seen = None /\ run[c] # None
      /\ ConversationOK(c) /\ ThreadTold(c, cp[c]) /\ Rested(c, cp[c], run[c])
  BY DEF TInv, IInv, TypeOK, StartGraph, At, ConversationTold
<1>3. cp[c] # None => cp[c] \in Snapshot /\ cp[c].approval = None /\ SnapshotOK(c, cp[c], asked, votes)
  BY <1>2 DEF ConversationOK, RunOK, TInv, IInv, TypeOK
<1>4. Human \in Message /\ run[c].call.actor \in Actors /\ ~IsCall(Human) /\ Human.kind = "human"
  BY <1>2 DEF Human, Message, Run, Call, AllCallKinds, IsCall
<1>5. UNCHANGED <<ledger, runs, forgotten, broken>>
  BY DEF StartGraph, history
<1>6. (\A a \in ApprovalIds : Unaffected(a)) /\ RowsOK' /\ \A d \in Conversations : Spared(d)
  BY <1>5, Quiet, RowsEndure
<1>7. s \in Snapshot /\ s.next = "model" /\ Paired(c, s, broken) /\ Told(c, s)'
  <2>1. CASE cp[c] = None
    <3>1. s \in Snapshot /\ s.next = "model" /\ s.msgs = <<Human>>
      BY <2>1, <1>1, <1>4 DEF Snapshot
    <3>2. Len(s.msgs) = 1 /\ DOMAIN s.msgs = {1} /\ s.msgs[1] = Human
      BY <3>1
    <3>3. Paired(c, s, broken)
      BY <3>1, <3>2, <1>4 DEF Paired, LastMessage
    <3>4. Told(c, s)'
      BY <3>2, <1>4 DEF Told
    <3> QED
      BY <3>1, <3>3, <3>4
  <2>2. CASE cp[c] # None
    <3>1. PICK w : w = cp[c]
      OBVIOUS
    <3>2. w \in Snapshot /\ Paired(c, w, broken) /\ Told(c, w)
      BY <1>2, <1>3, <2>2, <3>1 DEF ThreadTold
    <3>3. Append(w.msgs, Human) \in Seq(Message)
      BY <3>2, <1>4 DEF Snapshot
    <3>4. s \in Snapshot /\ s.next = "model" /\ s.msgs = Append(w.msgs, Human)
      BY <2>2, <3>1, <3>2, <3>3, <1>1, <1>4 DEF Snapshot
    <3>5. IsCall(LastMessage(w)) => c \in broken
      <4> SUFFICES ASSUME c \notin broken PROVE ~IsCall(LastMessage(w))
        OBVIOUS
      <4>1. w.next \in {"approval", "end"}
        BY <1>2, <2>2, <3>1 DEF Rested, GraphStates
      <4>2. w.next # "approval"
        BY <1>3, <2>2, <3>1, NothingAssumption DEF SnapshotOK
      <4> QED
        BY <3>2, <4>1, <4>2 DEF Paired
    <3>6. Paired(c, s, broken)
      BY <3>2, <3>4, <3>5, <1>4, PairedGrows
    <3>7. \A a \in ApprovalIds : ~LeadsTo(s, a)
      BY <3>4 DEF LeadsTo
    <3>8. TypeOK
      BY DEF TInv, IInv
    <3>9. Told(c, s)'
      BY <3>2, <3>4, <3>7, <3>8, <1>4, <1>6, ToldGrows
    <3> QED
      BY <3>4, <3>6, <3>9
  <2> QED
    BY <2>1, <2>2
<1>8. PICK r : r = [run[c] EXCEPT !.pc = "step", !.at = s]
  OBVIOUS
<1>9. r \in Run /\ r.pc = "step" /\ r.at = s /\ r.decision = None
  <2>1. run[c].decision = None
    BY <1>2 DEF ConversationOK, RunOK, GraphStates
  <2> QED
    BY <1>2, <1>7, <1>8, <2>1 DEF Run
<1>10. cp' = [cp EXCEPT ![c] = s] /\ run' = [run EXCEPT ![c] = r]
  BY <1>1, <1>8 DEF StartGraph, CallBecomes
<1>11. /\ cp'[c] = s /\ run'[c] = r
       /\ \A d \in Conversations \ {c} : cp'[d] = cp[d] /\ run'[d] = run[d]
  BY <1>10 DEF TInv, IInv, TypeOK
<1>12. ThreadTold(c, cp[c])'
  BY <1>5, <1>7, <1>11 DEF ThreadTold, Told, Paired, LastMessage
<1>13. Rested(c, cp[c], run[c])'
  BY <1>9, <1>11, NothingAssumption DEF Rested, GraphStates
<1>14. CallTold(c, run[c])'
  <2>1. PlaceOK(r)'
    BY <1>7, <1>9 DEF PlaceOK, LeadsTo, GraphStates
  <2> QED
    BY <2>1, <1>5, <1>7, <1>9, <1>11 DEF CallTold, Told, Paired, LastMessage, PlaceOK
<1>15. ConversationTold(c)'
  BY <1>12, <1>13, <1>14 DEF ConversationTold
<1> QED
  BY <1>5, <1>6, <1>11, <1>15, OneConversationTold

LEMMA ResumeGraphTold ==
    ASSUME TInv, IInv', Grows, NEW c \in Conversations, ResumeGraph(c)
    PROVE  TInv'
<1>1. PICK d : d = [id |-> run[c].seen.id, actor |-> run[c].call.actor, conv |-> c,
                    approved |-> run[c].call.op = "approve" /\ run[c].seen.id \notin expired]
  OBVIOUS
<1>2. /\ run[c] \in Run /\ run[c].pc = "decide" /\ run[c].pc \notin GraphStates /\ run[c] # None
      /\ ConversationOK(c) /\ ThreadTold(c, cp[c])
  BY DEF TInv, IInv, TypeOK, ResumeGraph, At, ConversationTold, GraphStates
<1>3. UNCHANGED <<cp, ledger, runs, forgotten>>
  BY DEF ResumeGraph, GiveUp
<1>4. (\A a \in ApprovalIds : Unaffected(a)) /\ RowsOK' /\ \A x \in Conversations : Spared(x)
  BY <1>3, Quiet, RowsEndure
<1>5. CASE GiveUp(c)
  BY <1>3, <1>4, <1>5, <1>2, OnlyEnds DEF GiveUp, Release, CallBecomes, TInv, IInv, TypeOK
<1>6. CASE /\ cp[c] # None /\ UNCHANGED broken
           /\ CallBecomes(c, [run[c] EXCEPT !.pc = "step", !.at = cp[c], !.decision = d])
  <2>1. PICK s, r : s = cp[c] /\ r = [run[c] EXCEPT !.pc = "step", !.at = s, !.decision = d]
    OBVIOUS
  <2>2. /\ s \in Snapshot /\ SnapshotOK(c, s, asked, votes) /\ s.approval = run[c].seen
        /\ ThreadTold(c, s) /\ s # None
    BY <1>2, <1>6, <2>1 DEF TInv, IInv, TypeOK, ConversationOK, RunOK
  <2>3. r.pc = "step" /\ r.at = s /\ r.decision = d /\ r.call = run[c].call
    BY <1>2, <2>1 DEF Run
  <2>4. run[c].seen # None
    BY DEF ResumeGraph, MaySettle
  <2>5. s.next = "approval" /\ s.approval.id \in ApprovalIds /\ LeadsTo(s, s.approval.id)
    BY <2>2, <2>4 DEF SnapshotOK, PendingApproval, LeadsTo
  <2>6. Unaffected(s.approval.id) /\ Untouched(s.approval.id)
    BY <1>4, <2>2, <2>5 DEF ThreadTold
  <2>7. s.approval.id \in expired' \/ VotesOn(r.call, s.approval)
    BY <2>2, <2>3 DEF ResumeGraph, MaySettle, Grows, VotesOn
  <2>8. PlaceOK(r)'
    BY <2>3, <2>5, <2>6, <2>7 DEF PlaceOK, LeadsTo, GraphStates, Untouched, Unaffected
  <2>9. ThreadTold(c, s)'
    BY <1>4, <1>6, <2>2, ThreadEndures
  <2>10. ThreadTold(c, cp[c])'
    BY <1>3, <2>1, <2>9 DEF ThreadTold, Told, Paired, LastMessage, Untouched
  <2>11. CallTold(c, r)'
    BY <2>2, <2>3, <2>8, <2>9 DEF CallTold, ThreadTold, Told, Paired, LastMessage, PlaceOK
  <2>12. CallBecomes(c, r)
    BY <1>6, <2>1
  <2>13. Rested(c, cp[c], r)
    <3>1. r # None
      <4>1. d \in Decision
        BY <1>1, <1>2, <2>4 DEF Decision, Run, Call, PendingApproval
      <4>2. r \in Run
        BY <1>2, <2>1, <2>2, <4>1 DEF Run
      <4> QED
        BY <4>2, NothingAssumption
    <3> QED
      BY <2>3, <3>1 DEF Rested, GraphStates
  <2> QED
    BY <1>3, <1>4, <1>6, <2>10, <2>11, <2>12, <2>13, CallMovesTold
<1> QED
  BY <1>1, <1>5, <1>6 DEF ResumeGraph

LEMMA InterruptTold ==
    ASSUME TInv, IInv', Grows, NEW c \in Conversations, Interrupt(c)
    PROVE  TInv'
<1>1. run[c] # None /\ run[c].pc \in GraphStates /\ run[c].at.next = "approval"
  BY DEF Interrupt, AtNode, At, GraphStates
<1>2. cp[c] \in {None, run[c].at}
  BY <1>1, InGraph DEF TInv
<1>3. UNCHANGED <<cp, ledger, runs, forgotten, broken>> /\ Release(c)
  BY DEF Interrupt, history
<1>4. \A d \in Conversations : run'[d] = IF d = c THEN None ELSE run[d]
  BY <1>3 DEF Release, CallBecomes, TInv, IInv, TypeOK
<1> QED
  BY <1>1, <1>2, <1>3, <1>4, Quiet, OnlyEnds

LEMMA RunFailsTold ==
    ASSUME TInv, IInv', Grows, NEW c \in Conversations, RunFails(c)
    PROVE  TInv'
<1>1. UNCHANGED <<cp, ledger, runs, forgotten>>
  BY DEF RunFails, GiveUp
<1>2. /\ \A d \in Conversations : run'[d] = IF d = c THEN None ELSE run[d]
      /\ broken' = broken \union {c}
  BY DEF RunFails, GiveUp, Release, CallBecomes, TInv, IInv, TypeOK
<1> QED
  BY <1>1, <1>2, Quiet, OnlyEnds

LEMMA CancelTold ==
    ASSUME TInv, IInv', Grows, NEW c \in Conversations, Cancel(c)
    PROVE  TInv'
<1>1. UNCHANGED <<cp, ledger, runs, forgotten>>
  BY DEF Cancel, GiveUp
<1>2. /\ \A d \in Conversations : run'[d] = IF d = c THEN None ELSE run[d]
      /\ broken' = broken \union {c}
  BY DEF Cancel, GiveUp, Release, CallBecomes, TInv, IInv, TypeOK
<1> QED
  BY <1>1, <1>2, Quiet, OnlyEnds

LEMMA CrashTold ==
    ASSUME TInv, IInv', Grows, Crash
    PROVE  TInv'
<1>1. UNCHANGED <<cp, ledger, runs, forgotten>>
  BY DEF Crash
<1>2. \A c \in Conversations : run'[c] = None /\ (run[c] # None \/ c \in broken => c \in broken')
  BY DEF Crash
<1> QED
  BY <1>1, <1>2, Quiet, OnlyEnds

LEMMA ExpireTold ==
    ASSUME TInv, IInv', Grows, NEW a \in ApprovalIds, Expire(a)
    PROVE  TInv'
<1>1. UNCHANGED <<cp, run, ledger, runs, forgotten, broken>>
  BY DEF Expire, history
<1> QED
  BY <1>1, Quiet, OnlyEnds

LEMMA ResetThreadTold ==
    ASSUME TInv, IInv', Grows, NEW c \in Conversations, ResetThread(c)
    PROVE  TInv'
<1>1. PICK r : r = [run[c] EXCEPT !.pc = "clear"]
  OBVIOUS
<1>2. run[c] \in Run
  BY DEF TInv, IInv, TypeOK, ResetThread, At
<1>3. r.pc = "clear"
  BY <1>1, <1>2 DEF Run
<1>4. cp' = [cp EXCEPT ![c] = None] /\ run' = [run EXCEPT ![c] = r] /\ broken' = broken \ {c}
      /\ UNCHANGED <<ledger, runs, forgotten>>
  BY <1>1 DEF ResetThread, DropThread, CallBecomes
<1>5. /\ cp'[c] = None /\ run'[c] = r
      /\ \A d \in Conversations \ {c} : cp'[d] = cp[d] /\ run'[d] = run[d]
  BY <1>4 DEF TInv, IInv, TypeOK
<1>6. ConversationTold(c)'
  BY <1>3, <1>5 DEF ConversationTold, ThreadTold, Rested, CallTold, GraphStates
<1> QED
  BY <1>4, <1>5, <1>6, Quiet, RowsEndure, OneConversationTold

\* Rows that are dropped are those of approvals that are forgotten.
LEMMA DroppedRows ==
    ASSUME TInv, NEW c \in Conversations, DropRows(c), runs' = runs
    PROVE  \A a \in ApprovalIds : Unaffected(a)
<1> SUFFICES ASSUME NEW a \in ApprovalIds PROVE Unaffected(a)
  OBVIOUS
<1>1. ledger'[a] = IF ledger[a] # None /\ ledger[a].conv = c THEN None ELSE ledger[a]
  BY DEF DropRows
<1>2. ledger[a] # None /\ ledger[a].conv = c => a \in forgotten'
  BY DEF DropRows, TInv, RowsOK
<1>3. forgotten \subseteq forgotten'
  BY DEF DropRows
<1> QED
  BY <1>1, <1>2, <1>3 DEF Unaffected, OnRecord

LEMMA ResetRowsTold ==
    ASSUME TInv, IInv', Grows, NEW c \in Conversations, ResetRows(c)
    PROVE  TInv'
<1>1. run[c].pc \notin GraphStates /\ DropRows(c) /\ UNCHANGED <<cp, runs, broken>>
  BY DEF ResetRows, At, GraphStates
<1>2. \A d \in Conversations : run'[d] = IF d = c THEN None ELSE run[d]
  BY DEF ResetRows, Release, CallBecomes, TInv, IInv, TypeOK
<1> QED
  BY <1>1, <1>2, DroppedRows, OnlyEnds

LEMMA DeleteThreadTold ==
    ASSUME TInv, IInv', Grows, NEW c \in Conversations, DeleteThread(c)
    PROVE  TInv'
<1>1. UNCHANGED <<run, ledger, runs, forgotten, broken>>
  BY DEF DeleteThread
<1>2. \A d \in Conversations : cp'[d] \in {None, cp[d]}
  BY DEF DeleteThread, DropThread, TInv, IInv, TypeOK
<1> QED
  BY <1>1, <1>2, Quiet, OnlyEnds

LEMMA DeleteRowsTold ==
    ASSUME TInv, IInv', Grows, NEW c \in Conversations, DeleteRows(c)
    PROVE  TInv'
<1>1. DropRows(c) /\ UNCHANGED <<cp, run, runs, broken>>
  BY DEF DeleteRows
<1> QED
  BY <1>1, DroppedRows, OnlyEnds

------------------------------------------------------------------------------
(* The invariant *)

LEMMA RunStepGrows ==
    ASSUME TypeOK, NEW c \in Conversations, RunStep(c)
    PROVE  Grows
<1>1. CASE \E a \in ApprovalIds : GuardAsks(c, a)
  BY <1>1 DEF GuardAsks, Grows, TypeOK
<1>2. CASE UNCHANGED <<asked, votes, expired>>
  BY <1>2 DEF Grows
<1>3. RunStep(c) => UNCHANGED <<asked, votes, expired>> \/ \E a \in ApprovalIds : GuardAsks(c, a)
  BY DEF RunStep, ReadPending, Decline, StartGraph, ResumeGraph, CallModel, GuardRefuses,
         GuardPasses, Interrupt, AwaitApproval, ExecuteSafe, Claim, StartHandler, EndHandler,
         Complete, PutResult, RunFails, ResetThread, ResetRows, history
<1> QED
  BY <1>1, <1>2, <1>3

LEMMA NextGrows ==
    ASSUME TypeOK, [Next]_vars
    PROVE  Grows
<1>1. CASE UNCHANGED vars
  BY <1>1 DEF vars, history, Grows
<1>2. CASE \E c \in Conversations : \E call \in Calls : Receive(c, call)
  BY <1>2 DEF Receive, Grows
<1>3. CASE \E c \in Conversations : RunStep(c)
  BY <1>3, RunStepGrows
<1>4. CASE \E c \in Conversations : Cancel(c) \/ DeleteThread(c) \/ DeleteRows(c)
  BY <1>4 DEF Cancel, DeleteThread, DeleteRows, Grows
<1>5. CASE Crash \/ \E a \in ApprovalIds : Expire(a)
  BY <1>5 DEF Crash, Expire, history, Grows
<1> QED
  BY <1>1, <1>2, <1>3, <1>4, <1>5 DEF Next

LEMMA RunStepTold ==
    ASSUME TInv, IInv', Grows, NEW c \in Conversations, RunStep(c)
    PROVE  TInv'
<1>1. CASE ReadPending(c) \/ Decline(c) \/ StartGraph(c) \/ ResumeGraph(c)
  BY <1>1, ReadPendingTold, DeclineTold, StartGraphTold, ResumeGraphTold
<1>2. CASE \E k \in CallKinds : CallModel(c, k)
  BY <1>2, CallModelTold
<1>3. CASE GuardRefuses(c) \/ GuardPasses(c) \/ \E a \in ApprovalIds : GuardAsks(c, a)
  BY <1>3, GuardRefusesTold, GuardPassesTold, GuardAsksTold
<1>4. CASE Interrupt(c) \/ AwaitApproval(c)
  BY <1>4, InterruptTold, AwaitApprovalTold
<1>5. CASE \E code \in Outcomes \union {"invalid_arguments"} : ExecuteSafe(c, code)
  BY <1>5, ExecuteSafeTold
<1>6. CASE Claim(c) \/ StartHandler(c) \/ \E code \in Outcomes : EndHandler(c, code)
  BY <1>6, ClaimTold, StartHandlerTold, EndHandlerTold
<1>7. CASE Complete(c) \/ PutResult(c) \/ RunFails(c)
  BY <1>7, CompleteTold, PutResultTold, RunFailsTold
<1>8. CASE ResetThread(c) \/ ResetRows(c)
  BY <1>8, ResetThreadTold, ResetRowsTold
<1> QED
  BY <1>1, <1>2, <1>3, <1>4, <1>5, <1>6, <1>7, <1>8 DEF RunStep

LEMMA InitTold ==
    Init => TInv
<1> SUFFICES ASSUME Init PROVE TInv
  OBVIOUS
<1>1. \A c \in Conversations : ConversationTold(c)
  BY DEF Init, ConversationTold, ThreadTold, Rested, CallTold
<1>2. RowsOK
  BY DEF Init, RowsOK
<1> QED
  BY <1>1, <1>2, InitEstablishes DEF TInv

LEMMA NextTold ==
    TInv /\ [Next]_vars => TInv'
<1> SUFFICES ASSUME TInv, [Next]_vars PROVE TInv'
  OBVIOUS
<1>1. IInv' /\ Grows
  BY NextKeeps, NextGrows DEF TInv, IInv
<1>2. CASE UNCHANGED vars
  <2>1. UNCHANGED <<cp, run, ledger, runs, forgotten, broken>>
    BY <1>2 DEF vars, history
  <2> QED
    BY <1>1, <2>1, Quiet, OnlyEnds
<1>3. CASE \E c \in Conversations : \E call \in Calls : Receive(c, call)
  BY <1>1, <1>3, ReceiveTold
<1>4. CASE \E c \in Conversations : RunStep(c)
  BY <1>1, <1>4, RunStepTold
<1>5. CASE \E c \in Conversations : Cancel(c) \/ DeleteThread(c) \/ DeleteRows(c)
  BY <1>1, <1>5, CancelTold, DeleteThreadTold, DeleteRowsTold
<1>6. CASE Crash \/ \E a \in ApprovalIds : Expire(a)
  BY <1>1, <1>6, CrashTold, ExpireTold
<1> QED
  BY <1>2, <1>3, <1>4, <1>5, <1>6 DEF Next

\* The invariant of what is on record, for every behaviour of the runtime.
THEOREM OnRecordAlways == Spec => []TInv
  BY InitTold, NextTold, PTL DEF Spec

\* The results that the model and the user read (agent/workflow.py, agent/ledger.py) are
\* what happened and what the ledger says, for any number of crashes and deletions.
THEOREM HistoryIsTrue == Spec => []HistoryTellsTheTruth
<1>1. TInv => HistoryTellsTheTruth
  <2> SUFFICES ASSUME TInv, NEW c \in Conversations, cp[c] # None,
                      NEW i \in DOMAIN cp[c].msgs,
                      cp[c].msgs[i].kind = "tool", cp[c].msgs[i].id # None
               PROVE  Reported(cp[c].msgs[i].id, cp[c].msgs[i].what)
    BY DEF HistoryTellsTheTruth, Reported, Started
  <2>1. Told(c, cp[c])
    BY DEF TInv, ConversationTold, ThreadTold
  <2> QED
    BY <2>1 DEF Told
<1> QED
  BY <1>1, OnRecordAlways, PTL

\* _execute_approved_tool claims before it acts: no handler has started without a row in
\* the ledger, unless the rows of its conversation were deleted.
THEOREM EffectsAreRecorded == Spec => []EffectLeavesRecord
<1>1. TInv => EffectLeavesRecord
  BY DEF TInv, RowsOK, OnRecord, EffectLeavesRecord
<1> QED
  BY <1>1, OnRecordAlways, PTL

\* _get_pending: a conversation says that it waits for an approval exactly while its
\* thread is at the approval node, with the call it showed.
THEOREM PendingIsWaiting == Spec => []PendingMatchesNode
<1>1. TInv => PendingMatchesNode
  <2> SUFFICES ASSUME TInv, NEW c \in Conversations, cp[c] # None
               PROVE  /\ cp[c].approval # None <=> cp[c].next = "approval"
                      /\ cp[c].next \in {"approval", "execute"} =>
                            /\ cp[c].tool # None
                            /\ LastMessage(cp[c]) = AI(cp[c].tool.risk)
                      /\ cp[c].approval # None =>
                            /\ cp[c].approval.id = cp[c].tool.id
                            /\ asked[cp[c].approval.id] =
                                    [actor |-> cp[c].approval.actor, conv |-> c]
    BY DEF PendingMatchesNode
  <2>1. SnapshotOK(c, cp[c], asked, votes)
    BY DEF TInv, IInv, ConversationOK
  <2>2. Paired(c, cp[c], broken)
    BY DEF TInv, ConversationTold, ThreadTold
  <2>3. cp[c].approval # None <=> cp[c].next = "approval"
    BY <2>1, NothingAssumption DEF SnapshotOK
  <2>4. cp[c].next \in {"approval", "execute"} =>
            cp[c].tool # None /\ LastMessage(cp[c]) = AI(cp[c].tool.risk)
    BY <2>2, NothingAssumption DEF Paired
  <2>5. cp[c].next = "approval" =>
            /\ cp[c].approval.id = cp[c].tool.id
            /\ asked[cp[c].approval.id] = [actor |-> cp[c].approval.actor, conv |-> c]
    BY <2>1 DEF SnapshotOK
  <2> QED
    BY <2>3, <2>4, <2>5
<1> QED
  BY <1>1, OnRecordAlways, PTL

\* Providers reject a history with gaps: only a run that was cut off leaves one.
THEOREM EveryCallIsAnswered == Spec => []CallsAreAnswered
<1>1. TInv => CallsAreAnswered
  <2> SUFFICES ASSUME TInv, NEW c \in Conversations, cp[c] # None,
                      NEW i \in DOMAIN cp[c].msgs
               PROVE  /\ IsCall(cp[c].msgs[i]) /\ i < Len(cp[c].msgs) =>
                            cp[c].msgs[i + 1].kind = "tool" \/ c \in broken
                      /\ cp[c].msgs[i].kind = "tool" => i > 1 /\ IsCall(cp[c].msgs[i - 1])
    BY DEF CallsAreAnswered, IsCall
  <2>1. Paired(c, cp[c], broken)
    BY DEF TInv, ConversationTold, ThreadTold
  <2> QED
    BY <2>1 DEF Paired
<1> QED
  BY <1>1, OnRecordAlways, PTL

\* What happens to a thread that waits for an approval.
LEMMA WaitingThread ==
    ASSUME TInv, NEW c \in Conversations, RunStep(c), cp[c] # None, cp[c].approval # None,
           cp'[c] = None \/ cp'[c].approval # cp[c].approval, ~Emptied(c)
    PROVE  /\ run[c] # None
           /\ cp[c].approval.id \in expired \/ VotesOn(run[c].call, cp[c].approval)
<1>1. SnapshotOK(c, cp[c], asked, votes) /\ ConversationOK(c)
  BY DEF TInv, IInv, ConversationOK
<1>2. cp[c].next = "approval"
  BY <1>1 DEF SnapshotOK
<1>3. ~StartGraph(c)
  BY <1>1 DEF StartGraph, At, ConversationOK, RunOK
<1>4. ASSUME run[c] # None, run[c].pc \in GraphStates
      PROVE  run[c].pc = "step" /\ run[c].at = cp[c] /\ PlaceOK(run[c])
  BY <1>2, <1>4, InGraph, InGraphTold DEF TInv
<1>5. run[c] # None /\ run[c].pc \in GraphStates /\ ~AwaitApproval(c) => cp' = cp
  BY <1>2, <1>3, <1>4
     DEF RunStep, At, AtNode, ReadPending, Decline, ResumeGraph, CallModel, GuardRefuses,
         GuardPasses, GuardAsks, Interrupt, ExecuteSafe, Claim, StartHandler, EndHandler,
         Complete, PutResult, RunFails, ResetThread, ResetRows, GraphStates
<1>6. run[c] = None \/ run[c].pc \notin GraphStates => cp' = cp \/ ResetThread(c)
  BY <1>3
     DEF RunStep, At, AtNode, ReadPending, Decline, ResumeGraph, CallModel, GuardRefuses,
         GuardPasses, GuardAsks, Interrupt, AwaitApproval, ExecuteSafe, Claim, StartHandler,
         EndHandler, Complete, PutResult, RunFails, ResetRows, GraphStates
<1>7. ~ResetThread(c)
  BY DEF ResetThread, DropThread, Emptied, TInv, IInv, TypeOK
<1>8. AwaitApproval(c) /\ run[c] # None /\ run[c].pc \in GraphStates
  BY <1>5, <1>6, <1>7
<1>9. run[c].decision # None
  BY <1>8 DEF AwaitApproval
<1>10. run[c].pc = "step" /\ run[c].at = cp[c] /\ PlaceOK(run[c])
  BY <1>4, <1>8
<1>11. run[c].at.approval.id \in expired \/ VotesOn(run[c].call, run[c].at.approval)
  BY <1>2, <1>9, <1>10 DEF PlaceOK
<1> QED
  BY <1>8, <1>10, <1>11

\* Whoever writes in a shared conversation, a request that waits is over only by the vote
\* of the one who was asked, after its time, or with the whole conversation (_decide,
\* _await_approval, reset, delete_chat).
THEOREM RequestsEnd == Spec => RequestEndsProperly
<1> DEFINE Ended(c) == \/ run[c] # None /\ \/ cp[c].approval.id \in expired
                                            \/ VotesOn(run[c].call, cp[c].approval)
                       \/ Emptied(c)
           Properly ==
            \A c \in Conversations :
                cp[c] # None /\ cp[c].approval # None
                /\ (cp'[c] = None \/ cp'[c].approval # cp[c].approval) => Ended(c)
<1>1. TInv /\ [Next]_vars => [Properly]_vars
  <2> SUFFICES ASSUME TInv, Next PROVE Properly
    OBVIOUS
  <2> SUFFICES ASSUME NEW c \in Conversations, cp[c] # None, cp[c].approval # None,
                      cp'[c] = None \/ cp'[c].approval # cp[c].approval
               PROVE  Ended(c)
    OBVIOUS
  <2>1. ASSUME NEW d \in Conversations, RunStep(d), d # c PROVE cp'[c] = cp[c]
    BY <2>1 DEF RunStep, ReadPending, Decline, StartGraph, ResumeGraph, CallModel, GuardRefuses,
         GuardPasses, GuardAsks, Interrupt, AwaitApproval, ExecuteSafe, Claim, StartHandler,
         EndHandler, Complete, PutResult, RunFails, ResetThread, ResetRows, Advance, DropThread,
         TInv, IInv, TypeOK
  <2>2. CASE \E d \in Conversations : RunStep(d)
    BY <2>1, <2>2, WaitingThread
  <2>3. CASE \E d \in Conversations : \E call \in Calls : Receive(d, call)
    BY <2>3 DEF Receive
  <2>4. CASE \E d \in Conversations : Cancel(d) \/ DeleteRows(d)
    BY <2>4 DEF Cancel, DeleteRows
  <2>5. ASSUME NEW d \in Conversations, DeleteThread(d) PROVE Ended(c)
    <3>1. c = d
      BY <2>5 DEF DeleteThread, DropThread, TInv, IInv, TypeOK
    <3>2. cp'[c] = None /\ c \notin deleting /\ c \in deleting'
      BY <2>5, <3>1 DEF DeleteThread, DropThread, TInv, IInv, TypeOK
    <3> QED
      BY <3>2 DEF Emptied
  <2>6. CASE Crash \/ \E a \in ApprovalIds : Expire(a)
    BY <2>6 DEF Crash, Expire
  <2> QED
    BY <2>2, <2>3, <2>4, <2>5, <2>6 DEF Next
<1>2. Properly <=> \A c \in Conversations :
            LET p == cp[c].approval IN
            cp[c] # None /\ p # None /\ (cp'[c] = None \/ cp'[c].approval # p) =>
                \/ run[c] # None /\ (p.id \in expired \/ VotesOn(run[c].call, p))
                \/ Emptied(c)
  OBVIOUS
<1> QED
  BY <1>1, <1>2, OnRecordAlways, PTL DEF Spec, RequestEndsProperly

------------------------------------------------------------------------------
(* A conversation that was cleared: what delete_chat is not there to disturb *)

\* A step of the call of c: others are not concerned, and a row that is new is one of c.
LEMMA EmptyKept ==
    ASSUME EmptyInv, TypeOK', NEW c \in Conversations, run[c] # None,
           UNCHANGED <<deleting, cleared>>,
           \A d \in Conversations \ {c} : cp'[d] = cp[d] /\ run'[d] = run[d],
           At(c, "clear")' => cp'[c] = None,
           \A a \in ApprovalIds : ledger'[a] # None =>
                ledger'[a].conv = c \/ (ledger[a] # None /\ ledger'[a].conv = ledger[a].conv)
    PROVE  EmptyInv'
<1>1. c \notin cleared
  BY DEF EmptyInv
<1>2. ClearedStaysCleared'
  BY <1>1 DEF EmptyInv, ClearedStaysCleared, TypeOK
<1>3. \A d \in cleared' : run'[d] = None
  BY <1>1 DEF EmptyInv, TypeOK
<1>4. ASSUME NEW d \in Conversations, At(d, "clear")' PROVE cp'[d] = None
  BY <1>4 DEF EmptyInv, At
<1> QED
  BY <1>2, <1>3, <1>4 DEF EmptyInv

LEMMA EmptyAdvance ==
    ASSUME EmptyInv, TypeOK', NEW c \in Conversations, run[c] # None,
           UNCHANGED <<deleting, cleared, ledger>>, NEW s, Advance(c, s)
    PROVE  EmptyInv'
<1>1. PICK r : r = IF s.next = "end" THEN None ELSE GoesOn(run[c], s, run[c].steps + 1)
  OBVIOUS
<1>2. cp' = [cp EXCEPT ![c] = s] /\ run' = [run EXCEPT ![c] = r]
  BY <1>1 DEF Advance, CallBecomes, GoesOn
<1>3. \A d \in Conversations \ {c} : cp'[d] = cp[d] /\ run'[d] = run[d]
  BY <1>2 DEF EmptyInv, TypeOK
<1>4. run'[c] = r
  BY <1>2 DEF EmptyInv, TypeOK
<1>5. r = None \/ r.pc = "step"
  BY <1>1 DEF GoesOn, EmptyInv, TypeOK, Run
<1>6. ~At(c, "clear")'
  BY <1>4, <1>5 DEF At
<1> QED
  BY <1>3, <1>6, EmptyKept

\* The call becomes r, where it is not about to clear.
LEMMA EmptyMoves ==
    ASSUME EmptyInv, TypeOK', NEW c \in Conversations, run[c] # None,
           UNCHANGED <<cp, deleting, cleared>>, NEW r, CallBecomes(c, r),
           r = None \/ r.pc # "clear",
           \A a \in ApprovalIds : ledger'[a] # None =>
                ledger'[a].conv = c \/ (ledger[a] # None /\ ledger'[a].conv = ledger[a].conv)
    PROVE  EmptyInv'
<1>1. run'[c] = r /\ \A d \in Conversations \ {c} : run'[d] = run[d]
  BY DEF CallBecomes, EmptyInv, TypeOK
<1>2. ~At(c, "clear")'
  BY <1>1 DEF At
<1> QED
  BY <1>1, <1>2, EmptyKept

LEMMA EmptyNodes ==
    ASSUME EmptyInv, TypeOK', NEW c \in Conversations,
           \/ \E k \in CallKinds : CallModel(c, k)
           \/ GuardRefuses(c) \/ GuardPasses(c) \/ AwaitApproval(c)
           \/ \E a \in ApprovalIds : GuardAsks(c, a)
           \/ \E code \in Outcomes \union {"invalid_arguments"} : ExecuteSafe(c, code)
           \/ PutResult(c)
    PROVE  EmptyInv'
<1>1. run[c] # None /\ UNCHANGED <<deleting, cleared, ledger>> /\ \E s : Advance(c, s)
  BY DEF CallModel, GuardRefuses, GuardPasses, AwaitApproval, GuardAsks, ExecuteSafe, PutResult,
         AtNode, At, history
<1> QED
  BY <1>1, EmptyAdvance

LEMMA EmptyClaim ==
    ASSUME EmptyInv, TypeOK', NEW c \in Conversations, Claim(c)
    PROVE  EmptyInv'
<1>1. run[c] # None /\ run[c] \in Run /\ UNCHANGED <<deleting, cleared>>
  BY DEF Claim, AtNode, At, EmptyInv, TypeOK, history
<1>2. PICK a : a = run[c].at.tool.id
  OBVIOUS
<1>3. CASE ledger[a] = None
  <2>1. PICK r : r = [run[c] EXCEPT !.pc = "handler"]
    OBVIOUS
  <2>2. r.pc = "handler"
    BY <1>1, <2>1 DEF Run
  <2>3. CallBecomes(c, r) /\ cp' = cp
        /\ ledger' = [ledger EXCEPT ![a] = [conv |-> c, status |-> "started", result |-> None]]
    BY <1>2, <1>3, <2>1 DEF Claim, InsertRow
  <2>4. \A b \in ApprovalIds : ledger'[b] = ledger[b] \/ ledger'[b].conv = c
    BY <2>3 DEF EmptyInv, TypeOK
  <2> QED
    BY <1>1, <2>2, <2>3, <2>4, EmptyMoves
<1>4. CASE ledger[a] # None
  <2>1. UNCHANGED ledger /\ \E s : Advance(c, s)
    BY <1>2, <1>4 DEF Claim
  <2> QED
    BY <1>1, <2>1, EmptyAdvance
<1> QED
  BY <1>3, <1>4

LEMMA EmptyCompletes ==
    ASSUME EmptyInv, TypeOK', NEW c \in Conversations, Complete(c)
    PROVE  EmptyInv'
<1>1. run[c] # None /\ run[c] \in Run /\ UNCHANGED <<cp, deleting, cleared>>
  BY DEF Complete, At, EmptyInv, TypeOK, history
<1>2. PICK r : r = [run[c] EXCEPT !.pc = "put"]
  OBVIOUS
<1>3. r.pc = "put" /\ CallBecomes(c, r)
  BY <1>1, <1>2 DEF Run, Complete
<1>4. \A b \in ApprovalIds : ledger'[b] # None =>
            ledger[b] # None /\ ledger'[b].conv = ledger[b].conv
  <2>1. PICK a, code : a = run[c].at.tool.id /\ code = run[c].result
    OBVIOUS
  <2>2. CASE ledger[a] = None
    BY <2>1, <2>2 DEF Complete, SetResult
  <2>3. CASE ledger[a] # None
    <3>1. ledger' = [ledger EXCEPT ![a] = [ledger[a] EXCEPT !.status = "completed",
                                                           !.result = code]]
      BY <2>1, <2>3 DEF Complete, SetResult
    <3>2. a \in ApprovalIds => ledger[a] \in Row
      BY <2>3 DEF EmptyInv, TypeOK
    <3> QED
      BY <2>3, <3>1, <3>2 DEF EmptyInv, TypeOK, Row
  <2> QED
    BY <2>2, <2>3
<1> QED
  BY <1>1, <1>3, <1>4, EmptyMoves

LEMMA EmptyCalls ==
    ASSUME EmptyInv, TypeOK', NEW c \in Conversations,
           \/ ReadPending(c) \/ Decline(c) \/ ResumeGraph(c) \/ Interrupt(c)
           \/ StartHandler(c) \/ RunFails(c) \/ Cancel(c)
           \/ \E code \in Outcomes : EndHandler(c, code)
    PROVE  EmptyInv'
<1>1. run[c] # None /\ run[c] \in Run /\ UNCHANGED <<cp, deleting, cleared, ledger>>
  BY DEF ReadPending, Decline, ResumeGraph, Interrupt, StartHandler, RunFails, Cancel, EndHandler,
         AtNode, At, EmptyInv, TypeOK, history, GiveUp
<1>2. /\ \A p : [run[c] EXCEPT !.pc = "decide", !.seen = p].pc = "decide"
      /\ \A code : [run[c] EXCEPT !.pc = "complete", !.result = code].pc = "complete"
      /\ [run[c] EXCEPT !.pc = "running"].pc = "running"
      /\ \A s, d : [run[c] EXCEPT !.pc = "step", !.at = s, !.decision = d].pc = "step"
  BY <1>1 DEF Run
<1>3. \E r : CallBecomes(c, r) /\ (r = None \/ r.pc # "clear")
  BY <1>2 DEF ReadPending, Decline, ResumeGraph, Interrupt, StartHandler, RunFails, Cancel,
              EndHandler, GiveUp, Release
<1> QED
  BY <1>1, <1>3, EmptyMoves

LEMMA EmptyStart ==
    ASSUME EmptyInv, TypeOK', NEW c \in Conversations, StartGraph(c)
    PROVE  EmptyInv'
<1>1. run[c] # None /\ run[c] \in Run /\ UNCHANGED <<deleting, cleared, ledger>>
  BY DEF StartGraph, At, EmptyInv, TypeOK, history
<1>2. PICK s, r : /\ cp' = [cp EXCEPT ![c] = s] /\ run' = [run EXCEPT ![c] = r]
                  /\ r = [run[c] EXCEPT !.pc = "step", !.at = s]
  BY DEF StartGraph, CallBecomes
<1>3. r.pc = "step"
  BY <1>1, <1>2 DEF Run
<1>4. run'[c] = r /\ \A d \in Conversations \ {c} : cp'[d] = cp[d] /\ run'[d] = run[d]
  BY <1>2 DEF EmptyInv, TypeOK
<1>5. ~At(c, "clear")'
  BY <1>3, <1>4 DEF At
<1> QED
  BY <1>1, <1>4, <1>5, EmptyKept

LEMMA EmptyResets ==
    ASSUME EmptyInv, TypeOK', NEW c \in Conversations, ResetThread(c) \/ ResetRows(c)
    PROVE  EmptyInv'
<1>1. CASE ResetThread(c)
  <2>1. run[c] # None /\ UNCHANGED <<deleting, cleared, ledger>>
    BY <1>1 DEF ResetThread, At
  <2>2. cp'[c] = None /\ \A d \in Conversations \ {c} : cp'[d] = cp[d] /\ run'[d] = run[d]
    BY <1>1 DEF ResetThread, DropThread, CallBecomes, EmptyInv, TypeOK
  <2> QED
    BY <2>1, <2>2, EmptyKept
<1>2. CASE ResetRows(c)
  <2>1. cp' = cp /\ deleting' = deleting /\ cp[c] = None /\ cleared' = cleared \union {c}
    BY <1>2 DEF ResetRows, DropRows, EmptyInv
  <2>2. run'[c] = None /\ \A d \in Conversations \ {c} : run'[d] = run[d]
    BY <1>2 DEF ResetRows, Release, CallBecomes, EmptyInv, TypeOK
  <2>3. \A a \in ApprovalIds : ledger'[a] # None => ledger'[a] = ledger[a] /\ ledger[a].conv # c
    BY <1>2 DEF ResetRows, DropRows
  <2>4. ClearedStaysCleared'
    BY <2>1, <2>3 DEF EmptyInv, ClearedStaysCleared
  <2>5. \A d \in cleared' : run'[d] = None
    BY <2>1, <2>2 DEF EmptyInv, TypeOK
  <2>6. ASSUME NEW d \in Conversations, At(d, "clear")' PROVE cp'[d] = None
    BY <2>1, <2>2, <2>6 DEF EmptyInv, At
  <2> QED
    BY <2>1, <2>4, <2>5, <2>6 DEF EmptyInv
<1> QED
  BY <1>1, <1>2

LEMMA EmptyReceive ==
    ASSUME EmptyInv, TypeOK', NEW c \in Conversations, NEW call \in Calls, Receive(c, call)
    PROVE  EmptyInv'
<1>1. UNCHANGED <<cp, deleting, ledger>> /\ cleared' = cleared \ {c}
  BY DEF Receive
<1>r. PICK r :
        r = [pc |-> IF call.op = "reset" THEN "reset" ELSE "read", call |-> call,
             seen |-> None, at |-> None, decision |-> None, steps |-> 0, result |-> None]
  OBVIOUS
<1>p. r.pc \in {"reset", "read"}
  BY <1>r
<1>u. run' = [run EXCEPT ![c] = r]
  BY <1>r DEF Receive, CallBecomes
<1>2. run' = [run EXCEPT ![c] = r] /\ r.pc \in {"reset", "read"}
  BY <1>p, <1>u
<1>3. run'[c] = r /\ \A d \in Conversations \ {c} : run'[d] = run[d]
  BY <1>2 DEF EmptyInv, TypeOK
<1>4. ClearedStaysCleared'
  BY <1>1 DEF EmptyInv, ClearedStaysCleared
<1>5. \A d \in cleared' : run'[d] = None
  BY <1>1, <1>3 DEF EmptyInv, TypeOK
<1>6. ASSUME NEW d \in Conversations, At(d, "clear")' PROVE cp'[d] = None
  BY <1>1, <1>2, <1>3, <1>6 DEF EmptyInv, At
<1> QED
  BY <1>1, <1>4, <1>5, <1>6 DEF EmptyInv

\* Calls that only end, and time that passes.
LEMMA EmptyElse ==
    ASSUME EmptyInv, TypeOK', UNCHANGED vars \/ Crash \/ \E a \in ApprovalIds : Expire(a)
    PROVE  EmptyInv'
<1>1. UNCHANGED <<cp, cleared, ledger>> /\ deleting' = {}
  BY DEF vars, history, Crash, Expire, EmptyInv
<1>2. \A d \in Conversations : run'[d] \in {None, run[d]}
  BY DEF vars, history, Crash, Expire, EmptyInv
<1>3. ClearedStaysCleared'
  BY <1>1 DEF EmptyInv, ClearedStaysCleared
<1>4. \A d \in cleared' : run'[d] = None
  BY <1>1, <1>2 DEF EmptyInv, TypeOK
<1>5. ASSUME NEW d \in Conversations, At(d, "clear")' PROVE cp'[d] = None
  BY <1>1, <1>2, <1>5 DEF EmptyInv, At
<1> QED
  BY <1>1, <1>3, <1>4, <1>5 DEF EmptyInv

\* When nobody deletes a chat, a conversation that was reset stays empty until someone
\* writes again: the deletions of the dashboard are all that can disturb it, and run
\* agent_delete_race shows that they do.
THEOREM ClearedIsEmpty ==
    ASSUME MaxDeletes = 0
    PROVE  Spec => []ClearedStaysCleared
<1>1. Init => EmptyInv
  BY InitEstablishes DEF Init, EmptyInv, IInv, ClearedStaysCleared, At
<1>2. EmptyInv /\ IInv' /\ [Next]_vars => EmptyInv'
  <2> SUFFICES ASSUME EmptyInv, TypeOK', [Next]_vars PROVE EmptyInv'
    BY DEF IInv
  <2>1. CASE UNCHANGED vars \/ Crash \/ \E a \in ApprovalIds : Expire(a)
    BY <2>1, EmptyElse
  <2>2. CASE \E c \in Conversations : \E call \in Calls : Receive(c, call)
    BY <2>2, EmptyReceive
  <2>3. CASE \E c \in Conversations : RunStep(c)
    BY <2>3, EmptyNodes, EmptyClaim, EmptyCompletes, EmptyCalls, EmptyStart, EmptyResets
       DEF RunStep
  <2>4. CASE \E c \in Conversations : Cancel(c)
    BY <2>4, EmptyCalls
  <2>5. ASSUME NEW c \in Conversations PROVE ~DeleteThread(c) /\ ~DeleteRows(c)
    BY DEF DeleteThread, DeleteRows, Unused, EmptyInv, TypeOK
  <2> QED
    BY <2>1, <2>2, <2>3, <2>4, <2>5 DEF Next
<1>3. EmptyInv => ClearedStaysCleared
  BY DEF EmptyInv
<1> QED
  BY <1>1, <1>2, <1>3, Inductive, PTL DEF Spec

------------------------------------------------------------------------------
(***************************************************************************)
(* AgentRuntime implements ToolApproval, for any number of users,          *)
(* conversations, approvals, calls, crashes and deletions.                 *)
(*                                                                         *)
(* The argument: where a request stands is told by the one conversation in *)
(* which it was asked.  A step moves one conversation, and either it is    *)
(* the step that asks, hears a vote, grants, starts or expires, or what    *)
(* its conversation stood at is kept or dropped; a crash drops in several  *)
(* conversations at once.                                                  *)
(***************************************************************************)

\* Where the request a stands in a conversation with thread t and call r: Phase, for a
\* request that was asked there and not yet started.
Now(t, r) == IF r # None /\ r.at # None THEN r.at ELSE t
Standing(t, r, a) ==
    IF Now(t, r) # None /\ Now(t, r).next = "approval" /\ Now(t, r).approval.id = a
    THEN "waiting"
    ELSE IF /\ r # None /\ r.at # None
            /\ r.at.next = "execute" /\ r.at.tool.risk = "risky" /\ r.at.tool.id = a
         THEN "granted"
         ELSE "dropped"

\* A request stands where its own conversation has it.
PhasesStand ==
    \A a \in ApprovalIds :
        Phase(a) = IF asked[a] = None THEN "unasked"
                   ELSE IF runs[a] > 0 THEN "started"
                   ELSE Standing(cp[asked[a].conv], run[asked[a].conv], a)

------------------------------------------------------------------------------
(* Where requests stand *)

LEMMA NowIsOK ==
    ASSUME TInv, NEW c \in Conversations, Current(c) # None
    PROVE  /\ Current(c) \in Snapshot
           /\ SnapshotOK(c, Current(c), asked, votes)
           /\ Current(c) = Now(cp[c], run[c])
<1>1. CASE run[c] # None /\ run[c].at # None
  <2>1. run[c].pc \in GraphStates
    BY <1>1 DEF TInv, IInv, ConversationOK, RunOK
  <2> QED
    BY <1>1, <2>1, InGraph DEF TInv, Current, Now
<1>2. CASE ~(run[c] # None /\ run[c].at # None)
  <2>1. Current(c) = cp[c] /\ Now(cp[c], run[c]) = cp[c]
    BY <1>2 DEF Current, Now
  <2> QED
    BY <2>1 DEF TInv, IInv, TypeOK, ConversationOK
<1> QED
  BY <1>1, <1>2

LEMMA PhasesDo == TInv => PhasesStand
<1> SUFFICES ASSUME TInv, NEW a \in ApprovalIds, asked[a] # None, ~(runs[a] > 0)
             PROVE  Phase(a) = Standing(cp[asked[a].conv], run[asked[a].conv], a)
  BY DEF PhasesStand, Phase
<1> DEFINE Waits(c) == /\ Current(c) # None
                       /\ Current(c).approval # None
                       /\ Current(c).approval.id = a
           Executes(c) == /\ run[c] # None /\ run[c].at # None
                          /\ run[c].at.next = "execute"
                          /\ run[c].at.tool.risk = "risky" /\ run[c].at.tool.id = a
<1>1. asked[a].conv \in Conversations
  BY DEF TInv, IInv, TypeOK
<1>2. ASSUME NEW c \in Conversations
      PROVE  Waits(c) <=> /\ Now(cp[c], run[c]) # None
                          /\ Now(cp[c], run[c]).next = "approval"
                          /\ Now(cp[c], run[c]).approval.id = a
  <2>1. Current(c) = Now(cp[c], run[c])
    BY DEF Current, Now
  <2>2. Current(c) # None => (Current(c).approval # None <=> Current(c).next = "approval")
    BY NowIsOK, NothingAssumption DEF SnapshotOK
  <2> QED
    BY <2>1, <2>2
<1>3. ASSUME NEW c \in Conversations, Waits(c) PROVE c = asked[a].conv
  <2>1. Current(c) # None /\ Current(c).next = "approval" /\ LeadsTo(Current(c), a)
    BY <1>2, <1>3 DEF LeadsTo, Now, Current
  <2> QED
    BY <2>1, NowIsOK, LeadsHere
<1>4. ASSUME NEW c \in Conversations, Executes(c) PROVE c = asked[a].conv
  <2>1. Current(c) # None /\ LeadsTo(Current(c), a)
    BY <1>4 DEF LeadsTo, Current
  <2> QED
    BY <2>1, NowIsOK, LeadsHere
<1>5. Phase(a) = IF \E c \in Conversations : Waits(c) THEN "waiting"
                 ELSE IF \E c \in Conversations : Executes(c) THEN "granted"
                 ELSE "dropped"
  BY DEF Phase
<1>6. (\E c \in Conversations : Waits(c)) <=> Waits(asked[a].conv)
  BY <1>1, <1>3
<1>7. (\E c \in Conversations : Executes(c)) <=> Executes(asked[a].conv)
  BY <1>1, <1>4
<1>8. Standing(cp[asked[a].conv], run[asked[a].conv], a) =
            IF Waits(asked[a].conv) THEN "waiting"
            ELSE IF Executes(asked[a].conv) THEN "granted"
            ELSE "dropped"
  <2> HIDE DEF Waits
  <2> QED
    BY <1>1, <1>2 DEF Standing
<1> QED
  BY <1>5, <1>6, <1>7, <1>8

LEMMA PhasesDoNext == TInv' => PhasesStand'
  BY PhasesDo, PTL
------------------------------------------------------------------------------
(* Steps that keep or drop requests *)

\* Each request stands in c where it stood, or is dropped.
Weakens(c) ==
    \A a \in ApprovalIds :
        Standing(cp'[c], run'[c], a) \in {Standing(cp[c], run[c], a), "dropped"}

StepsOrStutters == Approval!Next \/ UNCHANGED Approval!vars

\* What is dropped was waiting or granted.
LEMMA WeakensDrops ==
    ASSUME PhasesStand, PhasesStand', TypeOK,
           asked' = asked, votes' = votes, expired' = expired, runs' = runs,
           \A c \in Conversations : Weakens(c)
    PROVE  StepsOrStutters
<1> DEFINE S == {a \in ApprovalIds : Phase(a)' # Phase(a)}
<1>1. ASSUME NEW a \in ApprovalIds
      PROVE  \/ Phase(a)' = Phase(a)
             \/ Phase(a) \in {"waiting", "granted"} /\ Phase(a)' = "dropped"
  <2>1. CASE asked[a] = None \/ runs[a] > 0
    BY <2>1 DEF PhasesStand
  <2>2. CASE asked[a] # None /\ ~(runs[a] > 0)
    <3>1. PICK c \in Conversations : c = asked[a].conv
      BY <2>2 DEF TypeOK
    <3>2. Phase(a) = Standing(cp[c], run[c], a) /\ Phase(a)' = Standing(cp'[c], run'[c], a)
      BY <2>2, <3>1 DEF PhasesStand
    <3>3. Standing(cp[c], run[c], a) \in {"waiting", "granted", "dropped"}
      BY DEF Standing
    <3> QED
      BY <3>2, <3>3 DEF Weakens
  <2> QED
    BY <2>1, <2>2
<1>2. CASE S = {}
  <2>1. [a \in ApprovalIds |-> Phase(a)]' = [a \in ApprovalIds |-> Phase(a)]
    BY <1>2
  <2> QED
    BY <2>1 DEF StepsOrStutters, Approval!vars
<1>3. CASE S # {}
  <2>1. \A a \in S : [b \in ApprovalIds |-> Phase(b)][a] \in {"waiting", "granted"}
    BY <1>1
  <2>2. [a \in ApprovalIds |-> Phase(a)]' =
            [a \in ApprovalIds |-> IF a \in S THEN "dropped"
                                   ELSE [b \in ApprovalIds |-> Phase(b)][a]]
    BY <1>1
  <2>3. Approval!Drop(S)
    BY <1>3, <2>1, <2>2 DEF Approval!Drop
  <2> QED
    BY <2>3 DEF StepsOrStutters, Approval!Next
<1> QED
  BY <1>2, <1>3

LEMMA Unmoved ==
    ASSUME NEW c, cp'[c] = cp[c], run'[c] = run[c]
    PROVE  Weakens(c)
BY DEF Weakens

\* Outside its graph, a call can only lose the thread.
LEMMA WeakensOutside ==
    ASSUME NEW c, run[c] = None \/ run[c].at = None, run'[c] = None \/ run'[c].at = None,
           cp'[c] \in {None, cp[c]}
    PROVE  Weakens(c)
BY DEF Weakens, Standing, Now

\* A run that ends where it is leaves its thread, if that is still there.
LEMMA WeakensAtEnd ==
    ASSUME NEW c, run[c] # None, run[c].at # None, cp[c] \in {None, run[c].at},
           run'[c] = None, cp'[c] = cp[c]
    PROVE  Weakens(c)
BY DEF Weakens, Standing, Now

\* A run that stays at its node.
LEMMA WeakensInside ==
    ASSUME NEW c, run[c] # None, run[c].at # None, run'[c] # None, run'[c].at = run[c].at
    PROVE  Weakens(c)
BY DEF Weakens, Standing, Now

\* A node whose end leads to no risky call.
LEMMA WeakensOnward ==
    ASSUME NEW c, NEW s, cp'[c] = s, run'[c] = None \/ run'[c].at = s,
           s.next # "approval", s.next = "execute" => s.tool.risk = "safe"
    PROVE  Weakens(c)
BY DEF Weakens, Standing, Now

------------------------------------------------------------------------------
(* The steps of a call that grant nothing and start nothing *)

LEMMA WhereCallIs ==
    ASSUME TInv, NEW c \in Conversations, run[c] # None
    PROVE  /\ run[c] \in Run
           /\ run[c].pc \notin GraphStates => run[c].at = None
           /\ run[c].pc \in GraphStates =>
                run[c].at \in Snapshot /\ run[c].at # None /\ cp[c] \in {None, run[c].at}
<1>1. run[c] \in Run /\ RunOK(c, run[c], cp[c], asked, votes, expired)
  BY DEF TInv, IInv, TypeOK, ConversationOK
<1> QED
  BY <1>1, NothingAssumption DEF RunOK

LEMMA AdvanceWeakens ==
    ASSUME TInv, NEW c \in Conversations, run[c] # None, NEW s, Advance(c, s),
           s.next # "approval", s.next = "execute" => s.tool.risk = "safe"
    PROVE  Weakens(c)
<1>1. PICK n : n = run[c].steps + 1
  OBVIOUS
<1>2. PICK r : r = [run[c] EXCEPT !.pc = "step", !.at = s, !.decision = None, !.steps = n,
                                  !.result = None]
  OBVIOUS
<1>3. r.at = s
  BY <1>2, WhereCallIs DEF Run
<1>4. cp'[c] = s /\ (run'[c] = None \/ run'[c] = r)
  BY <1>1, <1>2 DEF Advance, CallBecomes, TInv, IInv, TypeOK
<1> QED
  BY <1>3, <1>4, WeakensOnward

LEMMA AnsweredGoesToModel ==
    ASSUME NEW s \in Snapshot, NEW code, NEW i
    PROVE  Answered(s, code, i).next = "model"
BY DEF Answered, Snapshot

\* The nodes that lead to no risky call.
LEMMA NodesWeaken ==
    ASSUME TInv, NEW c \in Conversations,
           \/ \E k \in CallKinds : CallModel(c, k)
           \/ GuardRefuses(c) \/ GuardPasses(c) \/ PutResult(c)
           \/ \E code \in Outcomes \union {"invalid_arguments"} : ExecuteSafe(c, code)
    PROVE  Weakens(c)
<1>1. run[c] # None /\ run[c].pc \in GraphStates
  BY DEF CallModel, GuardRefuses, GuardPasses, PutResult, ExecuteSafe, AtNode, At, GraphStates
<1>2. run[c].at \in Snapshot
  BY <1>1, WhereCallIs
<1>3. ASSUME NEW k \in CallKinds, CallModel(c, k) PROVE Weakens(c)
  <2>1. PICK s : s = [run[c].at EXCEPT !.msgs = Append(@, AI(k)),
                                       !.next = IF k = "text" THEN "end" ELSE "guard"]
    OBVIOUS
  <2>2. s.next \in {"end", "guard"}
    BY <1>2, <2>1 DEF Snapshot
  <2>3. Advance(c, s)
    BY <1>3, <2>1 DEF CallModel
  <2> QED
    BY <1>1, <2>2, <2>3, AdvanceWeakens
<1>4. CASE GuardPasses(c)
  <2>1. PICK s : s = [run[c].at EXCEPT !.tool = [risk |-> "safe", id |-> None],
                                       !.approval = None, !.next = "execute"]
    OBVIOUS
  <2>2. s.next = "execute" /\ s.tool.risk = "safe"
    BY <1>2, <2>1 DEF Snapshot
  <2>3. Advance(c, s)
    BY <1>4, <2>1 DEF GuardPasses
  <2> QED
    BY <1>1, <2>2, <2>3, AdvanceWeakens
<1>5. ASSUME NEW code, NEW i, Advance(c, Answered(run[c].at, code, i)) PROVE Weakens(c)
  BY <1>1, <1>2, <1>5, AnsweredGoesToModel, AdvanceWeakens
<1> QED
  BY <1>3, <1>4, <1>5 DEF GuardRefuses, PutResult, ExecuteSafe

\* The rest of a call: before and after its graph, inside a node, and where a run ends.
LEMMA CallsWeaken ==
    ASSUME TInv, NEW c \in Conversations,
           \/ ReadPending(c) \/ Decline(c) \/ Interrupt(c) \/ RunFails(c) \/ Cancel(c)
           \/ \E code \in Outcomes : EndHandler(c, code)
           \/ Complete(c) \/ ResetThread(c) \/ ResetRows(c)
    PROVE  Weakens(c)
<1>0. run[c] # None /\ run[c] \in Run
  BY WhereCallIs DEF ReadPending, Decline, Interrupt, RunFails, Cancel, EndHandler, Complete,
     ResetThread, ResetRows, AtNode, At
<1>t. run \in [Conversations -> Run \union {None}] /\ cp \in [Conversations -> Snapshot \union {None}]
  BY DEF TInv, IInv, TypeOK
<1>1. ASSUME run'[c] = None, cp'[c] = cp[c] PROVE Weakens(c)
  <2>1. CASE run[c].pc \in GraphStates
    BY <1>0, <1>1, <2>1, WhereCallIs, WeakensAtEnd
  <2>2. CASE run[c].pc \notin GraphStates
    BY <1>0, <1>1, <2>2, WhereCallIs, WeakensOutside
  <2> QED
    BY <2>1, <2>2
<1>2. CASE Decline(c) \/ Interrupt(c) \/ RunFails(c) \/ Cancel(c) \/ ResetRows(c)
  BY <1>1, <1>2, <1>t DEF Decline, Interrupt, RunFails, Cancel, ResetRows, GiveUp, Release,
     CallBecomes
<1>3. CASE ReadPending(c)
  <2>1. PICK p : run' = [run EXCEPT ![c] = [run[c] EXCEPT !.pc = "decide", !.seen = p]]
    BY <1>3 DEF ReadPending, CallBecomes
  <2>2. run'[c].at = run[c].at /\ cp'[c] = cp[c]
    BY <1>0, <1>3, <1>t, <2>1 DEF Run, ReadPending
  <2>3. run[c].at = None
    BY <1>3, WhereCallIs DEF ReadPending, At, GraphStates
  <2> QED
    BY <2>2, <2>3, WeakensOutside
<1>4. CASE ResetThread(c)
  <2>1. run'[c].at = run[c].at /\ cp'[c] = None
    BY <1>0, <1>4, <1>t DEF Run, ResetThread, DropThread, CallBecomes
  <2>2. run[c].at = None
    BY <1>4, WhereCallIs DEF ResetThread, At, GraphStates
  <2> QED
    BY <2>1, <2>2, WeakensOutside
<1>5. CASE (\E code \in Outcomes : EndHandler(c, code)) \/ Complete(c)
  <2>1. run'[c].at = run[c].at
    BY <1>0, <1>5, <1>t DEF Run, EndHandler, Complete, CallBecomes
  <2>2. run[c].at # None
    BY <1>5, WhereCallIs DEF EndHandler, Complete, At, GraphStates
  <2>3. ASSUME NEW code \in Outcomes
        PROVE  [run[c] EXCEPT !.pc = "complete", !.result = code] \in Run
    BY <1>0, OutcomesAssumption DEF Run, Codes
  <2>4. [run[c] EXCEPT !.pc = "put"] \in Run
    BY <1>0 DEF Run
  <2>5. run'[c] \in Run
    BY <1>5, <1>t, <2>3, <2>4 DEF EndHandler, Complete, CallBecomes
  <2> QED
    BY <1>0, <2>1, <2>2, <2>5, NothingAssumption, WeakensInside
<1> QED
  BY <1>2, <1>3, <1>4, <1>5

\* A new message ends what the last run left; one that may settle an expired or a granted
\* request resumes the thread where it waits.
LEMMA StartGraphWeakens ==
    ASSUME TInv, NEW c \in Conversations, StartGraph(c)
    PROVE  Weakens(c)
<1>1. run[c] # None /\ run[c] \in Run
  BY WhereCallIs DEF StartGraph, At
<1>2. PICK s : s = IF cp[c] = None
                   THEN [msgs |-> <<Human>>, actor |-> run[c].call.actor, tool |-> None,
                         approval |-> None, next |-> "model"]
                   ELSE [cp[c] EXCEPT !.msgs = Append(@, Human), !.actor = run[c].call.actor,
                                      !.next = "model"]
  OBVIOUS
<1>3. s.next = "model"
  BY <1>2 DEF TInv, IInv, TypeOK, Snapshot
<1>4. PICK r : r = [run[c] EXCEPT !.pc = "step", !.at = s]
  OBVIOUS
<1>5. r.at = s
  BY <1>1, <1>4 DEF Run
<1>6. cp'[c] = s /\ run'[c] = r
  BY <1>2, <1>4 DEF StartGraph, CallBecomes, TInv, IInv, TypeOK
<1> QED
  BY <1>3, <1>5, <1>6, WeakensOnward

LEMMA ResumeGraphWeakens ==
    ASSUME TInv, NEW c \in Conversations, ResumeGraph(c)
    PROVE  Weakens(c)
<1>1. /\ run[c] # None /\ run[c] \in Run /\ run[c].at = None /\ run[c].seen # None
      /\ RunOK(c, run[c], cp[c], asked, votes, expired)
  BY WhereCallIs
     DEF ResumeGraph, At, GraphStates, MaySettle, TInv, IInv, ConversationOK
<1>2. CASE run'[c] = None
  BY <1>1, <1>2, WeakensOutside DEF ResumeGraph
<1>3. ASSUME cp[c] # None, NEW d,
             run'[c] = [run[c] EXCEPT !.pc = "step", !.at = cp[c], !.decision = d]
      PROVE  Weakens(c)
  <2>1. run'[c].at = cp[c]
    BY <1>1, <1>3 DEF Run
  <2>2. cp[c].approval = run[c].seen /\ SnapshotOK(c, cp[c], asked, votes)
    BY <1>1, <1>3 DEF RunOK, ResumeGraph, At, TInv, IInv, ConversationOK
  <2>3. cp[c].next = "approval"
    BY <1>1, <2>2 DEF SnapshotOK
  <2>4. cp'[c] = cp[c]
    BY DEF ResumeGraph
  <2> QED
    BY <1>1, <1>3, <2>1, <2>3, <2>4 DEF Weakens, Standing, Now
<1>4. run \in [Conversations -> Run \union {None}]
  BY DEF TInv, IInv, TypeOK
<1>5. \/ run'[c] = None
      \/ /\ cp[c] # None
         /\ \E d : run'[c] = [run[c] EXCEPT !.pc = "step", !.at = cp[c], !.decision = d]
  BY <1>4 DEF ResumeGraph, CallBecomes, GiveUp, Release
<1> QED
  BY <1>2, <1>3, <1>5

\* The node approval, when the decision is no timely consent.
LEMMA RefusalWeakens ==
    ASSUME TInv, NEW c \in Conversations, AwaitApproval(c),
           ~Passes(run[c].decision, run[c].at.approval)
    PROVE  Weakens(c)
<1>1. run[c] # None /\ run[c].pc \in GraphStates
  BY DEF AwaitApproval, AtNode, At, GraphStates
<1>2. \E code : Advance(c, Answered(run[c].at, code, run[c].at.approval.id))
  BY DEF AwaitApproval
<1> QED
  BY <1>1, <1>2, WhereCallIs, AnsweredGoesToModel, AdvanceWeakens

LEMMA ClaimWeakens ==
    ASSUME TInv, NEW c \in Conversations, Claim(c)
    PROVE  Weakens(c)
<1>1. run[c] # None /\ run[c] \in Run /\ run[c].pc \in GraphStates /\ run[c].at \in Snapshot
      /\ run[c].at # None
  BY WhereCallIs DEF Claim, AtNode, At, GraphStates
<1>2. CASE CallBecomes(c, [run[c] EXCEPT !.pc = "handler"])
  <2>1. [run[c] EXCEPT !.pc = "handler"] \in Run /\ [run[c] EXCEPT !.pc = "handler"].at = run[c].at
    BY <1>1 DEF Run
  <2>2. run'[c] \in Run /\ run'[c].at = run[c].at
    BY <1>2, <2>1 DEF CallBecomes, TInv, IInv, TypeOK
  <2> QED
    BY <1>1, <2>2, NothingAssumption, WeakensInside
<1>3. CASE \E code, i : Advance(c, Answered(run[c].at, code, i))
  BY <1>1, <1>3, AnsweredGoesToModel, AdvanceWeakens
<1> QED
  BY <1>2, <1>3 DEF Claim

\* What is done beside the calls.
LEMMA DeletionWeakens ==
    ASSUME TInv, NEW c \in Conversations, DeleteThread(c)
    PROVE  Weakens(c)
<1>1. run'[c] = run[c] /\ cp'[c] = None
  BY DEF DeleteThread, DropThread, TInv, IInv, TypeOK
<1>2. CASE run[c] # None /\ run[c].at # None
  BY <1>1, <1>2, WeakensInside
<1>3. CASE run[c] = None \/ run[c].at = None
  BY <1>1, <1>3, WeakensOutside
<1> QED
  BY <1>2, <1>3

LEMMA CrashWeakens ==
    ASSUME TInv, Crash, NEW c \in Conversations
    PROVE  Weakens(c)
<1>1. run'[c] = None /\ cp'[c] = cp[c]
  BY DEF Crash
<1>2. CASE run[c] # None /\ run[c].at # None
  BY <1>1, <1>2, WhereCallIs, WeakensAtEnd
<1>3. CASE run[c] = None \/ run[c].at = None
  BY <1>1, <1>3, WeakensOutside
<1> QED
  BY <1>2, <1>3

------------------------------------------------------------------------------
(* The steps that ask, vote, grant, start and expire *)

LEMMA Kept ==
    ASSUME PhasesStand, PhasesStand', TypeOK, NEW a \in ApprovalIds,
           asked'[a] = asked[a], runs'[a] > 0 <=> runs[a] > 0,
           \A c \in Conversations : asked[a] # None /\ asked[a].conv = c =>
                Standing(cp'[c], run'[c], a) = Standing(cp[c], run[c], a)
    PROVE  Phase(a)' = Phase(a)
<1>1. CASE asked[a] = None \/ runs[a] > 0
  BY <1>1 DEF PhasesStand
<1>2. CASE asked[a] # None /\ ~(runs[a] > 0)
  <2>1. PICK c \in Conversations : c = asked[a].conv
    BY <1>2 DEF TypeOK
  <2>2. Phase(a) = Standing(cp[c], run[c], a) /\ Phase(a)' = Standing(cp'[c], run'[c], a)
    BY <1>2, <2>1 DEF PhasesStand
  <2> QED
    BY <1>2, <2>1, <2>2
<1> QED
  BY <1>1, <1>2

\* A request stands elsewhere than in c where it stood.
LEMMA OnlyHere ==
    ASSUME NEW c, \A d \in Conversations \ {c} : cp'[d] = cp[d] /\ run'[d] = run[d]
    PROVE  \A a \in ApprovalIds : \A d \in Conversations \ {c} :
                Standing(cp'[d], run'[d], a) = Standing(cp[d], run[d], a)
OBVIOUS

\* The guard asks.
LEMMA AskImplements ==
    ASSUME TInv, PhasesStand, PhasesStand', NEW c \in Conversations, NEW a \in ApprovalIds,
           GuardAsks(c, a), NEW u, u = run[c].at.actor
    PROVE  u \in Actors /\ Approval!Ask(a, u, c)
<1>1. /\ run[c] # None /\ run[c] \in Run /\ run[c].at \in Snapshot /\ run[c].at # None
      /\ run[c].at.next = "guard" /\ cp[c] \in {None, run[c].at}
      /\ asked[a] = None /\ runs' = runs
  BY WhereCallIs DEF GuardAsks, AtNode, At, GraphStates
<1>2. u \in Actors
  BY <1>1 DEF Snapshot
<1>3. PICK z : z = [run[c].at EXCEPT !.tool = [risk |-> "risky", id |-> a],
                        !.approval = [id |-> a, actor |-> u, conv |-> c], !.next = "approval"]
  OBVIOUS
<1>4. z.next = "approval" /\ z.approval.id = a /\ z \in Snapshot
  BY <1>1, <1>2, <1>3 DEF Snapshot, PendingTool, PendingApproval
<1>5. Advance(c, z)
  BY <1>3 DEF GuardAsks
<1>6. PICK n : n = run[c].steps + 1
  OBVIOUS
<1>7. PICK r : r = [run[c] EXCEPT !.pc = "step", !.at = z, !.decision = None, !.steps = n,
                                  !.result = None]
  OBVIOUS
<1>8. r.at = z /\ r # None
  <2>1. n \in Nat
    BY <1>1, <1>6 DEF Run
  <2>2. r \in Run /\ r.at = z
    BY <1>1, <1>4, <1>7, <2>1 DEF Run
  <2> QED
    BY <2>2, NothingAssumption
<1>9. cp' = [cp EXCEPT ![c] = z] /\ run' = [run EXCEPT ![c] = r]
  BY <1>4, <1>5, <1>6, <1>7 DEF Advance, CallBecomes
<1>10. /\ cp'[c] = z /\ run'[c] = r
       /\ \A d \in Conversations \ {c} : cp'[d] = cp[d] /\ run'[d] = run[d]
  BY <1>9 DEF TInv, IInv, TypeOK
<1>11. asked' = [asked EXCEPT ![a] = [actor |-> u, conv |-> c]]
  BY DEF GuardAsks
<1>12. asked'[a] = [actor |-> u, conv |-> c] /\ \A b \in ApprovalIds \ {a} : asked'[b] = asked[b]
  BY <1>11 DEF TInv, IInv, TypeOK
<1>13. Phase(a) = "unasked"
  BY <1>1 DEF PhasesStand
<1>14. Phase(a)' = "waiting"
  <2>1. asked'[a] # None /\ asked'[a].conv = c
    BY <1>2, <1>12, NoneAssumption
  <2>2. ~(runs'[a] > 0)
    BY <1>1, UnaskedUntouched DEF Untouched
  <2>3. Phase(a)' = Standing(cp'[c], run'[c], a)
    BY <2>1, <2>2 DEF PhasesStand
  <2> QED
    BY <2>3, <1>4, <1>8, <1>10, NothingAssumption DEF Standing, Now
<1>15. ASSUME NEW b \in ApprovalIds \ {a} PROVE Phase(b)' = Phase(b)
  <2>1. Standing(cp[c], run[c], b) = "dropped"
    BY <1>1 DEF Standing, Now
  <2>2. Standing(cp'[c], run'[c], b) = "dropped"
    BY <1>4, <1>8, <1>10 DEF Standing, Now
  <2>3. \A d \in Conversations : Standing(cp'[d], run'[d], b) = Standing(cp[d], run[d], b)
    BY <2>1, <2>2, <1>10
  <2> QED
    BY <2>3, <1>1, <1>12, Kept DEF TInv, IInv
<1>16. [b \in ApprovalIds |-> Phase(b)]' = [[b \in ApprovalIds |-> Phase(b)] EXCEPT ![a] = "waiting"]
  BY <1>14, <1>15
<1>17. UNCHANGED <<votes, expired>>
  BY DEF GuardAsks
<1> QED
  BY <1>2, <1>11, <1>13, <1>16, <1>17 DEF Approval!Ask

\* A call arrives; an approval that is in time is a vote.
LEMMA VoteImplements ==
    ASSUME TInv, PhasesStand, PhasesStand', NEW c \in Conversations, NEW call \in Calls,
           Receive(c, call)
    PROVE  StepsOrStutters
<1>1. PICK r :
        r = [pc |-> IF call.op = "reset" THEN "reset" ELSE "read", call |-> call,
             seen |-> None, at |-> None, decision |-> None, steps |-> 0, result |-> None]
  OBVIOUS
<1>2. r.at = None
  BY <1>1
<1>3. run[c] = None /\ run' = [run EXCEPT ![c] = r] /\ UNCHANGED <<cp, asked, runs, expired>>
  BY <1>1 DEF Receive, CallBecomes
<1>4. \A a \in ApprovalIds : \A d \in Conversations :
            Standing(cp'[d], run'[d], a) = Standing(cp[d], run[d], a)
  BY <1>2, <1>3 DEF Standing, Now, TInv, IInv, TypeOK
<1>5. \A a \in ApprovalIds : Phase(a)' = Phase(a)
  BY <1>3, <1>4, Kept DEF TInv, IInv
<1>6. [a \in ApprovalIds |-> Phase(a)]' = [a \in ApprovalIds |-> Phase(a)]
  BY <1>5
<1>7. CASE call.op = "approve" /\ asked[call.id] # None /\ call.id \notin expired
  <2>1. call.id \in ApprovalIds /\ call.actor \in Actors
    BY <1>7 DEF Calls
  <2>2. Phase(call.id) # "unasked"
    BY <1>7, <2>1 DEF PhasesStand, Standing
  <2>3. votes' = votes \union {<<call.id, call.actor, c>>}
    BY <1>7 DEF Receive
  <2>4. Approval!Vote(call.id, call.actor, c)
    BY <1>3, <1>6, <1>7, <2>1, <2>2, <2>3 DEF Approval!Vote
  <2> QED
    BY <2>1, <2>4 DEF StepsOrStutters, Approval!Next
<1>8. CASE ~(call.op = "approve" /\ asked[call.id] # None /\ call.id \notin expired)
  BY <1>3, <1>6, <1>8 DEF Receive, StepsOrStutters, Approval!vars
<1> QED
  BY <1>7, <1>8

LEMMA ExpiryImplements ==
    ASSUME TInv, PhasesStand, PhasesStand', NEW a \in ApprovalIds, Expire(a)
    PROVE  Approval!Expire(a)
<1>1. /\ asked[a] # None /\ expired' = expired \union {a}
      /\ UNCHANGED <<cp, run, asked, runs, votes>>
  BY DEF Expire, history
<1>2. \A b \in ApprovalIds : Phase(b)' = Phase(b)
  BY <1>1, Kept DEF TInv, IInv
<1>3. [b \in ApprovalIds |-> Phase(b)]' = [b \in ApprovalIds |-> Phase(b)]
  BY <1>2
<1>4. Phase(a) # "unasked"
  BY <1>1 DEF PhasesStand, Standing
<1> QED
  BY <1>1, <1>3, <1>4 DEF Approval!Expire

\* The node approval, when the requester consented in time.
LEMMA GrantImplements ==
    ASSUME TInv, PhasesStand, PhasesStand', NEW c \in Conversations, AwaitApproval(c),
           Passes(run[c].decision, run[c].at.approval), NEW a, a = run[c].at.approval.id
    PROVE  a \in ApprovalIds /\ Approval!Grant(a)
<1>1. /\ run[c] # None /\ run[c] \in Run /\ run[c].at \in Snapshot /\ run[c].at # None
      /\ run[c].at.next = "approval" /\ run[c].pc = "step" /\ run[c].decision # None
  BY WhereCallIs DEF AwaitApproval, AtNode, At, GraphStates
<1>2. PICK s : s = run[c].at
  OBVIOUS
<1>3. /\ s.approval \in PendingApproval
      /\ asked[a] = [actor |-> s.approval.actor, conv |-> c]
      /\ s.tool = [risk |-> "risky", id |-> a]
  BY <1>1, <1>2, InGraph DEF SnapshotOK, GraphStates, TInv
<1>4. a \in ApprovalIds /\ s.approval.actor \in Actors
  BY <1>2, <1>3 DEF PendingApproval
<1>5. asked[a] # None /\ asked[a].conv = c /\ asked[a].actor = s.approval.actor
  BY <1>3, <1>4, NoneAssumption
<1>6. ~(runs[a] > 0)
  <2>1. PlaceOK(run[c])
    BY <1>1, InGraphTold DEF GraphStates
  <2>2. LeadsTo(run[c].at, a)
    BY <1>1 DEF LeadsTo
  <2>3. Untouched(a)
    BY <1>1, <1>4, <2>1, <2>2 DEF PlaceOK
  <2> QED
    BY <2>3 DEF Untouched
<1>7. a \notin expired /\ <<a, asked[a].actor, asked[a].conv>> \in votes
  <2>1. RunOK(c, run[c], cp[c], asked, votes, expired)
    BY <1>1 DEF TInv, IInv, ConversationOK
  <2>2. <<run[c].decision.id, run[c].decision.actor, run[c].decision.conv>> \in votes
    BY <1>1, <2>1 DEF RunOK, Passes
  <2>3. s.approval.conv = c
    BY <1>1, <1>2, InGraph DEF SnapshotOK, GraphStates, TInv
  <2> QED
    BY <1>2, <1>5, <2>2, <2>3 DEF Passes, ValidIdentity
<1>8. PICK z : z = [s EXCEPT !.approval = None, !.next = "execute"]
  OBVIOUS
<1>9. z \in Snapshot /\ z.next = "execute" /\ z.tool.risk = "risky" /\ z.tool.id = a
  <2>1. s \in Snapshot
    BY <1>1, <1>2
  <2>2. z \in Snapshot /\ z.next = "execute" /\ z.tool = s.tool
    BY <2>1, <1>8 DEF Snapshot
  <2> QED
    BY <1>3, <2>2
<1>10. Advance(c, z)
  BY <1>2, <1>8 DEF AwaitApproval
<1>11. PICK n : n = run[c].steps + 1
  OBVIOUS
<1>12. PICK r : r = [run[c] EXCEPT !.pc = "step", !.at = z, !.decision = None, !.steps = n,
                                   !.result = None]
  OBVIOUS
<1>13. r.at = z /\ r # None
  <2>1. n \in Nat
    BY <1>1, <1>11 DEF Run
  <2>2. r \in Run /\ r.at = z
    BY <1>1, <1>9, <1>12, <2>1 DEF Run
  <2> QED
    BY <2>2, NothingAssumption
<1>14. cp' = [cp EXCEPT ![c] = z] /\ run' = [run EXCEPT ![c] = r]
  BY <1>9, <1>10, <1>11, <1>12 DEF Advance, CallBecomes
<1>15. /\ cp'[c] = z /\ run'[c] = r
       /\ \A d \in Conversations \ {c} : cp'[d] = cp[d] /\ run'[d] = run[d]
  BY <1>14 DEF TInv, IInv, TypeOK
<1>16. asked' = asked /\ runs' = runs /\ UNCHANGED <<votes, expired>>
  BY DEF AwaitApproval, history
<1>17. Phase(a) = "waiting"
  <2>1. Phase(a) = Standing(cp[c], run[c], a)
    BY <1>4, <1>5, <1>6 DEF PhasesStand
  <2> QED
    BY <2>1, <1>1 DEF Standing, Now
<1>18. Phase(a)' = "granted"
  <2>1. Phase(a)' = Standing(cp'[c], run'[c], a)
    BY <1>4, <1>5, <1>6, <1>16 DEF PhasesStand
  <2>2. r.at # None
    BY <1>9, <1>13, NothingAssumption
  <2> QED
    BY <2>1, <2>2, <1>9, <1>13, <1>15 DEF Standing, Now
<1>19. ASSUME NEW b \in ApprovalIds \ {a} PROVE Phase(b)' = Phase(b)
  <2>1. Standing(cp[c], run[c], b) = "dropped"
    BY <1>1 DEF Standing, Now
  <2>2. Standing(cp'[c], run'[c], b) = "dropped"
    BY <1>9, <1>13, <1>15, NothingAssumption DEF Standing, Now
  <2>3. \A d \in Conversations : Standing(cp'[d], run'[d], b) = Standing(cp[d], run[d], b)
    BY <2>1, <2>2, <1>15
  <2> QED
    BY <2>3, <1>16, Kept DEF TInv, IInv
<1>20. [b \in ApprovalIds |-> Phase(b)]' = [[b \in ApprovalIds |-> Phase(b)] EXCEPT ![a] = "granted"]
  BY <1>18, <1>19
<1> QED
  BY <1>4, <1>7, <1>16, <1>17, <1>20 DEF Approval!Grant

\* The handler starts, or refuses its arguments once more.
LEMMA StartImplements ==
    ASSUME TInv, PhasesStand, PhasesStand', NEW c \in Conversations, StartHandler(c),
           NEW a, a = run[c].at.tool.id, runs' = [runs EXCEPT ![a] = @ + 1]
    PROVE  a \in ApprovalIds /\ Approval!StartTool(a)
<1>1. /\ run[c] # None /\ run[c] \in Run /\ run[c].at \in Snapshot /\ run[c].at # None
      /\ run[c].pc = "handler" /\ run[c].pc \in GraphStates
  BY WhereCallIs DEF StartHandler, At, GraphStates
<1>2. run[c].at.next = "execute" /\ run[c].at.tool.risk = "risky"
  BY <1>1, InGraph DEF TInv
<1>3. Granted(c, a, asked, votes) /\ PlaceOK(run[c])
  BY <1>1, <1>2, InGraphTold DEF SnapshotOK
<1>4. a \in ApprovalIds /\ asked[a] # None /\ asked[a].conv = c /\ runs[a] = 0
  BY <1>1, <1>3 DEF Granted, PlaceOK
<1>5. runs'[a] = 1 /\ \A b \in ApprovalIds \ {a} : runs'[b] = runs[b]
  BY <1>4 DEF TInv, IInv, TypeOK
<1>6. Phase(a) = "granted"
  <2>1. Phase(a) = Standing(cp[c], run[c], a)
    BY <1>4 DEF PhasesStand
  <2> QED
    BY <2>1, <1>1, <1>2 DEF Standing, Now
<1>7. UNCHANGED <<cp, asked, votes, expired>>
  BY DEF StartHandler
<1>8. Phase(a)' = "started"
  BY <1>4, <1>5, <1>7 DEF PhasesStand
<1>9. PICK q : q = [run[c] EXCEPT !.pc = "running"]
  OBVIOUS
<1>10. PICK w : w = [run[c] EXCEPT !.pc = "complete", !.result = "invalid_arguments"]
  OBVIOUS
<1>11. q \in Run /\ w \in Run /\ q.at = run[c].at /\ w.at = run[c].at
  BY <1>1, <1>9, <1>10 DEF Run, Codes
<1>12. run' = [run EXCEPT ![c] = q] \/ run' = [run EXCEPT ![c] = w]
  BY <1>9, <1>10 DEF StartHandler, CallBecomes
<1>13. \A b \in ApprovalIds : \A d \in Conversations :
            Standing(cp'[d], run'[d], b) = Standing(cp[d], run[d], b)
  <2>1. run'[c] # None /\ run'[c].at = run[c].at /\ \A d \in Conversations \ {c} : run'[d] = run[d]
    BY <1>11, <1>12, NothingAssumption DEF TInv, IInv, TypeOK
  <2> QED
    BY <1>1, <1>7, <2>1 DEF Standing, Now
<1>14. ASSUME NEW b \in ApprovalIds \ {a} PROVE Phase(b)' = Phase(b)
  BY <1>5, <1>7, <1>13, Kept DEF TInv, IInv
<1>15. [b \in ApprovalIds |-> Phase(b)]' = [[b \in ApprovalIds |-> Phase(b)] EXCEPT ![a] = "started"]
  BY <1>8, <1>14
<1> QED
  BY <1>4, <1>6, <1>7, <1>15 DEF Approval!StartTool

LEMMA StartWeakens ==
    ASSUME TInv, NEW c \in Conversations, StartHandler(c)
    PROVE  Weakens(c)
<1>1. run[c] # None /\ run[c] \in Run /\ run[c].at # None
  BY WhereCallIs DEF StartHandler, At, GraphStates
<1>2. PICK q : q = [run[c] EXCEPT !.pc = "running"]
  OBVIOUS
<1>3. PICK w : w = [run[c] EXCEPT !.pc = "complete", !.result = "invalid_arguments"]
  OBVIOUS
<1>4. q \in Run /\ w \in Run /\ q.at = run[c].at /\ w.at = run[c].at
  BY <1>1, <1>2, <1>3 DEF Run, Codes
<1>5. run'[c] = q \/ run'[c] = w
  BY <1>2, <1>3 DEF StartHandler, CallBecomes, TInv, IInv, TypeOK
<1> QED
  BY <1>1, <1>4, <1>5, NothingAssumption, WeakensInside

------------------------------------------------------------------------------
(* The refinement *)

LEMMA StepElsewhere ==
    ASSUME TInv, NEW c \in Conversations, RunStep(c), NEW d \in Conversations, d # c
    PROVE  cp'[d] = cp[d] /\ run'[d] = run[d]
BY DEF RunStep, ReadPending, Decline, StartGraph, ResumeGraph, CallModel, GuardRefuses,
       GuardPasses, GuardAsks, Interrupt, AwaitApproval, ExecuteSafe, Claim, StartHandler,
       EndHandler, Complete, PutResult, RunFails, ResetThread, ResetRows, Advance, DropThread,
       CallBecomes, GiveUp, Release, TInv, IInv, TypeOK

LEMMA RunStepImplements ==
    ASSUME TInv, PhasesStand, PhasesStand', NEW c \in Conversations, RunStep(c)
    PROVE  StepsOrStutters
<1>1. ASSUME Weakens(c), UNCHANGED <<asked, votes, expired, runs>> PROVE StepsOrStutters
  <2>1. \A d \in Conversations : Weakens(d)
    BY <1>1, StepElsewhere, Unmoved
  <2> QED
    BY <1>1, <2>1, WeakensDrops DEF TInv, IInv
<1>2. CASE \/ ReadPending(c) \/ Decline(c) \/ Interrupt(c) \/ RunFails(c)
           \/ \E code \in Outcomes : EndHandler(c, code)
           \/ Complete(c) \/ ResetThread(c) \/ ResetRows(c)
  <2>1. UNCHANGED <<asked, votes, expired, runs>>
    BY <1>2 DEF ReadPending, Decline, Interrupt, RunFails, EndHandler, Complete, ResetThread,
       ResetRows, history
  <2> QED
    BY <1>1, <1>2, <2>1, CallsWeaken
<1>3. CASE \/ \E k \in CallKinds : CallModel(c, k)
           \/ GuardRefuses(c) \/ GuardPasses(c) \/ PutResult(c)
           \/ \E code \in Outcomes \union {"invalid_arguments"} : ExecuteSafe(c, code)
  <2>1. UNCHANGED <<asked, votes, expired, runs>>
    BY <1>3 DEF CallModel, GuardRefuses, GuardPasses, PutResult, ExecuteSafe, history
  <2> QED
    BY <1>1, <1>3, <2>1, NodesWeaken
<1>4. CASE StartGraph(c) \/ ResumeGraph(c) \/ Claim(c)
  <2>1. UNCHANGED <<asked, votes, expired, runs>>
    BY <1>4 DEF StartGraph, ResumeGraph, Claim, history
  <2> QED
    BY <1>1, <1>4, <2>1, StartGraphWeakens, ResumeGraphWeakens, ClaimWeakens
<1>5. ASSUME NEW a \in ApprovalIds, GuardAsks(c, a) PROVE StepsOrStutters
  <2>1. PICK u : u = run[c].at.actor
    OBVIOUS
  <2>2. u \in Actors /\ Approval!Ask(a, u, c)
    BY <1>5, <2>1, AskImplements
  <2> QED
    BY <2>2 DEF StepsOrStutters, Approval!Next
<1>6. CASE AwaitApproval(c)
  <2>1. CASE Passes(run[c].decision, run[c].at.approval)
    <3>1. PICK a : a = run[c].at.approval.id
      OBVIOUS
    <3>2. a \in ApprovalIds /\ Approval!Grant(a)
      BY <1>6, <2>1, <3>1, GrantImplements
    <3> QED
      BY <3>2 DEF StepsOrStutters, Approval!Next
  <2>2. CASE ~Passes(run[c].decision, run[c].at.approval)
    <3>1. UNCHANGED <<asked, votes, expired, runs>>
      BY <1>6 DEF AwaitApproval, history
    <3> QED
      BY <1>1, <1>6, <2>2, <3>1, RefusalWeakens
  <2> QED
    BY <2>1, <2>2
<1>7. CASE StartHandler(c)
  <2>1. CASE runs' = runs
    <3>1. UNCHANGED <<asked, votes, expired, runs>>
      BY <1>7, <2>1 DEF StartHandler
    <3> QED
      BY <1>1, <1>7, <3>1, StartWeakens
  <2>2. CASE runs' # runs
    <3>1. PICK a : a = run[c].at.tool.id /\ runs' = [runs EXCEPT ![a] = @ + 1]
      BY <1>7, <2>2 DEF StartHandler
    <3>2. a \in ApprovalIds /\ Approval!StartTool(a)
      BY <1>7, <3>1, StartImplements
    <3> QED
      BY <3>2 DEF StepsOrStutters, Approval!Next
  <2> QED
    BY <2>1, <2>2
<1> QED
  BY <1>2, <1>3, <1>4, <1>5, <1>6, <1>7 DEF RunStep

LEMMA NextImplements ==
    ASSUME TInv, PhasesStand, PhasesStand', [Next]_vars
    PROVE  StepsOrStutters
<1>1. ASSUME \A c \in Conversations : Weakens(c), UNCHANGED <<asked, votes, expired, runs>>
      PROVE  StepsOrStutters
  BY <1>1, WeakensDrops DEF TInv, IInv
<1>2. CASE UNCHANGED vars
  BY <1>1, <1>2, Unmoved DEF vars, history
<1>3. ASSUME NEW c \in Conversations, NEW call \in Calls, Receive(c, call) PROVE StepsOrStutters
  BY <1>3, VoteImplements
<1>4. ASSUME NEW c \in Conversations, RunStep(c) PROVE StepsOrStutters
  BY <1>4, RunStepImplements
<1>5. ASSUME NEW c \in Conversations, Cancel(c) PROVE StepsOrStutters
  <2>1. \A d \in Conversations \ {c} : cp'[d] = cp[d] /\ run'[d] = run[d]
    BY <1>5 DEF Cancel, GiveUp, Release, CallBecomes, TInv, IInv, TypeOK
  <2>2. UNCHANGED <<asked, votes, expired, runs>>
    BY <1>5 DEF Cancel
  <2> QED
    BY <1>1, <1>5, <2>1, <2>2, CallsWeaken, Unmoved
<1>6. ASSUME NEW c \in Conversations, DeleteThread(c) PROVE StepsOrStutters
  <2>1. \A d \in Conversations \ {c} : cp'[d] = cp[d] /\ run'[d] = run[d]
    BY <1>6 DEF DeleteThread, DropThread, TInv, IInv, TypeOK
  <2>2. UNCHANGED <<asked, votes, expired, runs>>
    BY <1>6 DEF DeleteThread
  <2> QED
    BY <1>1, <1>6, <2>1, <2>2, DeletionWeakens, Unmoved
<1>7. ASSUME NEW c \in Conversations, DeleteRows(c) PROVE StepsOrStutters
  BY <1>1, <1>7, Unmoved DEF DeleteRows
<1>8. CASE Crash
  <2>1. UNCHANGED <<asked, votes, expired, runs>>
    BY <1>8 DEF Crash
  <2> QED
    BY <1>1, <1>8, <2>1, CrashWeakens
<1>9. ASSUME NEW a \in ApprovalIds, Expire(a) PROVE StepsOrStutters
  BY <1>9, ExpiryImplements DEF StepsOrStutters, Approval!Next
<1> QED
  BY <1>2, <1>3, <1>4, <1>5, <1>6, <1>7, <1>8, <1>9 DEF Next

\* Graph, checkpoints and ledger (agent/runtime.py, workflow.py, ledger.py) together keep
\* the promise of ToolApproval about every request, whatever is cancelled, crashes, or is
\* deleted meanwhile.
THEOREM AgentImplementsApproval == Spec => ImplementsApproval
<1>1. Init => Approval!Init
  <2> SUFFICES ASSUME Init PROVE Approval!Init
    OBVIOUS
  <2>1. \A a \in ApprovalIds : Phase(a) = "unasked"
    BY DEF Init, Phase
  <2> QED
    BY <2>1 DEF Init, Approval!Init
<1>2. TInv /\ TInv' /\ [Next]_vars => [Approval!Next]_Approval!vars
  BY PhasesDo, PhasesDoNext, NextImplements DEF StepsOrStutters
<1> QED
  BY <1>1, <1>2, OnRecordAlways, PTL DEF Spec, ImplementsApproval, Approval!Spec

==============================================================================
