---------------------------- MODULE AgentRuntime -----------------------------
(***************************************************************************)
(* The agent runtime: LangGraphRuntime (agent/runtime.py), the graph of    *)
(* AgentWorkflow (agent/workflow.py), the ToolExecutionLedger              *)
(* (agent/ledger.py) and what ToolRegistry.execute (tools/registry.py)     *)
(* contributes to them, driven by the calls that MessageApplication passes *)
(* on (application/service.py) and by the dashboard's delete_chat.         *)
(*                                                                         *)
(* One call at a time runs in a conversation: ConversationScheduler, whose *)
(* module shows that it keeps this promise, is represented by the single   *)
(* slot run[c].  delete_chat does not go through it.  Each action is what  *)
(* happens between two awaits of the code, or one awaited statement of the *)
(* two SQLite databases.                                                   *)
(*                                                                         *)
(* LangGraph is external.  What the code relies on: a checkpoint is        *)
(* written after every node and before the next one starts                 *)
(* (durability="sync"); a new input keeps the thread's values, discards    *)
(* its unfinished node and starts at "model"; Command(resume) continues at *)
(* the checkpoint's node and fails on a thread that does not exist; the    *)
(* first interrupt() of a resumed run consumes the decision.               *)
(***************************************************************************)
EXTENDS Naturals, Sequences, SequencesExt, FiniteSets

CONSTANTS
    Actors,
    Conversations,      \* conversation_id = thread_id (ConversationResolver)
    ApprovalIds,        \* what approval_id_factory may return; never the same twice
    CallKinds,          \* what the model may answer, a subset of AllCallKinds
    Outcomes,           \* how a tool may end, a subset of HandlerCodes
    None,
    RecursionLimit,     \* LangGraph's bound on the nodes of one run
    MaxCalls,           \* bound: calls accepted
    MaxAborts,          \* bound: cancellations and crashes
    MaxDeletes          \* bound: delete_chat requests

\* The model's answer, as the guard tells it apart: plain text, a call without an id,
\* calls it refuses (several at once, or one that ToolRegistry.prepare rejects), and one
\* call of a safe or of a risky tool.
AllCallKinds == {"text", "noid", "refused", "safe", "risky"}
HandlerCodes == {"success", "timeout", "handler_error"}

ASSUME CallKindsAssumption == CallKinds \subseteq AllCallKinds
ASSUME OutcomesAssumption == Outcomes \subseteq HandlerCodes
ASSUME NoneAssumption ==
    None \notin ApprovalIds /\ None \notin [actor : Actors, conv : Conversations]
ASSUME BoundsAssumption ==
    RecursionLimit \in Nat /\ MaxCalls \in Nat /\ MaxAborts \in Nat /\ MaxDeletes \in Nat

RefusalCodes == {"approval_expired", "approval_invalid", "approval_denied"}
Codes == HandlerCodes \union RefusalCodes \union {"invalid_arguments"}

Message ==
    [kind : {"human", "ai", "tool"}, what : AllCallKinds \union Codes,
     id : ApprovalIds \union {None}]

Human == [kind |-> "human", what |-> "text", id |-> None]
AI(k) == [kind |-> "ai", what |-> k, id |-> None]
Tool(code, a) == [kind |-> "tool", what |-> code, id |-> a]

PendingTool == [risk : {"safe", "risky"}, id : ApprovalIds \union {None}]
PendingApproval == [id : ApprovalIds, actor : Actors, conv : Conversations]
Decision == [id : ApprovalIds, actor : Actors, conv : Conversations, approved : BOOLEAN]

\* AgentState and the node that runs next; `route` is what `next` was computed from.
Snapshot ==
    [msgs : Seq(Message), actor : Actors, tool : PendingTool \union {None},
     approval : PendingApproval \union {None},
     next : {"model", "guard", "approval", "execute", "end"}]

Call ==
    [op : {"respond", "approve", "deny", "reset"}, actor : Actors,
     id : ApprovalIds \union {None}]

\* A call in its slot: where it is, the pending approval it read, the state of its
\* graph, the decision it carries, the nodes it ran and the result it will record.
Run ==
    [pc : {"read", "decide", "step", "handler", "running", "complete", "put", "reset", "clear"},
     call : Call, seen : PendingApproval \union {None}, at : Snapshot \union {None},
     decision : Decision \union {None}, steps : Nat, result : Codes \union {None}]

Row == [conv : Conversations, status : {"started", "completed"}, result : Codes \union {None}]

\* None stands for nothing of what it stands beside.
ASSUME NothingAssumption ==
    /\ None \notin PendingTool /\ None \notin PendingApproval
    /\ None \notin Snapshot /\ None \notin Run /\ None \notin Row

VARIABLES
    \* the program
    cp,         \* durable: the last checkpoint of each thread, or None
    ledger,     \* durable: the tool_executions row of each approval id, or None
    run,        \* the call that holds the conversation, or None
    deleting,   \* conversations whose delete_chat is between its two deletes
    expired,    \* approval ids whose expires_at has passed
    \* history
    asked,      \* who was asked for each approval, [actor, conv], or None
    votes,      \* the /approve commands that arrived before the approval expired
    runs,       \* how often the handler behind each approval was started
    forgotten,  \* approvals whose conversation's ledger rows were deleted since
    broken,     \* conversations one of whose runs did not reach its end
    cleared,    \* conversations reset or deleted, with no call accepted since
    used        \* how much of each bound is used up

history == <<asked, votes, runs, forgotten, broken, cleared, used>>
vars == <<cp, ledger, run, deleting, expired, history>>

TypeOK ==
    /\ cp \in [Conversations -> Snapshot \union {None}]
    /\ ledger \in [ApprovalIds -> Row \union {None}]
    /\ run \in [Conversations -> Run \union {None}]
    /\ deleting \subseteq Conversations
    /\ expired \subseteq ApprovalIds
    /\ asked \in [ApprovalIds -> [actor : Actors, conv : Conversations] \union {None}]
    /\ votes \subseteq ApprovalIds \X Actors \X Conversations
    /\ runs \in [ApprovalIds -> Nat]
    /\ forgotten \subseteq ApprovalIds
    /\ broken \subseteq Conversations
    /\ cleared \subseteq Conversations
    /\ used \in [{"calls", "aborts", "deletes"} -> Nat]

Init ==
    /\ cp = [c \in Conversations |-> None]
    /\ ledger = [a \in ApprovalIds |-> None]
    /\ run = [c \in Conversations |-> None]
    /\ deleting = {}
    /\ expired = {}
    /\ asked = [a \in ApprovalIds |-> None]
    /\ votes = {}
    /\ runs = [a \in ApprovalIds |-> 0]
    /\ forgotten = {}
    /\ broken = {}
    /\ cleared = {}
    /\ used = [k \in {"calls", "aborts", "deletes"} |-> 0]

------------------------------------------------------------------------------
(* The slot of a conversation, and the graph *)

\* The call of c is now r; None gives the conversation back.
CallBecomes(c, r) == run' = [run EXCEPT ![c] = r]

Release(c) == CallBecomes(c, None)

\* The run ends with an exception or is cancelled; its thread stays where it is.
GiveUp(c) ==
    /\ Release(c)
    /\ broken' = broken \union {c}

\* A node is done: its checkpoint is written, and the run goes on or returns.
Advance(c, s) ==
    /\ cp' = [cp EXCEPT ![c] = s]
    /\ CallBecomes(c, IF s.next = "end"
                      THEN None
                      ELSE [run[c] EXCEPT !.pc = "step", !.at = s, !.decision = None,
                                          !.steps = @ + 1, !.result = None])

\* Mutant: the answered call stays on the approval desk.
AnsweredButPending(s, code, a) ==
    [s EXCEPT !.msgs = Append(@, Tool(code, a)), !.tool = None, !.next = "model"]

\* The state after a node that answers the pending tool call and returns to the model.
Answered(s, code, a) ==
    [s EXCEPT !.msgs = Append(@, Tool(code, a)), !.tool = None, !.approval = None,
              !.next = "model"]

At(c, pc) == run[c] # None /\ run[c].pc = pc

\* The node n of the run of c may start.
AtNode(c, n) ==
    /\ At(c, "step")
    /\ run[c].steps < RecursionLimit
    /\ run[c].at.next = n

LastMessage(s) == s.msgs[Len(s.msgs)]

Unused(k, bound) == used[k] < bound /\ used' = [used EXCEPT ![k] = @ + 1]

------------------------------------------------------------------------------
(* Calls: MessageApplication.handle, the core commands, LangGraphRuntime *)

\* A call gets the conversation; it reads the pending approval or starts to reset.
Receive(c, call) ==
    /\ run[c] = None
    /\ Unused("calls", MaxCalls)
    /\ CallBecomes(c,
            [pc |-> IF call.op = "reset" THEN "reset" ELSE "read", call |-> call,
             seen |-> None, at |-> None, decision |-> None, steps |-> 0, result |-> None])
    /\ votes' = IF call.op = "approve" /\ asked[call.id] # None /\ call.id \notin expired
                THEN votes \union {<<call.id, call.actor, c>>}
                ELSE votes
    /\ cleared' = cleared \ {c}
    /\ UNCHANGED <<cp, ledger, deleting, expired, asked, runs, forgotten, broken>>

\* _get_pending: the pending approval of the last checkpoint.
ReadPending(c) ==
    /\ At(c, "read")
    /\ CallBecomes(c, [run[c] EXCEPT !.pc = "decide",
                            !.seen = IF cp[c] = None THEN None ELSE cp[c].approval])
    /\ UNCHANGED <<cp, ledger, deleting, expired, history>>

\* Mutant: anyone in the conversation may settle the request.
MaySettleAnyone(c, call, p) == p # None /\ call.id = p.id /\ c = p.conv

\* The checks of _decide, in one predicate: p is pending and this call may settle it.
MaySettle(c, call, p) ==
    /\ p # None
    /\ call.id = p.id
    /\ call.actor = p.actor
    /\ c = p.conv

\* respond() with an approval pending: repeat the prompt.
\* approve() or deny() of something else, by someone else, elsewhere: a refusal.
Decline(c) ==
    /\ At(c, "decide")
    /\ LET call == run[c].call
           p == run[c].seen
       IN  \/ call.op = "respond" /\ p # None /\ p.id \notin expired
           \/ call.op \in {"approve", "deny"} /\ ~MaySettle(c, call, p)
    /\ Release(c)
    /\ UNCHANGED <<cp, ledger, deleting, expired, history>>

\* respond() with nothing pending: ainvoke with a new message.
StartGraph(c) ==
    /\ At(c, "decide")
    /\ run[c].call.op = "respond"
    /\ run[c].seen = None
    /\ LET call == run[c].call
           s == IF cp[c] = None
                THEN [msgs |-> <<Human>>, actor |-> call.actor, tool |-> None,
                      approval |-> None, next |-> "model"]
                ELSE [cp[c] EXCEPT !.msgs = Append(@, Human), !.actor = call.actor,
                                   !.next = "model"]
       IN  /\ cp' = [cp EXCEPT ![c] = s]
           /\ CallBecomes(c, [run[c] EXCEPT !.pc = "step", !.at = s])
    /\ UNCHANGED <<ledger, deleting, expired, history>>

\* Mutant: a deletion that took the thread away leaves nothing to fail on.
ResumeGraphWaits(c) ==
    /\ At(c, "decide")
    /\ cp[c] # None
    /\ LET call == run[c].call
           p == run[c].seen
       IN  /\ \/ call.op = "respond" /\ p # None /\ p.id \in expired
              \/ call.op \in {"approve", "deny"} /\ MaySettle(c, call, p)
           /\ CallBecomes(c, [run[c] EXCEPT !.pc = "step", !.at = cp[c], !.decision =
                    [id |-> p.id, actor |-> call.actor, conv |-> c,
                     approved |-> call.op = "approve" /\ p.id \notin expired]])
    /\ UNCHANGED <<cp, ledger, deleting, expired, history>>

\* _resume: by the requester's decision, or by anyone's message or decision once the
\* approval has expired.
ResumeGraph(c) ==
    /\ At(c, "decide")
    /\ LET call == run[c].call
           p == run[c].seen
           decision == [id |-> p.id, actor |-> call.actor, conv |-> c,
                        approved |-> call.op = "approve" /\ p.id \notin expired]
       IN  /\ \/ call.op = "respond" /\ p # None /\ p.id \in expired
              \/ call.op \in {"approve", "deny"} /\ MaySettle(c, call, p)
           /\ \/ /\ cp[c] # None
                 /\ CallBecomes(c, [run[c] EXCEPT !.pc = "step", !.at = cp[c],
                                                  !.decision = decision])
                 /\ UNCHANGED broken
              \/ cp[c] = None /\ GiveUp(c)
    /\ UNCHANGED <<cp, ledger, deleting, expired, asked, votes, runs, forgotten, cleared, used>>

------------------------------------------------------------------------------
(* Nodes *)

\* Bound: an approval id is left for every risky call that waits at a guard.
IdIsLeft ==
    LET asking == {c \in Conversations : /\ AtNode(c, "guard")
                                         /\ LastMessage(run[c].at).what = "risky"}
    IN  Cardinality({a \in ApprovalIds : asked[a] = None}) > Cardinality(asking)

\* _call_model, _route_model: an answer that is text ends the run.
CallModel(c, k) ==
    /\ AtNode(c, "model")
    /\ k = "risky" => IdIsLeft
    /\ Advance(c, [run[c].at EXCEPT !.msgs = Append(@, AI(k)),
                                    !.next = IF k = "text" THEN "end" ELSE "guard"])
    /\ UNCHANGED <<ledger, deleting, expired, history>>

\* Mutant: the refused call goes back to the model without an answer.
GuardRefusesSilently(c) ==
    /\ AtNode(c, "guard")
    /\ LastMessage(run[c].at).what = "refused"
    /\ Advance(c, [run[c].at EXCEPT !.next = "model"])
    /\ UNCHANGED <<ledger, deleting, expired, history>>

\* _guard_tool_call: several calls at once, or one that prepare() refuses.
GuardRefuses(c) ==
    /\ AtNode(c, "guard")
    /\ LastMessage(run[c].at).what = "refused"
    /\ Advance(c, Answered(run[c].at, "invalid_arguments", None))
    /\ UNCHANGED <<ledger, deleting, expired, history>>

GuardPasses(c) ==
    /\ AtNode(c, "guard")
    /\ LastMessage(run[c].at).what = "safe"
    /\ Advance(c, [run[c].at EXCEPT !.tool = [risk |-> "safe", id |-> None],
                                    !.approval = None, !.next = "execute"])
    /\ UNCHANGED <<ledger, deleting, expired, history>>

\* A risky call gets a fresh approval id and asks the actor of this run.
GuardAsks(c, a) ==
    /\ AtNode(c, "guard")
    /\ LastMessage(run[c].at).what = "risky"
    /\ asked[a] = None
    /\ LET s == run[c].at IN
        /\ Advance(c, [s EXCEPT !.tool = [risk |-> "risky", id |-> a],
                                !.approval = [id |-> a, actor |-> s.actor, conv |-> c],
                                !.next = "approval"])
        /\ asked' = [asked EXCEPT ![a] = [actor |-> s.actor, conv |-> c]]
    /\ UNCHANGED <<ledger, deleting, expired, votes, runs, forgotten, broken, cleared, used>>

\* _await_approval without a decision: interrupt() ends the run with the prompt.
Interrupt(c) ==
    /\ AtNode(c, "approval")
    /\ run[c].decision = None
    /\ Release(c)
    /\ UNCHANGED <<cp, ledger, deleting, expired, history>>

ValidIdentity(d, p) == d.id = p.id /\ d.actor = p.actor /\ d.conv = p.conv

\* Mutants: the node trusts _decide's reading of the clock; it takes any valid decision
\* for a yes.
PassesLate(d, p) == ValidIdentity(d, p) /\ d.approved
PassesDenied(d, p) == ValidIdentity(d, p) /\ p.id \notin expired

\* The clock is read again, after _decide read it.
Passes(d, p) == ValidIdentity(d, p) /\ d.approved /\ p.id \notin expired

\* _await_approval with a decision.
AwaitApproval(c) ==
    /\ AtNode(c, "approval")
    /\ run[c].decision # None
    /\ LET s == run[c].at
           p == s.approval
           d == run[c].decision
           code == IF p.id \in expired THEN "approval_expired"
                   ELSE IF ~ValidIdentity(d, p) THEN "approval_invalid"
                   ELSE "approval_denied"
       IN  IF Passes(d, p)
           THEN Advance(c, [s EXCEPT !.approval = None, !.next = "execute"])
           ELSE Advance(c, Answered(s, code, p.id))
    /\ UNCHANGED <<ledger, deleting, expired, history>>

\* _execute_pending_tool for a safe tool: no claim, no approval.
ExecuteSafe(c, code) ==
    /\ AtNode(c, "execute")
    /\ run[c].at.tool.risk = "safe"
    /\ Advance(c, Answered(run[c].at, code, None))
    /\ UNCHANGED <<ledger, deleting, expired, history>>

\* What _execute_approved_tool reports when the id is already claimed.
RecordedCode(row, c) ==
    IF row.conv # c THEN "approval_invalid"
    ELSE IF row.result = None THEN "handler_error"
    ELSE row.result

\* ToolExecutionLedger.claim, for an id without a row: INSERT OR IGNORE.
InsertRow(a, c) ==
    ledger' = [ledger EXCEPT ![a] = [conv |-> c, status |-> "started", result |-> None]]

\* ToolExecutionLedger.complete: UPDATE, which changes nothing if there is no row.
SetResult(a, code) ==
    ledger' = IF ledger[a] = None
              THEN ledger
              ELSE [ledger EXCEPT ![a] = [@ EXCEPT !.status = "completed", !.result = code]]

\* Mutant: the tool runs on a claim that was only looked up.
ClaimInMemory(c) ==
    /\ AtNode(c, "execute")
    /\ run[c].at.tool.risk = "risky"
    /\ ledger[run[c].at.tool.id] = None
    /\ CallBecomes(c, [run[c] EXCEPT !.pc = "handler"])
    /\ UNCHANGED <<cp, ledger, deleting, expired, history>>

\* _execute_approved_tool: claim the id, or report what is recorded for it.
Claim(c) ==
    /\ AtNode(c, "execute")
    /\ run[c].at.tool.risk = "risky"
    /\ LET a == run[c].at.tool.id IN
        IF ledger[a] = None
        THEN /\ InsertRow(a, c)
             /\ CallBecomes(c, [run[c] EXCEPT !.pc = "handler"])
             /\ UNCHANGED cp
        ELSE /\ Advance(c, Answered(run[c].at, RecordedCode(ledger[a], c), a))
             /\ UNCHANGED ledger
    /\ UNCHANGED <<deleting, expired, history>>

\* ToolRegistry.execute: prepare() once more, then the handler starts to act.
StartHandler(c) ==
    /\ At(c, "handler")
    /\ \/ /\ CallBecomes(c, [run[c] EXCEPT !.pc = "running"])
          /\ runs' = [runs EXCEPT ![run[c].at.tool.id] = @ + 1]
       \/ /\ CallBecomes(c, [run[c] EXCEPT !.pc = "complete",
                                         !.result = "invalid_arguments"])
          /\ UNCHANGED runs
    /\ UNCHANGED <<cp, ledger, deleting, expired, asked, votes, forgotten, broken, cleared, used>>

\* Mutant: a handler that timed out is tried again.
EndHandlerRetries(c, code) ==
    /\ At(c, "running")
    /\ CallBecomes(c, [run[c] EXCEPT !.pc = IF code = "timeout" THEN "handler" ELSE "complete",
                                     !.result = code])
    /\ UNCHANGED <<cp, ledger, deleting, expired, history>>

\* The handler returns, raises, or exceeds its timeout.
EndHandler(c, code) ==
    /\ At(c, "running")
    /\ CallBecomes(c, [run[c] EXCEPT !.pc = "complete", !.result = code])
    /\ UNCHANGED <<cp, ledger, deleting, expired, history>>

\* Mutant: the result is moved into the ledger instead of copied.
CompleteMoves(c) ==
    /\ At(c, "complete")
    /\ SetResult(run[c].at.tool.id, run[c].result)
    /\ CallBecomes(c, [run[c] EXCEPT !.pc = "put", !.result = None])
    /\ UNCHANGED <<cp, deleting, expired, history>>

\* _execute_approved_tool: the result is recorded before it is returned.
Complete(c) ==
    /\ At(c, "complete")
    /\ SetResult(run[c].at.tool.id, run[c].result)
    /\ CallBecomes(c, [run[c] EXCEPT !.pc = "put"])
    /\ UNCHANGED <<cp, deleting, expired, history>>

\* Mutant: a call that came this far is reported as done.
PutSuccess(c) ==
    /\ At(c, "put")
    /\ Advance(c, Answered(run[c].at, "success", run[c].at.tool.id))
    /\ UNCHANGED <<ledger, deleting, expired, history>>

\* _execute_pending_tool returns; its checkpoint is written.
PutResult(c) ==
    /\ At(c, "put")
    /\ Advance(c, Answered(run[c].at, run[c].result, run[c].at.tool.id))
    /\ UNCHANGED <<ledger, deleting, expired, history>>

------------------------------------------------------------------------------
(* Failures *)

\* The model call raises, the guard meets a call without an id, or the run has used
\* up its steps: MessageApplication answers with an apology.
RunFails(c) ==
    /\ \/ AtNode(c, "model")
       \/ AtNode(c, "guard") /\ LastMessage(run[c].at).what = "noid"
       \/ At(c, "step") /\ run[c].steps >= RecursionLimit
    /\ GiveUp(c)
    /\ UNCHANGED <<cp, ledger, deleting, expired, asked, votes, runs, forgotten, cleared, used>>

\* The task of the call is cancelled: its gateway connection is gone.
Cancel(c) ==
    /\ run[c] # None
    /\ Unused("aborts", MaxAborts)
    /\ GiveUp(c)
    /\ UNCHANGED <<cp, ledger, deleting, expired, asked, votes, runs, forgotten, cleared>>

\* The process stops; the two databases stay.
Crash ==
    /\ Unused("aborts", MaxAborts)
    /\ run' = [c \in Conversations |-> None]
    /\ deleting' = {}
    /\ broken' = broken \union {c \in Conversations : run[c] # None}
    /\ UNCHANGED <<cp, ledger, expired, asked, votes, runs, forgotten, cleared>>

\* Time passes the expires_at of an approval.
Expire(a) ==
    /\ asked[a] # None
    /\ a \notin expired
    /\ expired' = expired \union {a}
    /\ UNCHANGED <<cp, ledger, run, deleting, history>>

------------------------------------------------------------------------------
(* reset() *)

\* saver.adelete_thread
DropThread(c) == cp' = [cp EXCEPT ![c] = None]

\* Mutant: the rows of the conversation survive its reset.
DropNoRows(c) ==
    /\ UNCHANGED <<ledger, forgotten>>
    /\ cleared' = cleared \union {c}

\* ledger.clear_conversation
DropRows(c) ==
    /\ ledger' = [a \in ApprovalIds |->
                    IF ledger[a] # None /\ ledger[a].conv = c THEN None ELSE ledger[a]]
    /\ forgotten' = forgotten \union {a \in ApprovalIds : asked[a] # None /\ asked[a].conv = c}
    /\ cleared' = cleared \union {c}

\* /reset, in the conversation's slot.
ResetThread(c) ==
    /\ At(c, "reset")
    /\ DropThread(c)
    /\ CallBecomes(c, [run[c] EXCEPT !.pc = "clear"])
    /\ broken' = broken \ {c}
    /\ UNCHANGED <<ledger, deleting, expired, asked, votes, runs, forgotten, cleared, used>>

ResetRows(c) ==
    /\ At(c, "clear")
    /\ DropRows(c)
    /\ Release(c)
    /\ UNCHANGED <<cp, deleting, expired, asked, votes, runs, broken, used>>

\* delete_chat of the dashboard, beside whatever runs in the conversation.
DeleteThread(c) ==
    /\ c \notin deleting
    /\ Unused("deletes", MaxDeletes)
    /\ DropThread(c)
    /\ deleting' = deleting \union {c}
    /\ UNCHANGED <<ledger, run, expired, asked, votes, runs, forgotten, broken, cleared>>

DeleteRows(c) ==
    /\ c \in deleting
    /\ DropRows(c)
    /\ deleting' = deleting \ {c}
    /\ UNCHANGED <<cp, run, expired, asked, votes, runs, broken, used>>

------------------------------------------------------------------------------
Calls ==
    [op : {"respond", "reset"}, actor : Actors, id : {None}]
        \union [op : {"approve", "deny"}, actor : Actors, id : ApprovalIds]

\* What the scheduled task of a call does by itself.
RunStep(c) ==
    \/ ReadPending(c) \/ Decline(c) \/ StartGraph(c) \/ ResumeGraph(c)
    \/ \E k \in CallKinds : CallModel(c, k)
    \/ GuardRefuses(c) \/ GuardPasses(c)
    \/ \E a \in ApprovalIds : GuardAsks(c, a)
    \/ Interrupt(c) \/ AwaitApproval(c)
    \/ \E code \in Outcomes \union {"invalid_arguments"} : ExecuteSafe(c, code)
    \/ Claim(c) \/ StartHandler(c)
    \/ \E code \in Outcomes : EndHandler(c, code)
    \/ Complete(c) \/ PutResult(c)
    \/ RunFails(c)
    \/ ResetThread(c) \/ ResetRows(c)

Next ==
    \/ \E c \in Conversations :
        \/ \E call \in Calls : Receive(c, call)
        \/ RunStep(c)
        \/ Cancel(c)
        \/ DeleteThread(c)
        \/ DeleteRows(c)
    \/ Crash
    \/ \E a \in ApprovalIds : Expire(a)

Spec == Init /\ [][Next]_vars

\* The event loop runs every call that can go on: model and tool calls have timeouts,
\* and the databases answer.
FairSpec == Spec /\ \A c \in Conversations : WF_vars(RunStep(c))

------------------------------------------------------------------------------
(* Properties *)

\* However runs are cancelled, crash, are resumed or race with a deletion, the handler
\* behind an approval is started at most once (ledger.py: "Durable claims preventing
\* approval-triggered tool re-execution").
AtMostOnce == \A a \in ApprovalIds : runs[a] <= 1

\* The handler of a risky tool was started only if the actor who was asked sent
\* /approve with that id, in that conversation, before it expired.
OnlyRequesterGrants ==
    \A a \in ApprovalIds :
        runs[a] > 0 =>
            asked[a] # None /\ <<a, asked[a].actor, asked[a].conv>> \in votes

\* The history that the model and the user read tells what happened, then and later:
\* a call reported as refused is never started, one reported as executed was, and the
\* ledger's recorded result is the reported one.
HistoryTellsTheTruth ==
    \A c \in Conversations : cp[c] # None =>
        \A i \in DOMAIN cp[c].msgs :
            LET m == cp[c].msgs[i] IN
            m.kind = "tool" /\ m.id # None =>
                /\ runs[m.id] = IF m.what \in HandlerCodes THEN 1 ELSE 0
                /\ ledger[m.id] # None => ledger[m.id].status = "completed"
                                          /\ ledger[m.id].result = m.what

\* A handler never acts without a claim that outlives the process, unless its
\* conversation's claims were deleted since the request.
EffectLeavesRecord ==
    \A a \in ApprovalIds : runs[a] > 0 => ledger[a] # None \/ a \in forgotten

\* A conversation answers "approval required" exactly while its thread waits at the
\* approval node, for the tool call at the end of its history: otherwise it would be
\* blocked for good, or approve something else than it showed.
PendingMatchesNode ==
    \A c \in Conversations : cp[c] # None =>
        LET s == cp[c] IN
        /\ s.approval # None <=> s.next = "approval"
        /\ s.next \in {"approval", "execute"} =>
            /\ s.tool # None
            /\ LastMessage(s) = AI(s.tool.risk)
        /\ s.approval # None =>
            /\ s.approval.id = s.tool.id
            /\ asked[s.approval.id] = [actor |-> s.approval.actor, conv |-> c]

\* Providers reject a history in which a tool call has no answer.  Only a run that was
\* cut off leaves one behind, and no tool answer stands without its call.
CallsAreAnswered ==
    \A c \in Conversations : cp[c] # None =>
        LET msgs == cp[c].msgs
            IsCall(m) == m.kind = "ai" /\ m.what # "text"
        IN  \A i \in DOMAIN msgs :
                /\ IsCall(msgs[i]) /\ i < Len(msgs) =>
                    msgs[i + 1].kind = "tool" \/ c \in broken
                /\ msgs[i].kind = "tool" => i > 1 /\ IsCall(msgs[i - 1])

\* A vote of the user who was asked, on what they were asked.
VotesOn(call, p) ==
    call.op \in {"approve", "deny"} /\ call.actor = p.actor /\ call.id = p.id

\* The whole conversation is deleted, by /reset or by delete_chat.
Emptied(c) ==
    cp'[c] = None /\ (At(c, "reset") \/ (c \notin deleting /\ c \in deleting'))

\* How a request that waits can be over, in a group that shares a conversation: by the
\* vote of the user who was asked, by anybody's message or vote once its time is over, or
\* with the whole conversation, which any member may /reset (the command checks no actor)
\* and the dashboard delete.  No other message, vote, failure or crash disposes of it.
RequestEndsProperly ==
    [][\A c \in Conversations :
        LET p == cp[c].approval IN
        cp[c] # None /\ p # None /\ (cp'[c] = None \/ cp'[c].approval # p) =>
            \/ run[c] # None /\ (p.id \in expired \/ VotesOn(run[c].call, p))
            \/ Emptied(c)]_vars

\* A conversation that was reset or deleted stays empty until someone writes again.
ClearedStaysCleared ==
    \A c \in cleared :
        /\ cp[c] = None
        /\ \A a \in ApprovalIds : ledger[a] # None => ledger[a].conv # c

\* Every call gives its conversation back: no answer of the model, no approval, no
\* failure and no deletion leaves it waiting forever.
CallsEnd == \A c \in Conversations : run[c] # None ~> run[c] = None

\* The state that speaks for a conversation: the run's if there is one, else the thread's.
Current(c) == IF run[c] # None /\ run[c].at # None THEN run[c].at ELSE cp[c]

Phase(a) ==
    LET Waits(c) == /\ Current(c) # None
                    /\ Current(c).approval # None
                    /\ Current(c).approval.id = a
        Executes(c) == /\ run[c] # None /\ run[c].at # None
                       /\ run[c].at.next = "execute"
                       /\ run[c].at.tool.risk = "risky" /\ run[c].at.tool.id = a
    IN  IF asked[a] = None THEN "unasked"
        ELSE IF runs[a] > 0 THEN "started"
        ELSE IF \E c \in Conversations : Waits(c) THEN "waiting"
        ELSE IF \E c \in Conversations : Executes(c) THEN "granted"
        ELSE "dropped"

Approval == INSTANCE ToolApproval WITH
                Requests <- ApprovalIds,
                phase <- [a \in ApprovalIds |-> Phase(a)],
                owner <- asked

\* Graph, checkpoints and ledger together keep the promise of ToolApproval.
ImplementsApproval == Approval!Spec
==============================================================================
