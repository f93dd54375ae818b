---------------------------- MODULE DashboardPage ----------------------------
(* What the pages of the dashboard share.  A page is a Vue component: its refs *)
(* live as long as it is mounted, the Pinia stores live as long as the tab.    *)
(* A handler is an async function: it asks the server, is suspended until the  *)
(* answer comes, and goes on where it was, also when its page has been left or *)
(* the user has done something else in the meantime.  Requests are served and  *)
(* answered in any order.  The banners that say how a handler ended are left   *)
(* out, except where a page's behaviour depends on them.                       *)
EXTENDS Integers, FiniteSets, TLC

CONSTANTS
    Rows,         \* what a table of the server may list
    Values,       \* what a row may hold
    Typed,        \* bound: what the user types into a form
    Collections,  \* the knowledge collections
    None,
    MaxJobs,      \* bound: async functions under way at once
    Budgets       \* bounds, one record per scenario: see budget

ASSUME ValuesAssumption == Values # {} /\ Typed \subseteq Values

VARIABLES
    server,  \* the tables of the server
    page,    \* the page the router shows
    visit,   \* the number of the mounted page; a page left has a smaller one
    refs,    \* the refs of the mounted page
    stores,  \* the Pinia stores
    jobs,    \* the async functions under way, by slot; Idle is a free slot
    sure,    \* history: what the page will show at rest must be what the server holds
    budget   \* bounds: [pages, jobs, acts, visits, others, failures, menu] still to be used

vars == <<server, page, visit, refs, stores, jobs, sure, budget>>

Slots == 1..MaxJobs

(* fetch in api.ts: an answer, or an error whether or not the request was done. *)
Sent == [is |-> "sent"]
Answer(value) == [is |-> "answer", value |-> value]
Failure == [is |-> "failure"]
Taken == [is |-> "taken"]

Asked(requests) == [a \in requests |-> Sent]

Idle == [op |-> "idle", id |-> None, form |-> None, visit |-> 0, asks |-> Asked({})]
Running == {n \in Slots : jobs[n].op # "idle"}
Free == IF Cardinality(Running) < budget.jobs THEN Slots \ Running ELSE {}

AsksFor(n, requests) == DOMAIN jobs[n].asks = requests
HasCome(n, a) == jobs[n].asks[a].is \in {"answer", "failure"}
AllAnswered(n) == \A a \in DOMAIN jobs[n].asks : jobs[n].asks[a].is = "answer"
SomeFailed(n) == \E a \in DOMAIN jobs[n].asks : jobs[n].asks[a].is = "failure"
Value(n, a) == jobs[n].asks[a].value

(* A handler of the mounted page asks its first requests: it takes a slot. *)
Begin(op, id, form, requests) ==
    LET n == CHOOSE m \in Free : TRUE
    IN  jobs' = [jobs EXCEPT ![n] = [op |-> op, id |-> id, form |-> form,
                                     visit |-> visit, asks |-> Asked(requests)]]
Continue(n, requests) == jobs' = [jobs EXCEPT ![n].asks = Asked(requests)]
End(n) == jobs' = [jobs EXCEPT ![n] = Idle]

(* Assigning to a ref of a page that has been left shows nothing. *)
Show(n, new) == refs' = IF jobs[n].visit = visit THEN new ELSE refs

(* Something the user does; the bounds are acts and the free slots. *)
Act == /\ budget.acts > 0
       /\ Free # {}
       /\ budget' = [budget EXCEPT !.acts = @ - 1]

(* The handlers under way that read some of what these requests read. *)
Reading(requests) == {n \in Running : DOMAIN jobs[n].asks \cap requests # {}}

(* The handler in slot n loads the page again: what it reads is read after all *)
(* that has been done, and shown unless another reading overtakes it.          *)
Reload(n, requests) ==
    /\ Continue(n, requests)
    /\ sure' = (jobs[n].visit = visit /\ Reading(requests) \subseteq {n})
==============================================================================
