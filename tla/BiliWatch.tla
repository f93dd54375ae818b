------------------------------ MODULE BiliWatch ------------------------------
(***************************************************************************)
(* What the subscribers of one Bilibili creator are told: BiliWatchService *)
(* (biliwatch/service.py) and BiliWatchStore (biliwatch/store.py).         *)
(*                                                                         *)
(* A poll works on what it read at its start, for as long as its requests  *)
(* and messages take, while subscriptions are saved, deleted and made anew *)
(* and the creator publishes and withdraws posts.  A poll may start at any *)
(* time; _poll_lock makes them one at a time, and _write_lock makes a      *)
(* write and its commit one step.                                          *)
(*                                                                         *)
(* Left out: the cookie check, names, @all, and the filter for forwarded   *)
(* posts, which the cursor passes over.  What Bilibili lists is external:  *)
(* the posts that are there, or an error.                                  *)
(***************************************************************************)
EXTENDS Naturals, FiniteSetsExt

CONSTANTS
    Groups,         \* the targets of subscriptions: bot, group and this creator
    Settings,       \* what a user may save: records with enabled, dynamic and live
    Savers,         \* the calls of save_subscription in flight
    None,
    TimeOf,         \* the second in which each post is published
    MaxAttempts,
    MaxPosts,       \* bound: posts ever published
    MaxPushes,      \* bound: messages about the creator going live
    MaxRows,        \* bound: rows ever made for one target
    Budgets         \* bounds: how often each may happen, one record for each scenario

Posts == 1..MaxPosts
Pushes == (MaxPosts + 1)..(MaxPosts + MaxPushes)
Contents == Posts \union Pushes
Cursors == {None, 0} \union {TimeOf[p] : p \in Posts}

ASSUME BoundsAssumption ==
    MaxPosts \in Nat /\ MaxPushes \in Nat /\ MaxRows \in Nat /\ MaxAttempts \in Nat
ASSUME TimeAssumption ==
    /\ TimeOf \in [Posts -> Nat \ {0}]
    /\ \A p, q \in Posts : p < q => TimeOf[p] <= TimeOf[q]
ASSUME BudgetsAssumption ==
    Budgets \subseteq [posts : 0..MaxPosts, withdrawals : Nat, sessions : Nat,
                       rows : 0..MaxRows, saves : Nat, restarts : Nat]

Flags == [enabled : BOOLEAN, dynamic : BOOLEAN, live : BOOLEAN]
ASSUME SettingsAssumption == Settings \subseteq Flags

\* biliwatch_subscriptions: `id` tells the rows apart that one target has had.
Row == [id : 1..MaxRows, set : Flags, cursor : Cursors, wasLive : BOOLEAN]

\* biliwatch_deliveries: `attempts` counts as far as pending_deliveries looks.
Delivery == [status : {"pending", "sent", "failed"}, attempts : 0..MaxAttempts]

\* A message under way: to whom, about what.
Item == [group : Groups, id : 1..MaxRows, content : Contents]

\* A row as a poll or a save has read it.
Seen == [group : Groups, row : Row]

\* Whom a push told of which session.
Push == [group : Groups, id : 1..MaxRows, session : Nat]

ASSUME NoneAssumption ==
    None \notin Nat \union Groups \union Row \union Delivery \union Item \union Seen \union Push

VARIABLES
    rows,       \* the subscription of each target, or None
    deliveries, \* its deliveries: content -> delivery, or None
    poll,       \* the poll in flight
    saver,      \* where each save is
    published,  \* how many posts there have been
    withdrawn,  \* those the creator has deleted
    live,       \* the creator's session, 0 when offline
    budget,     \* what may still happen; `rows`, for each target
    base,       \* history: the time from which a subscription counts posts
    sent,       \* history: how often the bot confirmed each content to a subscription
    pushed,     \* history: whom each push told of which session
    cutOff      \* history: what a restart left between a message and its record

vars == <<rows, deliveries, poll, saver, published, withdrawn, live, budget, base, sent,
          pushed, cutOff>>
world == <<published, withdrawn, live>>

NoPoll ==
    [pc |-> "idle", phase |-> "retry", queue |-> {}, targets |-> {}, left |-> {},
     current |-> None, list |-> {}, session |-> 0, todo |-> {}, item |-> None, ok |-> FALSE]

NoSave == [pc |-> "idle", group |-> None, set |-> None, baseline |-> None, found |-> None]

\* The type, and no delivery without the subscription it hangs on: what the foreign key
\* and ON DELETE CASCADE (store.py:103) are for.
TypeOK ==
    /\ rows \in [Groups -> Row \union {None}]
    /\ \A g \in Groups : \A c \in Contents :
            /\ deliveries[g][c] \in Delivery \union {None}
            /\ rows[g] = None => deliveries[g][c] = None
    /\ poll.pc \in {"idle", "next", "fetch", "target", "item", "sending", "marking", "state"}
    /\ poll.phase \in {"retry", "dynamic", "live"}
    /\ poll.queue \subseteq Item
    /\ poll.targets \subseteq Seen /\ poll.left \subseteq Seen
    /\ poll.current \in Seen \union {None}
    /\ poll.list \subseteq Posts /\ poll.todo \subseteq poll.list
    /\ poll.item \in Item \union {None}
    /\ \A u \in Savers : saver[u].pc \in {"idle", "baseline", "reading", "writing"}
    /\ published \in 0..MaxPosts /\ withdrawn \subseteq 1..published
    /\ live \in Nat

Init ==
    /\ rows = [g \in Groups |-> None]
    /\ deliveries = [g \in Groups |-> [c \in Contents |-> None]]
    /\ poll = NoPoll
    /\ saver = [u \in Savers |-> NoSave]
    /\ published = 0 /\ withdrawn = {} /\ live = 0
    /\ \E b \in Budgets : budget = [b EXCEPT !.rows = [g \in Groups |-> b.rows]]
    /\ base = [g \in Groups |-> None]
    /\ sent = [g \in Groups |-> [c \in Contents |-> 0]]
    /\ pushed = [c \in Pushes |-> None]
    /\ cutOff = {}

------------------------------------------------------------------------------
(* Bilibili *)

Publish ==
    /\ budget.posts > 0
    /\ budget' = [budget EXCEPT !.posts = @ - 1]
    /\ published' = published + 1
    /\ UNCHANGED <<rows, deliveries, poll, saver, withdrawn, live, base, sent, pushed, cutOff>>

Withdraw(p) ==
    /\ p \in (1..published) \ withdrawn
    /\ budget.withdrawals > 0
    /\ budget' = [budget EXCEPT !.withdrawals = @ - 1]
    /\ withdrawn' = withdrawn \union {p}
    /\ UNCHANGED <<rows, deliveries, poll, saver, published, live, base, sent, pushed, cutOff>>

\* The creator goes live, or offline.
Switch ==
    /\ \/ /\ live = 0
          /\ budget.sessions > 0
          /\ budget' = [budget EXCEPT !.sessions = @ - 1]
          /\ live' = budget.sessions
       \/ /\ live # 0
          /\ live' = 0
          /\ UNCHANGED budget
    /\ UNCHANGED <<rows, deliveries, poll, saver, published, withdrawn, base, sent, pushed,
                   cutOff>>

\* What recent_dynamics returns, and the newest timestamp in a list of posts.
Listed == (1..published) \ withdrawn
Newest(list) == Max({TimeOf[p] : p \in list})

------------------------------------------------------------------------------
(* Subscriptions *)

\* The row that was read, by a save or a poll, still exists.
Exists(g, id) == rows[g] # None /\ rows[g].id = id

\* save_subscription reads the target's row; a new subscription to posts needs a baseline.
BeginSave(u, g, s) ==
    /\ saver[u].pc = "idle"
    /\ budget.saves > 0
    /\ budget' = [budget EXCEPT !.saves = @ - 1]
    /\ saver' = [saver EXCEPT ![u] =
                    [NoSave EXCEPT
                        !.pc = IF rows[g] = None /\ s.dynamic THEN "baseline" ELSE "reading",
                        !.group = g,
                        !.set = s,
                        !.baseline = IF rows[g] = None THEN None ELSE rows[g].cursor]]
    /\ UNCHANGED <<rows, deliveries, poll, world, base, sent, pushed, cutOff>>

\* recent_dynamics answers, or fails and leaves the baseline to the first poll.
FetchBaseline(u) ==
    /\ saver[u].pc = "baseline"
    /\ \E b \in {None, IF Listed = {} THEN 0 ELSE Newest(Listed)} :
            saver' = [saver EXCEPT ![u].pc = "reading", ![u].baseline = b]
    /\ UNCHANGED <<rows, deliveries, poll, world, budget, base, sent, pushed, cutOff>>

\* The store reads the row again, outside the write lock.
ReadAgain(u) ==
    /\ saver[u].pc = "reading"
    /\ saver' = [saver EXCEPT ![u].pc = "writing", ![u].found = rows[saver[u].group]]
    /\ UNCHANGED <<rows, deliveries, poll, world, budget, base, sent, pushed, cutOff>>

\* A subscription that counts from a is told, by somebody who found no cursor, to count
\* from b: a save that overlaps the first poll erases the cursor, and the next poll sets
\* it anew.
Later(a, b) == IF None \in {a, b} THEN IF a = None THEN b ELSE a ELSE Max({a, b})

\* A row with the baseline as its cursor: INSERT.
Insert(g, s, cursor) ==
    /\ budget.rows[g] > 0
    /\ budget' = [budget EXCEPT !.rows[g] = @ - 1]
    /\ rows' = [rows EXCEPT ![g] =
                    [id |-> budget.rows[g], set |-> s, cursor |-> cursor, wasLive |-> FALSE]]
    /\ base' = [base EXCEPT ![g] = cursor]

\* Mutant: the baseline wins over the cursor of the row.
UpdateWithBaseline(g, found, s, baseline) ==
    /\ rows' = [rows EXCEPT ![g] = [@ EXCEPT !.set = s, !.cursor = Newest({1} \union Listed)]]
    /\ UNCHANGED <<base, budget>>

\* UPDATE: the cursor that was read, or else the baseline, is written with the settings.
Update(g, found, s, baseline) ==
    /\ rows' = [rows EXCEPT ![g] =
                    [@ EXCEPT !.set = s,
                              !.cursor = IF found.cursor = None THEN baseline
                                                                ELSE found.cursor]]
    /\ base' = IF found.cursor = None THEN [base EXCEPT ![g] = Later(@, baseline)] ELSE base
    /\ UNCHANGED budget

\* A row made by somebody else violates UNIQUE; one deleted since is not updated, and
\* both are errors to the caller.
WriteRow(u) ==
    /\ saver[u].pc = "writing"
    /\ LET g == saver[u].group
           found == saver[u].found
           fresh == found = None /\ rows[g] = None
           same == found # None /\ Exists(g, found.id)
       IN  \/ fresh /\ Insert(g, saver[u].set, saver[u].baseline)
           \/ same /\ Update(g, found, saver[u].set, saver[u].baseline)
           \/ ~fresh /\ ~same /\ UNCHANGED <<rows, base, budget>>
    /\ saver' = [saver EXCEPT ![u] = NoSave]
    /\ UNCHANGED <<deliveries, poll, world, sent, pushed, cutOff>>

\* delete_subscription, with the deliveries that hang on the row.
Unsubscribe(g) ==
    /\ rows[g] # None
    /\ rows' = [rows EXCEPT ![g] = None]
    /\ deliveries' = [deliveries EXCEPT ![g] = [c \in Contents |-> None]]
    /\ base' = [base EXCEPT ![g] = None]
    /\ sent' = [sent EXCEPT ![g] = [c \in Contents |-> 0]]
    /\ UNCHANGED <<poll, saver, world, budget, pushed, cutOff>>

------------------------------------------------------------------------------
(* A poll *)

\* pending_deliveries
Retriable ==
    {i \in Item :
        /\ Exists(i.group, i.id)
        /\ rows[i.group].set.enabled
        /\ LET d == deliveries[i.group][i.content] IN
            d # None /\ d.status \in {"pending", "failed"} /\ d.attempts < MaxAttempts}

StartPoll ==
    /\ poll.pc = "idle"
    /\ poll' = [NoPoll EXCEPT !.pc = "next", !.queue = Retriable]
    /\ UNCHANGED <<rows, deliveries, saver, world, budget, base, sent, pushed, cutOff>>

\* _retry_pending sends what it has read, the oldest first; here, in any order.
Retry(i) ==
    /\ poll.pc = "next"
    /\ i \in poll.queue
    /\ poll' = [poll EXCEPT !.pc = "sending", !.queue = @ \ {i}, !.item = i]
    /\ UNCHANGED <<rows, deliveries, saver, world, budget, base, sent, pushed, cutOff>>

ReadSubscriptions ==
    /\ poll.pc = "next"
    /\ poll.queue = {}
    /\ LET enabled == {g \in Groups : rows[g] # None /\ rows[g].set.enabled} IN
        poll' = [poll EXCEPT !.pc = "fetch", !.phase = "dynamic",
                             !.targets = {[group |-> g, row |-> rows[g]] : g \in enabled}]
    /\ UNCHANGED <<rows, deliveries, saver, world, budget, base, sent, pushed, cutOff>>

\* The posts are done with, or given up.
GoLive == [poll EXCEPT !.pc = "fetch", !.phase = "live", !.left = {}, !.current = None,
                       !.list = {}, !.todo = {}, !.item = None]

\* recent_dynamics, if anybody wants posts: an error or an empty list ends the matter.
FetchDynamics ==
    /\ poll.pc = "fetch" /\ poll.phase = "dynamic"
    /\ LET wanting == {t \in poll.targets : t.row.set.dynamic} IN
        \/ poll' = GoLive
        \/ /\ wanting # {} /\ Listed # {}
           /\ poll' = [poll EXCEPT !.pc = "target", !.left = wanting, !.list = Listed]
    /\ UNCHANGED <<rows, deliveries, saver, world, budget, base, sent, pushed, cutOff>>

\* The posts since the cursor; none if there is no cursor yet.
Candidates(t, list) ==
    {p \in list : t.row.cursor # None /\ TimeOf[p] > t.row.cursor}

NextTarget(t) ==
    /\ poll.pc = "target" /\ poll.phase = "dynamic"
    /\ t \in poll.left
    /\ poll' = [poll EXCEPT !.pc = "item", !.current = t, !.left = @ \ {t},
                            !.todo = Candidates(t, poll.list)]
    /\ UNCHANGED <<rows, deliveries, saver, world, budget, base, sent, pushed, cutOff>>

NoTargetLeft ==
    /\ poll.pc = "target" /\ poll.phase = "dynamic"
    /\ poll.left = {}
    /\ poll' = GoLive
    /\ UNCHANGED <<rows, deliveries, saver, world, budget, base, sent, pushed, cutOff>>

\* INSERT OR IGNORE INTO biliwatch_deliveries
Queued(g, c) ==
    IF deliveries[g][c] = None
    THEN [deliveries EXCEPT ![g][c] = [status |-> "pending", attempts |-> 0]]
    ELSE deliveries

\* Mutant: a content that is there is sent, whatever its delivery says.
QueueAndSendAgain(t, p) ==
    /\ Exists(t.group, t.row.id)
    /\ deliveries' = Queued(t.group, p)
    /\ poll' = [poll EXCEPT !.todo = @ \ {p}, !.pc = "sending",
                            !.item = [group |-> t.group, id |-> t.row.id, content |-> p]]

\* Mutant: a delivery is made although nothing is left for it to hang on.
QueueAndSendUnchecked(t, p) ==
    /\ deliveries' = Queued(t.group, p)
    /\ poll' = [poll EXCEPT !.todo = @ \ {p}, !.pc = "sending",
                            !.item = [group |-> t.group, id |-> t.row.id, content |-> p]]

\* _queue_and_send: what was sent before is not sent again.
QueueAndSend(t, p) ==
    /\ Exists(t.group, t.row.id)
    /\ deliveries' = Queued(t.group, p)
    /\ LET done == deliveries[t.group][p] # None /\ deliveries[t.group][p].status = "sent" IN
        poll' = [poll EXCEPT !.todo = @ \ {p},
                             !.pc = IF done THEN "item" ELSE "sending",
                             !.item = IF done THEN None
                                      ELSE [group |-> t.group, id |-> t.row.id, content |-> p]]

\* The next post by time.  An error, of dynamic_detail or because the subscription that
\* the delivery should hang on is gone, ends the posts of this poll for everybody.
NextPost(p) ==
    /\ poll.pc = "item" /\ poll.phase = "dynamic"
    /\ p \in poll.todo
    /\ \A q \in poll.todo : TimeOf[p] <= TimeOf[q]
    /\ \/ QueueAndSend(poll.current, p)
       \/ poll' = GoLive /\ UNCHANGED deliveries
    /\ UNCHANGED <<rows, saver, world, budget, base, sent, pushed, cutOff>>

\* update_dynamic_cursor
MoveCursor ==
    /\ poll.pc = "item" /\ poll.phase = "dynamic"
    /\ poll.todo = {}
    /\ LET t == poll.current IN
        IF Exists(t.group, t.row.id)
        THEN /\ rows' = [rows EXCEPT ![t.group].cursor = Newest(poll.list)]
             /\ base' = IF t.row.cursor = None
                        THEN [base EXCEPT ![t.group] = Later(@, Newest(poll.list))] ELSE base
        ELSE UNCHANGED <<rows, base>>
    /\ poll' = [poll EXCEPT !.pc = "target", !.current = None]
    /\ UNCHANGED <<deliveries, saver, world, budget, sent, pushed, cutOff>>

\* live_status, if anybody wants to know: an error ends the poll.
FetchLive ==
    /\ poll.pc = "fetch" /\ poll.phase = "live"
    /\ LET wanting == {t \in poll.targets : t.row.set.live} IN
        \/ poll' = NoPoll
        \/ /\ wanting # {}
           /\ poll' = [poll EXCEPT !.pc = "target", !.targets = {}, !.left = wanting,
                                !.session = live]
    /\ UNCHANGED <<rows, deliveries, saver, world, budget, base, sent, pushed, cutOff>>

\* A subscription that was offline is told, with a content of its own; the poll ends
\* with an error if it is gone.
PushLive(t) ==
    /\ poll.pc = "target" /\ poll.phase = "live"
    /\ t \in poll.left
    /\ poll.session # 0 /\ ~t.row.wasLive
    /\ \/ /\ ~Exists(t.group, t.row.id)
          /\ poll' = NoPoll
          /\ UNCHANGED <<deliveries, pushed>>
       \/ /\ Exists(t.group, t.row.id)
          /\ \E c \in Pushes :
                /\ pushed[c] = None
                /\ \A d \in Pushes : d < c => pushed[d] # None
                /\ pushed' = [pushed EXCEPT ![c] =
                        [group |-> t.group, id |-> t.row.id, session |-> poll.session]]
                /\ deliveries' = Queued(t.group, c)
                /\ poll' = [poll EXCEPT !.pc = "sending", !.current = t, !.left = @ \ {t},
                        !.item = [group |-> t.group, id |-> t.row.id, content |-> c]]
    /\ UNCHANGED <<rows, saver, world, budget, base, sent, cutOff>>

NothingToPush(t) ==
    /\ poll.pc = "target" /\ poll.phase = "live"
    /\ t \in poll.left
    /\ poll.session = 0 \/ t.row.wasLive
    /\ poll' = [poll EXCEPT !.pc = "state", !.current = t, !.left = @ \ {t}]
    /\ UNCHANGED <<rows, deliveries, saver, world, budget, base, sent, pushed, cutOff>>

\* Mutant: a subscription that could not be told is told anew by the next poll.
SetLiveWhenTold ==
    /\ poll.pc = "state"
    /\ LET t == poll.current IN
        rows' = IF Exists(t.group, t.row.id) /\ (poll.session # 0 => poll.ok)
                THEN [rows EXCEPT ![t.group].wasLive = (poll.session # 0)] ELSE rows
    /\ poll' = [poll EXCEPT !.pc = "target", !.current = None, !.ok = FALSE]
    /\ UNCHANGED <<deliveries, saver, world, budget, base, sent, pushed, cutOff>>

\* update_live_state
SetLive ==
    /\ poll.pc = "state"
    /\ LET t == poll.current IN
        rows' = IF Exists(t.group, t.row.id)
                THEN [rows EXCEPT ![t.group].wasLive = (poll.session # 0)] ELSE rows
    /\ poll' = [poll EXCEPT !.pc = "target", !.current = None, !.ok = FALSE]
    /\ UNCHANGED <<deliveries, saver, world, budget, base, sent, pushed, cutOff>>

EndPoll ==
    /\ poll.pc = "target" /\ poll.phase = "live"
    /\ poll.left = {}
    /\ poll' = NoPoll
    /\ UNCHANGED <<rows, deliveries, saver, world, budget, base, sent, pushed, cutOff>>

\* sender.send returns a receipt, or raises.
Send(ok) ==
    /\ poll.pc = "sending"
    /\ poll' = [poll EXCEPT !.pc = "marking", !.ok = ok]
    /\ LET i == poll.item IN
        sent' = IF ok /\ Exists(i.group, i.id)
                THEN [sent EXCEPT ![i.group][i.content] = Min({2, @ + 1})] ELSE sent
    /\ UNCHANGED <<rows, deliveries, saver, world, budget, base, pushed, cutOff>>

\* mark_delivery_sent or mark_delivery_failed, and back to where the message was due.
Mark ==
    /\ poll.pc = "marking"
    /\ LET i == poll.item IN
        deliveries' =
            IF Exists(i.group, i.id)
            THEN [deliveries EXCEPT ![i.group][i.content] =
                    [status |-> IF poll.ok THEN "sent" ELSE "failed",
                     attempts |-> Min({MaxAttempts, @.attempts + 1})]]
            ELSE deliveries
    /\ poll' = [poll EXCEPT !.item = None, !.ok = @ /\ poll.phase = "live",
                            !.pc = CASE poll.phase = "retry" -> "next"
                                     [] poll.phase = "dynamic" -> "item"
                                     [] poll.phase = "live" -> "state"]
    /\ UNCHANGED <<rows, saver, world, budget, base, sent, pushed, cutOff>>

------------------------------------------------------------------------------
\* What the poll has done and not yet recorded: a message that was confirmed, and a
\* session that a subscription is being told of.
Unrecorded ==
    LET message == IF poll.pc = "marking" /\ poll.ok THEN {poll.item} ELSE {}
        session == IF poll.phase = "live" /\ poll.current # None /\ poll.session # 0
                   THEN {[group |-> poll.current.group, id |-> poll.current.row.id,
                          session |-> poll.session]}
                   ELSE {}
    IN  message \union session

\* The process ends, in the middle of a poll or a save, and starts again.
Restart ==
    /\ budget.restarts > 0
    /\ budget' = [budget EXCEPT !.restarts = @ - 1]
    /\ cutOff' = cutOff \union Unrecorded
    /\ poll' = NoPoll
    /\ saver' = [u \in Savers |-> NoSave]
    /\ UNCHANGED <<rows, deliveries, world, base, sent, pushed>>

PollStep ==
    \/ StartPoll \/ ReadSubscriptions \/ FetchDynamics \/ NoTargetLeft \/ MoveCursor
    \/ FetchLive \/ SetLive \/ EndPoll \/ Mark
    \/ \E i \in poll.queue : Retry(i)
    \/ \E t \in poll.left : NextTarget(t) \/ PushLive(t) \/ NothingToPush(t)
    \/ \E p \in poll.todo : NextPost(p)
    \/ \E ok \in BOOLEAN : Send(ok)

Next ==
    \/ Publish \/ Switch \/ Restart
    \/ \E p \in Posts : Withdraw(p)
    \/ \E u \in Savers :
        \/ FetchBaseline(u) \/ ReadAgain(u) \/ WriteRow(u)
        \/ \E g \in Groups, s \in Settings : BeginSave(u, g, s)
    \/ \E g \in Groups : Unsubscribe(g)
    \/ PollStep

Spec == Init /\ [][Next]_vars

------------------------------------------------------------------------------
(* Properties *)

\* A subscription gets nothing twice, except what a restart cut off between the bot's
\* confirmation and its record: whether the cursor is moved back by a save or by a
\* withdrawn post, and however often a message has to be retried.
NothingTwice ==
    \A g \in Groups, c \in Contents :
        sent[g][c] > 1 => [group |-> g, id |-> rows[g].id, content |-> c] \in cutOff

\* The cursor passes over no post: one that came after the subscription began to count
\* and is no later than its cursor has a delivery, whatever failed or was saved meanwhile.
\* Two exceptions: a post that was withdrawn, and one of the same second as an earlier.
NothingSkipped ==
    \A g \in Groups : base[g] # None /\ rows[g].cursor # None =>
        \A p \in Listed :
            /\ base[g] < TimeOf[p] /\ TimeOf[p] <= rows[g].cursor
            /\ \A q \in 1..(p - 1) : TimeOf[q] < TimeOf[p]
            => deliveries[g][p] # None

\* A session is announced to a subscription once (tests/test_biliwatch.py: live push only
\* occurs on an offline to live transition), unless a restart cut off the announcement.
OncePerSession ==
    \A c, d \in Pushes :
        c # d /\ pushed[c] # None /\ pushed[c] = pushed[d] => pushed[c] \in cutOff
==============================================================================
