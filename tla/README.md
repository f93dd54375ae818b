# NekoGraph in TLA+

NekoGraph is one Python process and a dashboard in the browser. The process is an asyncio event loop that receives messages from OneBot
(a QQ protocol) over WebSockets and from its own dashboard, lets a LangGraph agent answer
them with tools that a user may have to approve, and runs scheduled tasks, watchers of
Bilibili feeds, a knowledge base and plugins beside that. There are no threads worth
speaking of; everything that is hard about it is what may happen *at an `await`*: another
message, a cancellation, a deletion in the dashboard, an expired deadline, or the end of the
process between two statements to SQLite. The dashboard, a Vue application, has the same
difficulty: what the user does, and which answers come first, while a handler is suspended.

This directory holds a specification of that behaviour, model-checked with TLC and in part
proved with TLAPS. All paths below are relative to the repository; those of the process
(`application/`, `agent/`, ...) are under `src/nekograph/`, those of the browser (`views/`,
`stores/`, `api.ts`) under `dashboard/src/`.

- [How to run it](#how-to-run-it)
- [Inventory](#inventory)
- [Plan](#plan)
- [Conversation scheduler](#conversation-scheduler)
- [Agent runtime](#agent-runtime)
- [Task scheduler](#task-scheduler)
- [OneBot transport](#onebot-transport)
- [BiliWatch](#biliwatch)
- [Dashboard](#dashboard)
- [Runs](#runs)
- [Proofs](#proofs)
- [What is not shown](#what-is-not-shown)

## How to run it

    tlc -workers 2 -config AgentRuntime.cfg MCAgentRuntime     # a run of the table below
    tlapm AgentRuntimeProofs.tla                               # the proofs of a module

`PROJECT.json` lists the runs, the lines each definition stands for (`map`), the hazards the
properties are aimed at, and for each property a *mutant*: an operator of the module that
changes one definition the way a plausible bug would, and under which TLC finds the property
violated. Mutants stand right before the definition they change, are commented as such, and
are used by no specification.

## Inventory

| component | state it keeps | operations | what is hard |
|---|---|---|---|
| Conversation scheduler `application/scheduler.py` | a dictionary of locks with user counts | `run` | arrivals, ends and cancellations interleave at the lock; entries are created and dropped on the fly |
| Agent runtime `agent/runtime.py`, `workflow.py`, `ledger.py` | a LangGraph thread per conversation and the tool execution ledger, two SQLite databases | `respond`, `approve`, `deny`, `reset`, `history`; nodes model, guard, approval, execute | an approval outlives its run, its process and its asker's patience; crash between claim, effect, record and checkpoint |
| Message application `application/service.py`, `commands.py` | registered commands | `handle`, core commands | which call reaches the runtime, under which conversation |
| Task scheduler `scheduling/` | tasks and run records in SQLite; jobs, locks and a semaphore in memory | `create`, `update`, `delete`, `run_now`, `start`, `shutdown`, executions | definitions change under executions that have read them; restart |
| OneBot gateway and transport `protocols/onebot_v11/gateway.py`, `actions.py` | connections per bot, pending calls by echo, the action ledger | attach, detach, call, respond, time out, send in order | reconnects, late answers, cancellation |
| OneBot parser, segments | none | translate payloads | no protocol of its own |
| Event router `application/events.py` | ordered listeners | dispatch | a listener that fails, or consumes |
| Wake-up policy, conversation resolver `application/wakeup.py`, `conversation.py` | none | pure functions | case analysis |
| BiliWatch `biliwatch/` | subscriptions with cursors, deliveries | poll, deliver, retry, subscribe, sync the schedule | cursor against deliveries, failures half-way |
| Model controller `agent/model_controller.py`, `profiles.py` | profiles on disk, the client in memory | activate, save, complete | a switch during completions; memory against disk |
| Model client `agent/openai_compatible.py` | none | HTTP and conversion | no protocol of its own |
| Knowledge base `knowledge/store.py`, `service.py` | documents, chunks, full-text index | upsert, delete, rebuild, search | several statements per operation on one shared connection |
| Knowledge parsing and ranking | none | chunk, embed, rank | arithmetic; HTTP |
| Plugin runtime `plugins/runtime.py`, tool registry `tools/registry.py` | who owns which command, tool, handler | load, unload, register | setup that fails half-way |
| Dashboard API `web/app.py`, chat metadata `application/conversation_metadata.py` | turn metadata | REST handlers | handlers beside running conversations |
| Dashboard: chat page `views/ChatView.vue` | the list of conversations in localStorage, the messages shown, one text under way | send, select, create, rename, remove, open, leave, reload | every handler goes on with what the page holds by then |
| Dashboard: pages with tables `views/` | refs of the page that is open: rows, dialogs, forms, spinners | load, open, save, switch, remove, run, test, upload, search | overlapping handlers share flags and tables |
| Dashboard: pages that read `views/` | what was read last | load, the interval of the logs | readings that overtake each other |
| Dashboard: shell `App.vue`, `stores/`, `api.ts`, router | the page shown; stores that outlive it | navigate, refresh, request | a page that is left has handlers under way |
| Console, web chat, built-in tools, bootstrap, config, logging | none | adapters and wiring | no protocol of its own |

How they interact: the gateway decodes a frame, resolves a pending action call or starts a
task per event; that task asks the event router, then `MessageApplication.handle`, which
resolves the conversation and calls `ConversationScheduler.run`; inside it, the command
router or the agent runtime acts on the conversation's thread. The runtime calls the model
controller and the tool registry; tools reach the task scheduler, the transport and the
knowledge base. APScheduler starts executions of the task scheduler, whose handlers send
messages or poll BiliWatch. The dashboard calls all of them directly, and is where two
components meet without a lock (`delete_chat`, `send_chat_message`, task and subscription
updates). In the browser, the router mounts one page at a time; its handlers ask the API
through `api.ts`, read and write the page's refs and the stores, and are not ended when the
page is left.

What makes each component correct:

- *Conversation scheduler*: one operation per conversation at a time, in arrival order; no
  call is stranded by a cancellation; no memory is kept for idle conversations.
- *Agent runtime*: a risky tool starts at most once and only by the requester's timely
  consent; the history and the ledger say what happened; every tool call is answered; every
  call ends; a conversation that was cleared is empty.
- *Task scheduler*: executions of a task do not overlap; a once task runs once; what is
  enabled is scheduled with what was saved last; RUNNING means running; deletion is complete;
  at most `max_concurrency` handlers run and every execution gets its turn.
- *Transport*: nothing waits for an answer that nobody reads; a bot is reached over its newest
  connection; every call ends; the ledger's status is the outcome; messages of one bot keep
  their order.
- *BiliWatch*: the cursor passes over no post, nothing is delivered twice but for a crash in
  between, a live session is announced once; whoever is subscribed is polled for.
- *Model controller*: a completion uses one configuration; memory and disk agree in the end.
- *Knowledge base*: search sees a document's chunks all or not at all; the index agrees with
  the chunks.
- *Plugins*: a plugin that fails to load leaves nothing behind.
- *Chat page*: there is always an active conversation and it is listed; what is shown is what
  the server has, as far as the server records it; what is stored is what is shown; the composer is locked exactly while an
  answer is awaited.
- *Other pages*: at rest a page shows what the server holds; a spinner or a disabled button
  belongs to a request under way; a form is saved to the row it was opened for; a live page of
  logs catches up.

`PROJECT.json` "hazards" has what can go wrong in what is modelled, and the first of what is
not, at its line; the rest of the latter is under [What is not shown](#what-is-not-shown).

## Plan

1. `ConversationScheduler` with `ConversationMutex`; `AgentRuntime` with `ToolApproval`:
   the path of every message. **Done, with proofs.**
2. `TaskScheduler`. **Done, with proofs.**
3. `OneBotTransport`. **Done, with proofs.**
4. `BiliWatch`: one creator's subscription, its cursor and deliveries under polls, retries
   and edits. **Done, with proofs.** Then `PollingSchedule`: `sync_polling_schedule` of
   overlapping saves and deletes, one statement at a time, against the tasks of the scheduler
   (two overlapping first saves can each create a polling task).
5. The dashboard: `DashboardChat`; `DashboardPage` and `DashboardStores`, on which
   `DashboardTasks`, `DashboardModels`, `DashboardKnowledge`, `DashboardBiliWatch` and
   `DashboardMonitor` are built, composed in `Dashboard`. **Done, with proofs.**
6. `KnowledgeIndex`: several writers on one connection, with its implicit transaction.
7. `ModelController`: activations and completions, disk and memory.
8. `PluginRegistry` with the command and tool registries; `EventRouter`.
9. Pure operators against a reference: crontab weekdays, wake-up policy, conversation ids,
   chunk arithmetic; `ChatMetadata`.

Every safety property that a passing run checks is also a theorem.

## Conversation scheduler

`ConversationScheduler` models `ConversationScheduler.run`. `entries` is `self._entries`;
`users`, `locked` and `waiters` are the fields of a `_LockEntry` and its `asyncio.Lock`, for
entries with an identity; `pc`, `conv`, `entryOf` are the calls and their locals. The bodies
under `_entries_lock` await nothing, so each is one step. Actions: `Arrive` (lines 24-30, up
to the lock), `Acquire`, `Finish` (the operation ends; lock released, `finally`), `Cancel`
(`task.cancel()` on a waiter) and `Abort` (the cancelled waiter unwinds). `asyncio.Lock` is
external and modelled from CPython: FIFO waiters, wake-up without hand-over, and the fast
path that yields to uncancelled waiters. Those details matter: the wake-up that a cancelled
waiter has to pass on is a real way to strand a line, and is one of the mutants' targets.

`ConversationMutex` is the promise: one line per conversation, only its front runs; it knows
who stands in a line and who stood there before. The detailed module implements it under the
mapping `LineOf` (`ImplementsMutex`, checked and proved).

## Agent runtime

`AgentRuntime` models `LangGraphRuntime`, the graph, the ledger and what
`ToolRegistry.execute` contributes. One action is the code between two awaits, or one awaited
statement. A conversation has one slot `run[c]`: `ConversationScheduler` shows that its calls
do not overlap. `delete_chat` does not take the slot.

| variable | code |
|---|---|
| `cp[c]` | the last checkpoint of thread `c`: `AgentState` (messages, actor, pending tool, pending approval) and the node that runs next |
| `ledger[a]` | row of `tool_executions` for approval `a` |
| `run[c]` | the call in flight: its place (`pc`), the pending approval it read (`seen`), its graph state (`at`), its decision, the nodes run, the tool's result |
| `deleting` | `delete_chat` between its two deletes |
| `expired` | approvals whose `expires_at` has passed |

The rest of the variables are history: who was asked, which `/approve` commands came in time,
how often each handler started, which conversations were cut off or cleared. They change
with the actions that observe them and no guard reads them, with three exceptions that are
bounds: `used` counts what is bounded, and `asked` says which ids are left.

| action | code |
|---|---|
| `Receive` | `MessageApplication.handle` with the core commands, once it has the conversation |
| `ReadPending`, `Decline`, `StartGraph`, `ResumeGraph` | `_get_pending`, then the branches of `respond` and `_decide`, `_resume` |
| `CallModel`, `GuardRefuses`, `GuardPasses`, `GuardAsks` | nodes `model` and `guard` |
| `Interrupt`, `AwaitApproval` | node `approval`, without and with a decision |
| `ExecuteSafe`, `Claim`, `StartHandler`, `EndHandler`, `Complete`, `PutResult` | node `execute`, split at each await: claim, validation and handler, outcome, `complete`, checkpoint |
| `RunFails`, `Cancel`, `Crash`, `Expire` | model failure, unidentified call or step limit; gateway disconnect; process end; the clock |
| `ResetThread`, `ResetRows`, `DeleteThread`, `DeleteRows` | `reset()` from `/reset` and from `delete_chat`, one statement each |

LangGraph is external; the module's head says what the code relies on. The clock is a set of
expired ids that grows at any moment, so every relation of the two readings (`_decide` and
the node) occurs. Messages are abstracted to who speaks, what kind of answer it is, and the
approval it answers; arguments and hashes are not modelled (the branches that refuse are
`"refused"` and `"invalid_arguments"`, chosen freely). `Claim`'s branch for an id that is
already claimed is kept because the code has it; the proofs' invariant says it is dead code
unless ids repeat.

`ToolApproval` is the promise about one request: asked of one user in one place, granted only
by that user's vote in time, started at most once and after a grant, dropped requests never
start. `ImplementsApproval` checks it under the mapping `Phase`.

**A disagreement found.** `delete_chat` (`web/app.py:345`) calls `runtime.reset` directly
while `/reset` goes through the `ConversationScheduler`, whose first line promises to
"serialize work per conversation". With a call in flight, the next checkpoint is written
after the thread was deleted: the deleted conversation is back, although
`tests/test_dashboard_api.py:478` (with nothing in flight) asserts it empty. Run
`agent_delete_race` is the shortest such behaviour. The same interleavings do *not* break
`AtMostOnce`, `HistoryTellsTheTruth` or `PendingMatchesNode`: run `agent_delete` checks
those with deletions.

## Task scheduler

`TaskScheduler` models `SchedulerRuntime` and `TaskStore`. All statements go through one
aiosqlite connection whose worker thread answers in the order of the requests. A statement
therefore takes effect in the step that *submits* it, and its result is used in a later
step; the model's actions are the code between two such waits. This is exact for whatever the
steps of one task say about each other, and it is what `NoOverlap` rests on: `delete` pops
the lock and submits the `DELETE` without a wait in between, so an execution that finds a
fresh lock also finds the task gone.

| variable | code |
|---|---|
| `rows` | `scheduled_tasks`: definition, status; `rev` numbers what was saved, to tell definitions apart |
| `openRuns`, `doneRuns` | `task_runs` of a task: how many say RUNNING, and what the finished ones say |
| `jobs` | APScheduler's job of the task: its trigger, as kind and `rev` |
| `locks`, `held`, `permits` | `self._locks`, which lock objects are locked, the semaphore's value |
| `exec`, `saver`, `order` | executions (`run_now`, `_execute`, `_execute_locked`), calls of `create`/`update`, and the order in which the latter get their answers |

`Create`; `BeginUpdate`, `Write`, `Reread`, `Reschedule` are `update` (the last two also end
`create`); `Delete`; `Fire` and `Skip` are APScheduler's (`coalesce`, `max_instances=1`,
`misfire_grace_time`); `RunNow` and `Asked` are `run_now`; `Enter` to `Leave` are `_execute`
and `_execute_locked`; `Restart` is a crash or `shutdown()` followed by `start()`, with any
set of handlers registered.

What is abstracted: trigger expressions (validated before anything is written), `last_run_at`,
`next_run_at`, errors, payloads. `start()` is one step: its loop treats tasks one by one and
nothing else has been started yet.

What the model shows beside its properties, none of which a document denies: an execution of
a once task unschedules and disables whatever the task has become while the handler ran
(`runtime.py:312`, the `seen` in `Finish`); `update` hides RUNNING (`:233`); an update that
races with a delete or a disabling may leave a job that fires and does nothing; a once task
whose time is missed stays enabled without a job. The properties are stated so that they say
what *does* hold around these.

## OneBot transport

`OneBotTransport` models how an action reaches a bot: the gateway's connection handler, the
hub, `transport.call` with its ledger, and the sender's line per bot. Connections are
numbered in the order of `attach` and calls in the order in which they begin.

| variable | code |
|---|---|
| `hub` | `OneBotConnectionHub._connections` |
| `handler[k]`, `closed` | where `_handle_connection` of a connection is: in `attach` closing its predecessor (`greeting`), in its loop (`reading`), in `gather` (`ending`); and whose socket is closed |
| `call[i]` | a call's place, the bot, the connection whose message it replies to (`owner`), the connection it uses and the state of its future in `_pending` |
| `permits`, `locked`, `line` | the transport's semaphore, the sender's lock per bot and who waits for it |
| `record[i]` | its row of `onebot_actions` |
| `cancelled` | tasks with a cancellation to deliver |
| `confirmed` | history: the callers that got the bot's "ok" |

`Attach`, `Greeted`, `End`, `Ended` are the handler with the hub's `attach` and `detach`;
`Drop` is the peer or the network; `Respond` a response that is read. `BeginAction` and `Send`
start a call, from a message's task or from another one; `TakeTurn`, `Recorded`, `Dispatch`,
`Transmit`, `Finish`, `TimeOut`, `Return` are a call between two waits; `Cancel` and `Unwind`
deliver a `CancelledError`. A response with an unknown, repeated or late echo is no event, so
it is no step: `Respond` is the only reader of `PendingOf`.

What is abstracted: the hub's lock (nothing is awaited under it) and the send lock of a
connection (the socket takes frames whole); the pause between two messages; the bot's lock as
a line, which `ConversationMutex` shows `asyncio.Lock` to be for the same use; the answer's
data. What a frame does at the bot is external: only what the caller learns is modelled.

**A second disagreement found.** `transport.call` starts with `status =
ActionStatus.COMPLETED` (`actions.py:303`) and sets FAILED under `except Exception`, which a
`CancelledError` is not. An action that is cancelled while it waits is therefore recorded as
completed, and the gateway itself cancels: when a connection ends, its handler fails the
futures of the connection (`gateway.py:167`, with the `ConnectionError` of line 91) and in the
same step cancels the tasks of its messages (168-169), those that wait for such a future
included. `README.md:15` calls the record an audit, and `tests/test_onebot_actions.py:147`
asserts `ActionStatus.FAILED` of an action that failed. Run `onebot_cancelled` is the
behaviour: an action of a message is sent, the connection is lost, the record says completed.
The property speaks of exactly that: an action that was sent, whose connection ends, is not
recorded as completed unless the bot confirmed it. A cancellation bites only where the task is
suspended; a free permit and the hub's lock do not suspend it (`Recorded`, `UsePermit`).

## BiliWatch

`BiliWatch` models what a subscription to one creator is told. A poll reads the retriable
deliveries and later the enabled subscriptions, and works on these copies through every
request and message, while the rows change under it.

| variable | code |
|---|---|
| `rows[g]` | the target's row of `biliwatch_subscriptions`: identity, settings, `last_dynamic_timestamp`, `was_live` |
| `deliveries[g]` | its rows of `biliwatch_deliveries`, by content |
| `poll` | the locals of `poll`, `_process_dynamics`, `_process_live` and `_send`: copies of the rows, the list that was fetched, posts still to do, the message under way |
| `saver[u]` | the locals of a `save_subscription`, in the service and in the store |
| `published`, `withdrawn`, `live` | what Bilibili shows |
| `budget` | the bounds: what may still happen |
| `base`, `sent`, `pushed`, `cutOff` | history: the time from which a subscription counts, what the bot confirmed, what was announced, what a restart left unrecorded |

`BeginSave`, `FetchBaseline`, `ReadAgain`, `WriteRow` are a save up to each await;
`Unsubscribe` a deletion with its cascade. `StartPoll`, `Retry`, `ReadSubscriptions`,
`FetchDynamics`, `NextTarget`, `NextPost`, `MoveCursor`, `NoTargetLeft`, `FetchLive`,
`PushLive`, `NothingToPush`, `SetLive`, `EndPoll` are a poll; `Send` and `Mark` one message.
`Restart` is a crash at any step. A poll may start whenever none runs (the scheduler's task
or the command for a poll at once). `MaxAttempts` is 2 where `pending_deliveries` has 3.

Two actions keep two awaits in one step. `QueueAndSend` is `save_content` and
`ensure_delivery`, the write and the read that follows: a subscription deleted in between
ends the posts of this poll, which `NextPost` allows at any time. `WriteRow` leaves out the
row that `save_subscription` reads once more for its caller. SQLite's own failures (a full
disk) are not modelled: one in `mark_delivery_sent` would have the message sent again.

What holds is weaker than one would like, and the properties say exactly how far it goes:

- The cursor does move back: a post that is withdrawn makes the list older
  (`service.py:252`), and a save writes back the cursor it read before a poll moved it
  (`store.py:154`). `NothingTwice` shows that the deliveries make this harmless.
- A save that overlaps the first poll of a subscription without a cursor erases the cursor
  that the poll wrote; the next poll sets it anew and what came in between is not delivered.
  `base` follows the code here, so `NothingSkipped` starts from the last such setting.
- Posts are told apart from the cursor by the second (`service.py:270`): one of the same
  second as the newest that was listed is never delivered. `NothingSkipped` excludes it.
- A candidate whose delivery failed is sent again for as long as an error keeps the cursor
  behind it, whatever its attempts; a delivery that has failed `max_attempts` times is given
  up, so `NothingSkipped` promises a delivery, not its success.
- A message may reach a group after its subscription was deleted: the poll sends from its copy.
- One deleted target ends the posts of that poll for all targets (the foreign key raises,
  `service.py:173` catches it); they are candidates again in the next poll.

## Dashboard

A handler of a page is an `async` function: it asks the server, is suspended, and goes on
with the refs of its page. What makes it hard is the same everywhere: the user, another
handler or another page act while it is suspended, and answers come in any order. All
modules of the dashboard therefore cut a handler at its awaits: a step of the user up to the
first `await`, a step of the server, a step that goes on.

**The chat page** is `DashboardChat`. Each time the page is opened it is a new view.

| variable | code |
|---|---|
| `stored` | the two localStorage keys: the list with the active id, or what an older version left |
| `views[i]` | the refs of the i-th view: list, titles, active id, messages, `sending`, the conversation of the renaming dialog |
| `mounted` | which view is shown |
| `calls[n]` | a handler suspended in `send`, `loadHistory` or `removeConversation`, and the answer it waits for |
| `history` | the server's messages of each conversation |
| `created`, `budget` | fresh ids; bounds |
| `disturbed`, `abandoned` | history: since the messages were asked for or emptied a call failed, a text was not answered by a turn, or two calls overlapped; a page was left or reloaded with a call under way |

`Mount`, `Leave` and `Reload` are the router and the browser; `Send`, `SelectConversation`,
`NewConversation`, `RenameConversation`, `SubmitRename`, `CancelRename`, `RemoveConversation`
the handlers up to their await; `Serve`, `AnswerAside` and `Trouble` the server; `SendAnswered`,
`SendFailed`, `HistoryLoaded`, `Removed`, `RemoveFailed` the rest of the handlers, with the
refs *as they are by then*: an answer is pushed to whatever conversation is active, and
titles it.

What a text does to the conversation on the server is `AgentRuntime`'s; here which of its
outcomes comes is left open. A turn records the text and the answer, with the calls and
results of tools before it when there are some (`Turns`; `Serve`). The rest is answered with
something that is not recorded (`AnswerAside`): a command or a refused vote changes nothing, a
request for approval keeps the text and the call, a vote or the first text after the expiry
settles it and is not recorded itself, a model that fails leaves what there was, `/reset`
empties the conversation. After any of these the page shows what the user saw, and not what is
recorded, until it loads the messages again; and after a turn with tools it shows the answer
without the rows of the tools, which a load lists (`Said` looks past them).

No guard reads the history variables; they say under which circumstances a page shows what the
server has. `disturbed` gives a page up until its messages are asked for again or emptied: when
a call fails or a text is answered aside, and when calls overlap that change the conversation
or show their answer in the view (`Touching`). The latter counts two loads of two
conversations: `loadHistory` (`ChatView.vue:66`) shows what comes wherever the view is by
then, and if the earlier one is answered last, its messages stand under the other
conversation. That is known to go wrong, as it does in `KnowledgeView.vue:42` (run
`dashboard_listed`); the property is about everything else.

`ShownMatchesServer` and `StoredIsSeen` fail without the history variables: a
removal that overlaps an answer shows the answer under another conversation, and a page that
was left stores its own list over that of the page opened since.

**The other pages** share `DashboardPage`: `refs` of the mounted page, `jobs`, one slot per
handler under way with the requests it has asked (`asks`), and `stores`. A slot keeps the
`visit` in which it began, so that a handler of a page that was left changes the stores and
the server but nothing that is shown. `DashboardStores` is Pinia; what `Promise.all` does
with a refresh that outlives a failure is `TakeAnswer`. One module per page
has its refs, its endpoints (`TaskReply` and the like: what a request does to the server's
tables and answers), its handlers and what it displays. `Dashboard` composes them with
the router (`Navigate`), the sidebar, the interval of the logs, the server (`Serve`, `Lose`)
and what is done elsewhere, by a chat command or a scheduled task.

`sure` is history: it is set when a page is being read and nothing else reads the same, and
unset by a failure, by a change elsewhere, or by a reading that overtakes another.
`SettledShowsServer` says what the user may rely on at rest while it holds; that it stays set
through every handler that changes something is what the reload at the end of each is for.

What is abstracted: a row is one value; the banners that tell how a handler ended (no behaviour
depends on them); refusals before anything is asked; columns, formats, scrolling, the theme.
`showNotice` in `stores/ui.ts` and the watcher of `components/GlobalFeedback.vue` are left
out: nothing calls them. A second tab is covered as far as its effects on the server go
(`Elsewhere`), not its localStorage. The bundle in `web/static` is built from these sources.

**A third disagreement found.** `loadDocuments` (`views/KnowledgeView.vue:42`) assigns the
answer to `documents` without looking at `selected` again. When the answer for a collection
that was selected before comes last, it stays on the page, under a card that says
"当前集合中的资料及其分块状态", the material of the *current* collection (line 148). Run
`dashboard_listed` is the shortest such behaviour.

Two more things the models show that no document denies: the switch of a task's row sends
the definition the row showed and so undoes a save under way
(`views/ScheduledTasksView.vue:106`), and a removal's handler that goes on after its page
was left stores a list that lacks what has been created since (`views/ChatView.vue:150`).

## Runs

| run | module, cfg | instance | what it shows |
|---|---|---|---|
| `conversation_scheduler` | `MCConversationScheduler`, `ConversationScheduler.cfg` | 3 calls, 2 conversations, 3 entries | type; one at a time; the dictionary holds exactly the live entries; every call ends; implements `ConversationMutex` |
| `agent_shared` | `MCAgentRuntime`, `AgentRuntime.cfg` | 2 users in one conversation, 2 approvals, 3 calls, 1 abort | type; only the requester grants; a request ends by the requester's vote, by its time, or with the conversation when it is emptied; calls are answered; cleared stays cleared (without `delete_chat`) |
| `agent_delete` | `MCAgentRuntime`, `AgentRuntime_delete.cfg` | 1 user, 2 conversations, 1 approval, 3 calls, 1 abort, 1 deletion | started at most once; history true; effects leave records; pending approval matches the node; implements `ToolApproval`; every call ends |
| `agent_delete_race` | `MCAgentRuntime`, `AgentRuntime_race.cfg` | 1 user, 1 conversation, 1 deletion | expected violation of `ClearedStaysCleared`, see above |
| `tasks` | `MCTaskScheduler`, `TaskScheduler.cfg` | 1 task, 1 restart; 2 executions, 1 saver and 2 saves, or 1 execution, 2 savers and 3 saves | no overlap; once starts once; RUNNING tells the truth; nothing of a deleted task comes back; an enabled task has the job that was saved last |
| `tasks_shared` | `MCTaskScheduler`, `TaskScheduler_shared.cfg` | 2 tasks, 1 permit, 2 executions | every execution ends |
| `onebot` | `MCOneBotTransport`, `OneBotTransport.cfg` | 1 bot, 1 permit; 3 connections, a message and another action, or 2 connections and 3 messages | what waits has a reader; the newest connection is used; messages keep their order; every call ends |
| `onebot_cancelled` | `MCOneBotTransport`, `OneBotTransport_cancel.cfg` | 1 bot, 2 connections, 2 calls | expected violation of `CompletedWasConfirmed`, see above |
| `biliwatch` | `MCBiliWatch`, `BiliWatch.cfg` | 1 target, 2 users, 6 scenarios of up to 3 posts, 1 withdrawal, 2 sessions, 2 rows, 3 saves, 1 restart | type and no orphaned delivery; nothing twice; the cursor skips nothing; a session is announced once |
| `dashboard_chat` | `MCDashboardChat`, `DashboardChat.cfg` | 2 views, 2 calls under way; 3 scenarios of up to 4 actions and 2 calls that fail or are answered aside | the active conversation is listed; shown is what the server has, undisturbed; stored is what is shown; sending means asked, and ends |
| `dashboard` | `MCDashboard`, `Dashboard.cfg` | 2 rows, 2 values, 2 collections, 3 handlers under way; 18 scenarios | type; at rest the server's tables are shown; busy means asked; saved where it was opened; live logs catch up |
| `dashboard_listed` | `MCDashboard`, `Dashboard_listed.cfg` | the knowledge page, 2 actions | expected violation of `ListedAreOfSelected`, see above |

Why these bounds. *Conversation scheduler*: a stranded or overtaken waiter needs a runner,
a waiter and an arrival, three calls; a second conversation shows independence; entries are
as many as calls can hold; nothing bounds the length of a behaviour. *Agent*: three calls are
ask, answer, and one more (a stranger's decision, a second answer, a new message or a reset);
one abort splits any two steps; two approvals are needed for a stale id to meet a fresh
request; `RecursionLimit = 5` lets a run ask, execute, return to the model and still hit
the limit. *Tasks*: an overlap needs two executions; a stale definition needs a save after
the first; a stale *answer* to a save needs two savers and one more save; waiting across tasks
needs two tasks and one permit. `MaxLocks` is never the limit: it is the number of executions
plus the number of tasks. *OneBot*: with three connections a replaced one is replaced again
while its predecessor's handler is still ending; two calls at one permit block each other;
overtaking needs a message under way, one in the line and one that arrives. Bots share
nothing but the permits, so one is enough. *BiliWatch*: targets meet only in the poll's order
and its errors, so one is enough; polls are not bounded. Every scenario of `Scenarios` gives what
its hazard takes: a row made anew under a poll needs two rows and a save beside an
unsubscription, a stale cursor a post, a withdrawal and a save, an erased one two saves, a
session announced again two polls. All bounds at once would be out of reach. *Chat*:
a lost conversation takes a creation, a removal and an answer; a stored list that is stale
takes a view left with a call under way and another opened; two calls are enough for answers
to change places. *Pages*: pages meet only in the stores and through handlers of a page that
was left, so the scenarios are each page alone with two actions of the user, each with one
action beside a failure or a change made elsewhere, and a page that is left, for another
or to be opened again, with a handler under way; three slots hold the first loading and two
handlers. A behaviour may stop when a bound is used up, so these runs do not check deadlock; `conversation_scheduler` does. Symmetry is used only without liveness
properties and only over sets of interchangeable constants (users, approvals, executions,
savers).

The type invariants of `TaskScheduler` and `OneBotTransport` are no properties of a run: they
are theorems (`TypeCorrect` of each).

### Fairness

- `ConversationScheduler`: weak fairness of `Acquire`, `Finish`, `Abort` for each call. The
  event loop runs ready tasks in order; operations end because the graph has a step limit
  and model and tool calls have timeouts. Cancellation and arrival are never assumed.
- `AgentRuntime`: weak fairness of `RunStep(c)`, what the task of a call does next.
  Expiry, aborts and new calls are never assumed.
- `TaskScheduler`: strong fairness of `Proceed(x)`. The steps at the lock and the semaphore
  are disabled whenever another execution is ahead; the queues of `asyncio.Lock` and
  `asyncio.Semaphore` pass nobody over, which strong fairness stands for. Handlers end
  because their HTTP and action calls have timeouts.
- `OneBotTransport`: strong fairness of `Proceed(i)`, for the same two queues. `wait_for`
  ends the waiting, a socket takes or refuses a frame. Answers, reconnects and cancellations
  are never assumed.
- `DashboardChat` and `Dashboard`: weak fairness of `Serve(n)` and `Resume(n)`: `fetch`
  resolves or rejects in the end, since the API's own waits have timeouts, and the browser
  runs what is ready; and of `Interval`, which `setInterval` is. The user, failures and
  changes made elsewhere are never assumed.

## Proofs

All theorems hold for every value of the constants that the modules' named assumptions allow
(counts are natural numbers, `None` and `NoEntry` are no members of the sets they stand beside,
the sets of calls and of executions are finite, a call to a bot is either a message or another
action, posts have times that do not decrease, a form has some value to fill in, and the server
always has the built-in knowledge base, which `src/src/nekograph/bootstrap.py:194` creates
when it starts); nothing else is assumed.

`ConversationSchedulerProofs` proves `TypeCorrect`, `MutualExclusion` (`OneAtATime`) and
`NoLeak` (`DictionaryHoldsLiveEntries`). `OneAtATime` is not inductive: it says nothing of
entries. `IInv` adds three parts. `Counted`: the calls of a conversation hold the entry the
dictionary has for it, and `users` is their number (the cardinality lemmas are here), so that
an entry with users is never dropped. `Lined`: a line holds exactly the waiting calls of its
entry, each once. `Owned`: the lock of an entry has at most one owner, and a woken waiter is
the first of the line and the lock is free until it takes it, so that nobody else can.
From the same invariant it proves `SchedulerImplementsMutex` (`ImplementsMutex`): those of a
conversation who run or wait hold one entry, so that their order is that of its line; who
joins joins behind all others, who leaves moves nobody past another (`JoinsBehind`,
`LeavesOrder`), and who starts was woken, so that nobody stands before it.

`AgentRuntimeProofs` proves `TypeCorrect`, `StartedAtMostOnce` (`AtMostOnce`) and
`GrantedByRequester` (`OnlyRequesterGrants`), with crashes, cancellations and racing
deletions. The invariant follows an approval through the graph. `SnapshotOK`: a snapshot of
`c` at the approval node names an approval that was asked in `c`, and one at `execute` with a
risky tool names one that was *granted*. `RunOK`: the run's state is its thread's, unless the
thread was deleted; an approving decision carries a vote heard in time; the approval read
before the decision is the thread's. `StartedOK`: once started, an approval was granted, was
started once, and is `Closed`: no thread is at its approval node and no run leads to its
handler. The last part is why a resumed thread cannot start it again, and it is where the
claim in the ledger turns out not to be needed within one conversation: the thread alone
suffices, the ledger is a second line of defence.

The same module goes on from that invariant to what is on record: `HistoryIsTrue`,
`EffectsAreRecorded`, `PendingIsWaiting`, `EveryCallIsAnswered`, `RequestsEnd`
(`RequestEndsProperly`, an action property), and `ClearedIsEmpty`, which holds when nobody deletes a chat; run
`agent_delete_race` shows that it does not otherwise. `Told`: an approval that a history
reports on was asked in that conversation, was started once or never as reported, and nothing
leads to it any more; conversely what a thread or a run still leads to is `Untouched`, so that
the report is written when nothing can change it. `PlaceOK` follows the call between claim and
checkpoint. `Paired`: each node that ends has answered the call at the end of the history, or
left it for the node that is next. `Rested`: a thread no run works on is at its end, waits for
an approval, or was cut off.

Its last part proves that `AgentRuntime` implements `ToolApproval`
(`AgentImplementsApproval`, for `ImplementsApproval`). Where a request stands is told by the
one conversation in which it was asked (`PhasesStand`). A step either is the one that asks,
hears a vote, grants, starts or expires, or what its conversation stood at stays or is dropped
(`Weakens`); a crash drops in several conversations at once.

`TaskSchedulerProofs` proves `TypeCorrect`, `NeverOverlaps` (`NoOverlap`), `DeletionIsFinal`
(`DeletedLeavesNothing`), `RunningIsTrue` (`RunningTellsTheTruth`) and `OnceIsOnce`
(`OnceStartsOnce`). The executions that may still write share one lock of their task;
executions of a deleted task may hold another, but then its row is gone for good. Permits and
records that say RUNNING are counted: the cardinality of the executions at certain places is
what the semaphore and the table lack. A save has one job or one execution that was scheduled
for it, and once an execution of it has started there is neither.

It also proves `EnabledHasJob` (`EnabledIsScheduled`). Savers answer in the order of
their writes; so the last of those that wrote a task is the last to schedule it, and what it
has read again is the row as it is, unless that was disabled or deleted since, after which no
job is promised.

`OneBotTransportProofs` proves `TypeCorrect`, `PendingIsRead` (`PendingHasReader`),
`NewestIsUsed` (`NewestIsReachable`) and `MessagesAreServed` (`MessagesKeepOrder`). Connections
are attached in their order, so of a bot's connections the hub has the last until that one
ends; a future is registered with the hub's connection and failed by whatever takes that
connection out of the hub. Calls begin in their order, so a line is sorted, and whoever holds
its lock came before all who wait.

`BiliWatchProofs` proves `WatchTypes` (`TypeOK`), `WatchNothingTwice` (`NothingTwice`),
`WatchOncePerSession` (`OncePerSession`) and `WatchNothingSkipped` (`NothingSkipped`). None of
the last three is inductive, since a poll and a save work on rows they read some awaits ago.
`Fresh`: an id that anybody still knows is given to no row again, so what was read is used only
on the row that was read. `SentInv`: what is due has a delivery that is not marked sent, and
between a confirmation and its mark only a restart can come. `OnceInv`: a session has a number
of its own; a push is remembered by its row's `wasLive`, which only the poll writes, until the
session is over. `SkipInv`: *every* cursor a row ever had, which a save or a poll may write
back, covers only posts that have deliveries and none that is yet to come (`CursorOK`).

`DashboardChatProofs` proves `ChatActiveListed` (`ActiveIsListed`), `ChatSendingAsked`
(`SendingMeansAsked`), `ChatStoredSeen` (`StoredIsSeen`) and `ChatShowsServer`
(`ShownMatchesServer`). `Base`: every id that is listed, stored or asked about was created, and
an action or a removal under way has an id left for the conversation it may create; so a fresh
id is in no list. `Present`: as long as no page was left with a call under way, all calls are
the shown page's. `Followed` strengthens the last property, which speaks of rest only, to what
holds meanwhile: at most one call can touch what is shown or what the server has of the active
conversation, and the two, seen past the rows of tools (`Alike`), differ by what that call
will add: the answer here, the turn there.

`DashboardProofs` proves `DashboardTypes` (`TypeOK`), `DashboardBusy` (`BusyMeansAsked`) and
`DashboardSaved` (`SavedWhereOpened`), for any order of answers and any number of handlers.
`Hands`: what a handler asks for at a time follows from which handler it is (`Questions`), and
so does what it may be answered (`Replied`), which is why what it assigns has the type of the
ref; a handler of the visit that is shown is one of the page's that is shown. `FormOpened`: the
row that is being edited is the one the form was filled from, as long as its dialog is open.
`BusyMeansAsked` is inductive once it is known that a handler keeps its slot until it takes its
flag back.

The same module proves `DashboardSettles` (`SettledShowsServer`), which speaks of rest only, from
`Settles`, which says what holds meanwhile. A page shows *things*: its tables, and what it uses
of the stores (`Things`). While it is `sure`, either some handler of this visit `Owes` a reading
of the page, because what it asked for has been done and its next step is the reload, or each
thing is `Holding`: every handler that reads it has so far been answered with what the server
still holds (`Right`), and when no handler reads it, it is shown as the server has it (`Shows`).
Each step is one of a few kinds: one slot goes on (`OneGoesOn`), the page is read anew
while nobody else reads it (`ReadsAnew`), or nothing is asked (`NothingAsked`). When the server
changes a table, whoever asked for that owes the reading (`ServedChange`); the store of a page
takes every answer, also that of a handler whose page was left (`Reads`), which is why a reading
of the stores is only sure when nobody else, of any page, is reading them. At rest nobody owes
or reads, and `BusyMeansAsked` says that no spinner hides a table.

`LineLemmas` says what remains of a line that a member leaves, for the modules that have one.

Each module has one lemma per action (`...Keeps`, and `...Settles` for what a page shows),
lemmas for what several actions share (`Grows`, `SnapshotStays`, `CallEnds`, `OnlyDrops`, `GiveBackKeepsCount`), and the theorems
at its end. The induction over behaviours is one temporal step (`Inductive`).

## What is not shown

- Only model-checked: liveness (`EveryCallEnds`, `CallsEnd`, `ExecutionsEnd`, `SendingEnds`,
  `LiveLogsCatchUp`), which is outside what the prover supports. All safety properties and
  action properties of the passing runs are theorems.
- Not modelled, though each has a hazard: when BiliWatch polls (`biliwatch/service.py:77`
  lists, creates, updates and deletes polling tasks in several awaits); two activations of
  models at once and a client that fails to close (`agent/model_controller.py:136`, `:149`);
  documents, chunks and index changed in several statements (`knowledge/store.py:106`,
  `:288`); a plugin whose setup fails half-way (`plugins/runtime.py:122`); crontab weekdays
  from Sunday against APScheduler's from Monday (`scheduling/runtime.py:45`); the turn index
  that `send_chat_message` computes before it waits (`web/app.py:300`); posts of the same
  second as the cursor (`biliwatch/service.py:270`, excluded in `NothingSkipped`).
  Items 4 and 6 to 9 of the plan are these.
- Out of reach by nature: text processing, HTTP, ranking arithmetic, layout.
- Assumed of external code: `asyncio.Lock` (modelled from CPython), LangGraph's
  checkpointing with `durability="sync"`, SQLite's atomicity of one statement and its commit,
  the FIFO of aiosqlite, APScheduler's `max_instances` and misfire handling, Vue's and
  Pinia's reactivity, the browser's `fetch` and `setInterval`.
