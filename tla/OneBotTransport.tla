--------------------------- MODULE OneBotTransport ---------------------------
(***************************************************************************)
(* How actions reach a bot: ReverseWebSocketGateway and _OneBotConnection  *)
(* (protocols/onebot_v11/gateway.py), OneBotConnectionHub,                 *)
(* OneBotActionTransport, OneBotActionLedger and OneBotMessageSender       *)
(* (protocols/onebot_v11/actions.py).                                      *)
(*                                                                         *)
(* A bot may open a new connection before the handler of its old one has   *)
(* noticed anything; answers may come late, twice or never; and the end of *)
(* a connection cancels the tasks of the messages that came over it, while *)
(* they send their replies, perhaps over another connection.               *)
(*                                                                         *)
(* Each action is the code between two awaits that can wait.  The hub's    *)
(* lock is never contended (no await under it) and is left out; so is the  *)
(* sender's pause between two messages.  The lock of a bot is the line     *)
(* that ConversationMutex describes.  A call has an id of its own, its     *)
(* echo, which uuid4 never returns twice.  The socket is external: a       *)
(* closed one refuses to send, but what it had received is still read.     *)
(***************************************************************************)
EXTENDS Naturals, Sequences, SequencesExt, FiniteSets

CONSTANTS
    Bots,
    BotOf,          \* X-Self-ID of each connection
    Budgets,        \* bounds, one record per scenario: see budget
    None,
    MaxConcurrency,
    MaxConnections, \* bound: WebSocket connections ever made
    MaxCalls        \* bound: actions ever called

\* Connections in the order of attach(), calls in the order in which they begin.
Connections == 1..MaxConnections
Calls == 1..MaxCalls

ASSUME BoundsAssumption == MaxConnections \in Nat /\ MaxCalls \in Nat
ASSUME BudgetsAssumption ==
    /\ Budgets \subseteq
        [connections : 0..MaxConnections, actions : SUBSET Calls, messages : SUBSET Calls]
    /\ \A s \in Budgets : s.actions \intersect s.messages = {}
ASSUME BotOfAssumption == BotOf \in [Connections -> Bots]
ASSUME NoneAssumption == None \notin Connections
ASSUME ConcurrencyAssumption == MaxConcurrency \in Nat \ {0}

\* Where a call is: waiting for its turn in OneBotMessageSender.send, in ledger.start,
\* at the semaphore, in socket.send, waiting for its answer, in ledger.finish.
\* `owner` is the connection whose message it replies to, if any; `conn` the one it uses.
Call ==
    [pc : {"idle", "line", "starting", "queued", "sending", "waiting", "finishing", "done"},
     bot : Bots \union {None},
     owner : Connections \union {None}, conn : Connections \union {None},
     future : {"none", "pending", "ok", "failed"}]

VARIABLES
    hub,        \* OneBotConnectionHub._connections: bot -> connection, or None
    handler,    \* where _handle_connection of each connection is
    closed,     \* connections whose socket is closed
    call,
    cancelled,  \* calls whose task has a cancellation to deliver
    permits,    \* OneBotActionTransport._semaphore
    locked,     \* OneBotMessageSender._locks: bots whose lock is held
    line,       \* and the calls that wait for it
    record,     \* onebot_actions: the status of each call, or None
    confirmed,  \* history: the calls whose caller got the bot's confirmation
    budget      \* bounds: [connections, actions, messages] of this behaviour

vars == <<hub, handler, closed, call, cancelled, permits, locked, line, record, confirmed, budget>>

\* The calls that OneBotMessageSender makes.
Messages == budget.messages

TypeOK ==
    /\ hub \in [Bots -> Connections \union {None}]
    /\ handler \in [Connections -> {"new", "greeting", "reading", "ending", "ended"}]
    /\ closed \subseteq Connections
    /\ call \in [Calls -> Call]
    /\ cancelled \subseteq Calls
    /\ permits \in 0..MaxConcurrency
    /\ locked \subseteq Bots
    /\ line \in [Bots -> Seq(Calls)]
    /\ record \in [Calls -> {None, "running", "completed", "failed"}]
    /\ confirmed \subseteq Calls
    /\ budget \in Budgets

NoCall(pc) ==
    [pc |-> pc, bot |-> None, owner |-> None, conn |-> None, future |-> "none"]

Init ==
    /\ hub = [b \in Bots |-> None]
    /\ handler = [k \in Connections |-> "new"]
    /\ closed = {}
    /\ call = [i \in Calls |-> NoCall("idle")]
    /\ cancelled = {}
    /\ permits = MaxConcurrency
    /\ locked = {}
    /\ line = [b \in Bots |-> <<>>]
    /\ record = [i \in Calls |-> None]
    /\ confirmed = {}
    /\ budget \in Budgets

------------------------------------------------------------------------------
(* Connections *)

\* _pending of connection k: the calls whose future can still be settled.
PendingOf(k) == {i \in Calls : call[i].conn = k /\ call[i].future = "pending"}

\* fail_pending
FailPending(S) ==
    call' = [i \in Calls |-> IF i \in S THEN [call[i] EXCEPT !.future = "failed"] ELSE call[i]]

\* Mutant: the calls of the old connection are left to their timeouts.
AttachOnly(k) ==
    /\ handler[k] = "new" /\ k <= budget.connections
    /\ \A l \in 1..(k - 1) : handler[l] # "new"
    /\ LET b == BotOf[k]
           previous == hub[b]
       IN  /\ hub' = [hub EXCEPT ![b] = k]
           /\ closed' = IF previous # None THEN closed \union {previous} ELSE closed
           /\ handler' = [handler EXCEPT ![k] = "reading"]
    /\ UNCHANGED <<call, cancelled, permits, locked, line, record, confirmed, budget>>

\* attach(): the new connection is used from now on; it starts to read when the close
\* handshake with the old one is over.
Attach(k) ==
    /\ handler[k] = "new" /\ k <= budget.connections
    /\ \A l \in 1..(k - 1) : handler[l] # "new"
    /\ LET b == BotOf[k]
           previous == hub[b]
       IN  /\ hub' = [hub EXCEPT ![b] = k]
           /\ \/ /\ previous # None
                 /\ FailPending(PendingOf(previous))
                 /\ closed' = closed \union {previous}
                 /\ handler' = [handler EXCEPT ![k] = "greeting"]
              \/ /\ previous = None
                 /\ handler' = [handler EXCEPT ![k] = "reading"]
                 /\ UNCHANGED <<call, closed>>
    /\ UNCHANGED <<cancelled, permits, locked, line, record, confirmed, budget>>

\* previous.close() returns: the peer answered, or the handshake timed out.
Greeted(k) ==
    /\ handler[k] = "greeting"
    /\ handler' = [handler EXCEPT ![k] = "reading"]
    /\ UNCHANGED <<hub, closed, call, cancelled, permits, locked, line, record, confirmed, budget>>

\* The peer closes the connection, or the network does.
Drop(k) ==
    /\ handler[k] \in {"greeting", "reading"}
    /\ k \notin closed
    /\ closed' = closed \union {k}
    /\ UNCHANGED <<hub, handler, call, cancelled, permits, locked, line, record, confirmed, budget>>

\* A response that was read: it settles the call with its echo if that call still
\* waits for it on this connection, and is no event otherwise.
Respond(k, i, answer) ==
    /\ handler[k] = "reading"
    /\ i \in PendingOf(k)
    /\ call[i].pc = "waiting"
    /\ call' = [call EXCEPT ![i].future = answer]
    /\ UNCHANGED <<hub, handler, closed, cancelled, permits, locked, line, record, confirmed, budget>>

------------------------------------------------------------------------------
(* Calls *)

\* The call goes on to pc.
Moves(i, pc) == call' = [call EXCEPT ![i].pc = pc]

Ends(i) == call' = [call EXCEPT ![i] = NoCall("done")]

\* transport.call begins: ledger.start submits the RUNNING record.
BeginRecord(i) == record' = [record EXCEPT ![i] = "running"]

\* What may start a call: the task of a message that connection `owner` is reading, or
\* another task (a tool, the schedule, the dashboard).
MayBegin(i, owner) ==
    /\ call[i].pc = "idle"
    /\ \A j \in 1..(i - 1) : call[j].pc # "idle"
    /\ owner # None => handler[owner] = "reading"

\* A query or a management action: no turn to wait for.
BeginAction(i, b, owner) ==
    /\ i \in budget.actions
    /\ MayBegin(i, owner)
    /\ call' = [call EXCEPT ![i] = [@ EXCEPT !.pc = "starting", !.bot = b, !.owner = owner]]
    /\ BeginRecord(i)
    /\ UNCHANGED <<hub, handler, closed, cancelled, permits, locked, line, confirmed, budget>>

\* Mutant: a message that finds the lock free takes it, whoever waits.
SendOvertakes(i, b, owner) ==
    /\ i \in Messages
    /\ MayBegin(i, owner)
    /\ LET message(pc) == [call EXCEPT ![i] = [@ EXCEPT !.pc = pc, !.bot = b,
                                                        !.owner = owner]]
       IN  \/ /\ b \notin locked
              /\ locked' = locked \union {b}
              /\ call' = message("starting")
              /\ BeginRecord(i)
              /\ UNCHANGED line
           \/ /\ b \in locked
              /\ line' = [line EXCEPT ![b] = Append(@, i)]
              /\ call' = message("line")
              /\ UNCHANGED <<locked, record>>
    /\ UNCHANGED <<hub, handler, closed, cancelled, permits, confirmed, budget>>

\* OneBotMessageSender.send: take the bot's lock, or wait for it.
Send(i, b, owner) ==
    /\ i \in Messages
    /\ MayBegin(i, owner)
    /\ LET message(pc) == [call EXCEPT ![i] = [@ EXCEPT !.pc = pc, !.bot = b,
                                                        !.owner = owner]]
           free == b \notin locked /\ line[b] = <<>>
       IN  \/ /\ free
              /\ locked' = locked \union {b}
              /\ call' = message("starting")
              /\ BeginRecord(i)
              /\ UNCHANGED line
           \/ /\ ~free
              /\ line' = [line EXCEPT ![b] = Append(@, i)]
              /\ call' = message("line")
              /\ UNCHANGED <<locked, record>>
    /\ UNCHANGED <<hub, handler, closed, cancelled, permits, confirmed, budget>>

TakeTurn(i) ==
    /\ call[i].pc = "line"
    /\ call[i].bot \notin locked
    /\ Head(line[call[i].bot]) = i
    /\ locked' = locked \union {call[i].bot}
    /\ line' = [line EXCEPT ![call[i].bot] = Tail(@)]
    /\ Moves(i, "starting")
    /\ BeginRecord(i)
    /\ UNCHANGED <<hub, handler, closed, cancelled, permits, confirmed, budget>>

\* call_action registers the future of its echo.
Register(i, k) ==
    call' = [call EXCEPT ![i] = [@ EXCEPT !.pc = "sending", !.conn = k, !.future = "pending"]]

\* The end of transport.call: the semaphore is released and ledger.finish submitted.
Settle(i, status) ==
    /\ call' = [call EXCEPT ![i] = [@ EXCEPT !.pc = "finishing", !.conn = None,
                                            !.future = "none"]]
    /\ record' = [record EXCEPT ![i] = status]

\* With a permit: the hub's connection of the bot, and call_action up to socket.send;
\* without a connection the call fails, and the permit is given back.
UsePermit(i) ==
    LET k == hub[call[i].bot] IN
        \/ k = None /\ Settle(i, "failed") /\ UNCHANGED permits
        \/ k # None /\ Register(i, k) /\ permits' = permits - 1 /\ UNCHANGED record

Queued == {i \in Calls : call[i].pc = "queued"}

\* ledger.start returns, and the task runs on to the semaphore.  A free permit is taken
\* without waiting; the call waits only when there is none, or behind others that wait
\* (asyncio.Semaphore.locked, which disregards those whose wait is cancelled).
Recorded(i) ==
    /\ call[i].pc = "starting"
    /\ \/ permits > 0 /\ Queued \subseteq cancelled /\ UsePermit(i)
       \/ /\ permits = 0 \/ Queued # {}
          /\ Moves(i, "queued")
          /\ UNCHANGED <<permits, record>>
    /\ UNCHANGED <<hub, handler, closed, cancelled, locked, line, confirmed, budget>>

\* A call that waited has been woken by a permit that was given back.
Dispatch(i) ==
    /\ call[i].pc = "queued"
    /\ permits > 0
    /\ UsePermit(i)
    /\ UNCHANGED <<hub, handler, closed, cancelled, locked, line, confirmed, budget>>

\* socket.send: the frame is on its way, or the socket is closed.
Transmit(i) ==
    /\ call[i].pc = "sending"
    /\ \/ /\ call[i].conn \notin closed
          /\ Moves(i, "waiting")
          /\ UNCHANGED <<permits, record>>
       \/ /\ call[i].conn \in closed
          /\ Settle(i, "failed")
          /\ permits' = permits + 1
    /\ UNCHANGED <<hub, handler, closed, cancelled, locked, line, confirmed, budget>>

\* wait_for returns the answer, or raises what fail_pending set.
Finish(i) ==
    /\ call[i].pc = "waiting"
    /\ call[i].future # "pending"
    /\ Settle(i, IF call[i].future = "ok" THEN "completed" ELSE "failed")
    /\ confirmed' = IF call[i].future = "ok" THEN confirmed \union {i} ELSE confirmed
    /\ permits' = permits + 1
    /\ UNCHANGED <<hub, handler, closed, cancelled, locked, line, budget>>

\* Mutant: a call that runs out of time keeps its permit.
TimeOutHolding(i) ==
    /\ call[i].pc = "waiting"
    /\ Settle(i, "failed")
    /\ UNCHANGED <<hub, handler, closed, cancelled, permits, locked, line, confirmed, budget>>

\* wait_for runs out of time, even when the answer has just come.
TimeOut(i) ==
    /\ call[i].pc = "waiting"
    /\ Settle(i, "failed")
    /\ permits' = permits + 1
    /\ UNCHANGED <<hub, handler, closed, cancelled, locked, line, confirmed, budget>>

\* A message gives the lock of its bot back.
LeaveLine(i) ==
    locked' = IF i \in Messages THEN locked \ {call[i].bot} ELSE locked

\* ledger.finish returns, and the call with its result or its exception.
Return(i) ==
    /\ call[i].pc = "finishing"
    /\ Ends(i)
    /\ LeaveLine(i)
    /\ UNCHANGED <<hub, handler, closed, cancelled, permits, line, record, confirmed, budget>>

------------------------------------------------------------------------------
(* Cancellation *)

InFlight(i) == call[i].pc \notin {"idle", "done"}

\* Mutant: detach() forgets the bot's connection, whichever it is.
EndAny(k) ==
    /\ handler[k] = "reading"
    /\ k \in closed
    /\ handler' = [handler EXCEPT ![k] = "ending"]
    /\ hub' = [hub EXCEPT ![BotOf[k]] = None]
    /\ FailPending(PendingOf(k))
    /\ cancelled' = cancelled \union {i \in Calls : InFlight(i) /\ call[i].owner = k}
    /\ UNCHANGED <<closed, permits, locked, line, record, confirmed, budget>>

\* The handler's loop is over: the connection is detached, its calls fail, and the tasks
\* of its messages are cancelled.
End(k) ==
    /\ handler[k] = "reading"
    /\ k \in closed
    /\ handler' = [handler EXCEPT ![k] = "ending"]
    /\ hub' = IF hub[BotOf[k]] = k THEN [hub EXCEPT ![BotOf[k]] = None] ELSE hub
    /\ FailPending(PendingOf(k))
    /\ cancelled' = cancelled \union {i \in Calls : InFlight(i) /\ call[i].owner = k}
    /\ UNCHANGED <<closed, permits, locked, line, record, confirmed, budget>>

\* gather() has seen all of them end.
Ended(k) ==
    /\ handler[k] = "ending"
    /\ \A i \in Calls : call[i].owner = k => ~InFlight(i)
    /\ handler' = [handler EXCEPT ![k] = "ended"]
    /\ UNCHANGED <<hub, closed, call, cancelled, permits, locked, line, record, confirmed, budget>>

\* Another task is cancelled: the scheduler shuts down, a plugin's tool runs out of time.
Cancel(i) ==
    /\ InFlight(i)
    /\ i \notin cancelled
    /\ call[i].owner = None
    /\ cancelled' = cancelled \union {i}
    /\ UNCHANGED <<hub, handler, closed, call, permits, locked, line, record, confirmed, budget>>

\* CancelledError at whatever the call waits for.  It is no Exception: past ledger.start,
\* `status` still says COMPLETED when ledger.finish records it.
Unwind(i) ==
    /\ i \in cancelled
    /\ cancelled' = cancelled \ {i}
    /\ \/ /\ call[i].pc = "line"
          /\ \E n \in 1..Len(line[call[i].bot]) :
                /\ line[call[i].bot][n] = i
                /\ line' = [line EXCEPT ![call[i].bot] = RemoveAt(@, n)]
          /\ Ends(i)
          /\ UNCHANGED <<locked, permits, record>>
       \/ /\ call[i].pc \in {"starting", "finishing"}
          /\ Ends(i)
          /\ LeaveLine(i)
          /\ UNCHANGED <<line, permits, record>>
       \/ /\ call[i].pc \in {"queued", "sending", "waiting"}
          /\ Settle(i, "completed")
          /\ permits' = IF call[i].pc = "queued" THEN permits ELSE permits + 1
          /\ UNCHANGED <<line, locked>>
    /\ UNCHANGED <<hub, handler, closed, confirmed, budget>>

------------------------------------------------------------------------------
\* What a call does next by itself; a cancellation goes before everything else.
Proceed(i) ==
    \/ i \notin cancelled /\ (TakeTurn(i) \/ Recorded(i) \/ Dispatch(i) \/ Transmit(i)
                              \/ Finish(i) \/ TimeOut(i) \/ Return(i))
    \/ Unwind(i)

Next ==
    \/ \E k \in Connections :
        \/ Attach(k) \/ Greeted(k) \/ Drop(k) \/ End(k) \/ Ended(k)
        \/ \E i \in Calls, answer \in {"ok", "failed"} : Respond(k, i, answer)
    \/ \E i \in Calls :
        \/ \E b \in Bots, owner \in Connections \union {None} :
                BeginAction(i, b, owner) \/ Send(i, b, owner)
        \/ Proceed(i)
        \/ Cancel(i)

Spec == Init /\ [][Next]_vars

\* The event loop runs what is ready, a socket takes or refuses a frame, the database
\* answers, and wait_for ends the waiting.  Strong fairness stands for the semaphore's
\* queue, which passes nobody over.
FairSpec == Spec /\ \A i \in Calls : SF_vars(Proceed(i))

------------------------------------------------------------------------------
(* Properties *)

\* Nothing waits for an answer that nobody will read: a call that is neither answered
\* nor failed uses the connection that the hub has for its bot, and its handler reads or
\* is about to (replacing, losing and re-making connections in any order).
PendingHasReader ==
    \A i \in Calls : call[i].future = "pending" =>
        /\ hub[call[i].bot] = call[i].conn
        /\ handler[call[i].conn] \in {"greeting", "reading"}

\* However late the handlers of replaced connections end, a bot is reached over its
\* newest connection, and is unavailable only when that one has ended
\* (tests/test_onebot_actions.py: replacement is identity safe).
NewestIsReachable ==
    \A b \in Bots :
        LET attached == {k \in Connections : BotOf[k] = b /\ handler[k] # "new"}
            newest == {k \in attached : /\ \A l \in attached : l <= k
                                        /\ handler[k] \notin {"ending", "ended"}}
        IN  /\ hub[b] # None <=> newest # {}
            /\ newest \subseteq {hub[b]}

\* The messages to a bot go out in the order of send(), one at a time: while one is under
\* way, those that were sent later have not begun.
MessagesKeepOrder ==
    \A i, j \in Messages :
        /\ i < j
        /\ InFlight(i) /\ InFlight(j)
        /\ call[i].bot = call[j].bot
        => call[j].pc = "line"

\* Every call ends, and gives up its permit and its place in the line, whatever happens
\* to connections and tasks.
CallsEnd == \A i \in Calls : InFlight(i) ~> call[i].pc = "done"

\* An action that was sent and whose connection ends before the bot has confirmed it is not
\* recorded as completed (tests/test_onebot_actions.py asserts that an action that raised is
\* recorded as FAILED).
CompletedWasConfirmed ==
    [][\A i \in Calls :
        call[i].pc = "waiting" /\ handler[call[i].conn] = "ending"
            => (record'[i] = "completed" => i \in confirmed')]_vars
==============================================================================
