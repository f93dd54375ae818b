------------------------ MODULE OneBotTransportProofs ------------------------
(***************************************************************************)
(* TypeOK, PendingHasReader, NewestIsReachable and MessagesKeepOrder for   *)
(* any number of bots, connections, permits and calls.                     *)
(*                                                                         *)
(* The argument: connections are attached in their order, so that of a     *)
(* bot's connections the hub has the last, until that one ends; a future   *)
(* is registered with the hub's connection and failed by whatever takes    *)
(* that connection out of the hub.  Calls begin in their order, so that a  *)
(* bot's line is sorted, and whoever holds its lock comes before it.       *)
(***************************************************************************)
EXTENDS OneBotTransport, LineLemmas, FiniteSetTheorems, TLAPS

\* The places of a message that holds the lock of its bot, and of a call with a permit.
Holding == {"starting", "queued", "sending", "waiting", "finishing"}
Permitted == {"sending", "waiting"}

\* TypeOK but for what has to be counted.
RestTyped ==
    /\ hub \in [Bots -> Connections \union {None}]
    /\ handler \in [Connections -> {"new", "greeting", "reading", "ending", "ended"}]
    /\ closed \subseteq Connections
    /\ call \in [Calls -> Call]
    /\ cancelled \subseteq Calls
    /\ locked \subseteq Bots
    /\ line \in [Bots -> Seq(Calls)]
    /\ record \in [Calls -> {None, "running", "completed", "failed"}]
    /\ confirmed \subseteq Calls
    /\ budget \in Budgets

\* A call that is not under way has nothing; one under way has its bot.
CallsOK ==
    \A i \in Calls :
        /\ ~InFlight(i) => call[i] = NoCall(call[i].pc)
        /\ InFlight(i) => call[i].bot \in Bots
Shape == RestTyped /\ CallsOK

PermitOf == {i \in Calls : call[i].pc \in Permitted}
PermitsOK == permits \in Nat /\ permits + Cardinality(PermitOf) = MaxConcurrency

\* Connections are attached in their order, and the hub has the newest of each bot while
\* its handler has not ended.
Attached(k) == handler[k] # "new"
Alive(k) == handler[k] \in {"greeting", "reading"}
InOrder == \A k, l \in Connections : l < k /\ Attached(k) => Attached(l)
Newest(k) == \A l \in Connections : BotOf[l] = BotOf[k] /\ Attached(l) => l <= k
HubOK ==
    /\ \A b \in Bots : hub[b] # None =>
            hub[b] \in Connections /\ BotOf[hub[b]] = b /\ Alive(hub[b]) /\ Newest(hub[b])
    /\ \A k \in Connections : Alive(k) /\ Newest(k) => hub[BotOf[k]] = k

\* A future that can still be settled belongs to the hub's connection of its bot.
PendingOK ==
    \A i \in Calls : call[i].future = "pending" =>
        call[i].conn \in Connections /\ hub[call[i].bot] = call[i].conn

\* Calls begin in their order.
Began == \A i, j \in Calls : j < i /\ call[i].pc # "idle" => call[j].pc # "idle"

\* The line of a bot has the messages to it that wait, in the order of the calls.
Lined ==
    /\ \A b \in Bots : \A n \in 1..Len(line[b]) :
            /\ line[b][n] \in Messages
            /\ call[line[b][n]].pc = "line"
            /\ call[line[b][n]].bot = b
    /\ \A b \in Bots : \A m, n \in 1..Len(line[b]) : m < n => line[b][m] < line[b][n]
    /\ \A i \in Calls : call[i].pc = "line" =>
            \E n \in 1..Len(line[call[i].bot]) : line[call[i].bot][n] = i

\* Whoever is past the line has the lock of its bot, alone, and came before the others.
HoldsLock(i) == i \in Messages /\ call[i].pc \in Holding
Locked ==
    \A i \in Calls : HoldsLock(i) =>
        /\ call[i].bot \in locked
        /\ \A j \in Calls : HoldsLock(j) /\ call[j].bot = call[i].bot => j = i
        /\ \A n \in 1..Len(line[call[i].bot]) : i < line[call[i].bot][n]
Turns == Began /\ Lined /\ Locked

IInv == Shape /\ PermitsOK /\ InOrder /\ HubOK /\ PendingOK /\ Turns

------------------------------------------------------------------------------
(* Types, and what a call has at each of its places. *)

LEMMA CallTyped ==
    ASSUME Shape, NEW i \in Calls
    PROVE  /\ call[i] \in Call
           /\ call[i].future = "pending" => InFlight(i)
<1>1. call[i] \in Call
  BY DEF Shape, RestTyped
<1>2. \A p : NoCall(p).future = "none"
  BY DEF NoCall
<1>3. ~InFlight(i) => call[i] = NoCall(call[i].pc)
  BY DEF Shape, CallsOK
<1>4. call[i].future = "pending" => InFlight(i)
  BY <1>2, <1>3
<1> QED
  BY <1>1, <1>4

\* One call moves; the others have what they had.
LEMMA CallMoves ==
    ASSUME Shape, NEW i \in Calls, NEW c \in Call,
           call' = [call EXCEPT ![i] = c],
           c.pc \in {"idle", "done"} => c = NoCall(c.pc),
           c.pc \notin {"idle", "done"} => c.bot \in Bots
    PROVE  call' \in [Calls -> Call] /\ CallsOK'
<1>1. call \in [Calls -> Call]
  BY DEF Shape, RestTyped
<1>2. call' \in [Calls -> Call]
  BY <1>1
<1>3. \A j \in Calls : call'[j] = IF j = i THEN c ELSE call[j]
  BY <1>1
<1>4. CallsOK'
  BY <1>3 DEF Shape, CallsOK, InFlight, NoCall
<1> QED
  BY <1>2, <1>4

\* fail_pending changes the futures of the calls that it is for.
LEMMA Fails ==
    ASSUME Shape, NEW k \in Connections, FailPending(PendingOf(k))
    PROVE  /\ call' \in [Calls -> Call] /\ CallsOK'
           /\ \A i \in Calls :
                /\ call'[i].pc = call[i].pc
                /\ call'[i].bot = call[i].bot
                /\ call'[i].conn = call[i].conn
                /\ call'[i].future = "pending" => call[i].future = "pending" /\ call[i].conn # k
<1>1. call \in [Calls -> Call]
  BY DEF Shape, RestTyped
<1>2. ASSUME NEW i \in Calls
      PROVE  /\ call'[i] \in Call
             /\ call'[i].pc = call[i].pc
             /\ call'[i].bot = call[i].bot
             /\ call'[i].conn = call[i].conn
             /\ call'[i].future = "pending" => call[i].future = "pending" /\ call[i].conn # k
             /\ ~InFlight(i) => call'[i] = call[i]
  <2>0. call[i] \in Call
    BY <1>1
  <2>1. CASE i \in PendingOf(k)
    <3>1. call'[i] = [call[i] EXCEPT !.future = "failed"]
      BY <2>1 DEF FailPending
    <3>2. InFlight(i)
      BY <2>1, CallTyped DEF PendingOf
    <3> QED
      BY <2>0, <3>1, <3>2 DEF Call
  <2>2. CASE i \notin PendingOf(k)
    <3>1. call'[i] = call[i]
      BY <2>2 DEF FailPending
    <3> QED
      BY <2>0, <2>2, <3>1 DEF PendingOf
  <2> QED
    BY <2>1, <2>2
<1>3. call' \in [Calls -> Call]
  <2>1. call' = [i \in Calls |-> call'[i]]
    BY DEF FailPending
  <2> QED
    BY <1>2, <2>1
<1>4. CallsOK'
  BY <1>2 DEF Shape, CallsOK, InFlight
<1> QED
  BY <1>2, <1>3, <1>4

LEMMA SettleCall ==
    ASSUME Shape, NEW i \in Calls, NEW status \in {"completed", "failed"},
           InFlight(i), Settle(i, status)
    PROVE  /\ call' \in [Calls -> Call] /\ CallsOK'
           /\ record' \in [Calls -> {None, "running", "completed", "failed"}]
           /\ call'[i].pc = "finishing" /\ call'[i].bot = call[i].bot
           /\ call'[i].future = "none"
           /\ \A j \in Calls \ {i} : call'[j] = call[j]
<1> DEFINE c == [call[i] EXCEPT !.pc = "finishing", !.conn = None, !.future = "none"]
<1>1. call[i] \in Call /\ call \in [Calls -> Call]
  BY DEF Shape, RestTyped
<1>2. c \in Call /\ c.pc = "finishing" /\ c.bot = call[i].bot /\ c.future = "none"
  BY <1>1 DEF Call
<1>3. call' = [call EXCEPT ![i] = c]
  BY DEF Settle
<1>4. call[i].bot \in Bots
  BY DEF Shape, CallsOK
<1> HIDE DEF c
<1>5. call' \in [Calls -> Call] /\ CallsOK'
  BY <1>2, <1>3, <1>4, CallMoves
<1>6. record' \in [Calls -> {None, "running", "completed", "failed"}]
  BY DEF Shape, RestTyped, Settle
<1> QED
  BY <1>1, <1>2, <1>3, <1>5, <1>6

LEMMA MovesCall ==
    ASSUME Shape, NEW i \in Calls, InFlight(i),
           NEW p \in {"starting", "queued", "waiting"}, Moves(i, p)
    PROVE  /\ call' \in [Calls -> Call] /\ CallsOK'
           /\ call'[i] = [call[i] EXCEPT !.pc = p]
           /\ \A j \in Calls \ {i} : call'[j] = call[j]
<1> DEFINE c == [call[i] EXCEPT !.pc = p]
<1>1. call[i] \in Call /\ call \in [Calls -> Call]
  BY DEF Shape, RestTyped
<1>2. c \in Call /\ c.pc = p /\ c.bot = call[i].bot
  BY <1>1 DEF Call
<1>3. call' = [call EXCEPT ![i] = c]
  BY DEF Moves
<1>4. call[i].bot \in Bots
  BY DEF Shape, CallsOK
<1>5. call'[i] = c
  BY <1>1, <1>3
<1> HIDE DEF c
<1>6. call' \in [Calls -> Call] /\ CallsOK'
  BY <1>2, <1>3, <1>4, CallMoves
<1>7. \A j \in Calls \ {i} : call'[j] = call[j]
  BY <1>1, <1>3
<1> QED
  BY <1>5, <1>6, <1>7 DEF c

LEMMA EndsCall ==
    ASSUME Shape, NEW i \in Calls, Ends(i)
    PROVE  /\ call' \in [Calls -> Call] /\ CallsOK'
           /\ call'[i] = NoCall("done")
           /\ \A j \in Calls \ {i} : call'[j] = call[j]
<1>1. call \in [Calls -> Call]
  BY DEF Shape, RestTyped
<1>2. NoCall("done") \in Call /\ NoCall("done").pc = "done"
  BY DEF Call, NoCall
<1>3. call' = [call EXCEPT ![i] = NoCall("done")]
  BY DEF Ends
<1>4. call' \in [Calls -> Call] /\ CallsOK'
  BY <1>2, <1>3, CallMoves
<1> QED
  BY <1>1, <1>3, <1>4

LEMMA RegisterCall ==
    ASSUME Shape, NEW i \in Calls, InFlight(i), NEW k \in Connections, Register(i, k)
    PROVE  /\ call' \in [Calls -> Call] /\ CallsOK'
           /\ call'[i].pc = "sending" /\ call'[i].bot = call[i].bot
           /\ call'[i].conn = k
           /\ \A j \in Calls \ {i} : call'[j] = call[j]
<1> DEFINE c == [call[i] EXCEPT !.pc = "sending", !.conn = k, !.future = "pending"]
<1>1. call[i] \in Call /\ call \in [Calls -> Call]
  BY DEF Shape, RestTyped
<1>2. c \in Call /\ c.pc = "sending" /\ c.bot = call[i].bot /\ c.conn = k
  BY <1>1 DEF Call
<1>3. call' = [call EXCEPT ![i] = c]
  BY DEF Register
<1>4. call[i].bot \in Bots
  BY DEF Shape, CallsOK
<1> HIDE DEF c
<1>5. call' \in [Calls -> Call] /\ CallsOK'
  BY <1>2, <1>3, <1>4, CallMoves
<1> QED
  BY <1>1, <1>2, <1>3, <1>5

\* A call that has a permit fails or goes on to the hub's connection.
LEMMA UsePermitCall ==
    ASSUME Shape, NEW i \in Calls, InFlight(i), UsePermit(i)
    PROVE  /\ call' \in [Calls -> Call] /\ CallsOK'
           /\ record' \in [Calls -> {None, "running", "completed", "failed"}]
<1>1. CASE Settle(i, "failed")
  BY <1>1, SettleCall
<1>2. CASE /\ hub[call[i].bot] # None
           /\ Register(i, hub[call[i].bot]) /\ UNCHANGED record
  <2>1. hub[call[i].bot] \in Connections
    BY <1>2 DEF Shape, RestTyped, CallsOK
  <2> QED
    BY <1>2, <2>1, RegisterCall DEF Shape, RestTyped
<1> QED
  BY <1>1, <1>2 DEF UsePermit

\* A call of bot b begins, at its place in the line or past it.
Begins(i, b, owner, p) ==
    call' = [call EXCEPT ![i] = [@ EXCEPT !.pc = p, !.bot = b, !.owner = owner]]

LEMMA BeginsCall ==
    ASSUME Shape, NEW i \in Calls, call[i].pc = "idle",
           NEW b \in Bots, NEW owner \in Connections \union {None},
           NEW p \in {"line", "starting"}, Begins(i, b, owner, p)
    PROVE  /\ call' \in [Calls -> Call] /\ CallsOK'
           /\ call'[i].pc = p /\ call'[i].bot = b /\ call'[i].future = "none"
           /\ \A j \in Calls \ {i} : call'[j] = call[j]
<1> DEFINE c == [call[i] EXCEPT !.pc = p, !.bot = b, !.owner = owner]
<1>1. call[i] \in Call /\ call \in [Calls -> Call]
  BY DEF Shape, RestTyped
<1>2. call[i].future = "none" /\ ~InFlight(i)
  <2>1. call[i] = NoCall("idle") /\ ~InFlight(i)
    BY DEF Shape, CallsOK, InFlight
  <2> QED
    BY <2>1 DEF NoCall
<1>3. c \in Call /\ c.pc = p /\ c.bot = b /\ c.future = "none"
  BY <1>1, <1>2 DEF Call
<1>4. call' = [call EXCEPT ![i] = c]
  BY DEF Begins
<1> HIDE DEF c
<1>5. call' \in [Calls -> Call] /\ CallsOK'
  BY <1>3, <1>4, CallMoves
<1> QED
  BY <1>1, <1>3, <1>4, <1>5

\* The variables that an action of a connection or of a call changes keep their types.
LEMMA ShapeConnection ==
    ASSUME Shape, NEW k \in Connections,
           Attach(k) \/ Greeted(k) \/ Drop(k) \/ End(k) \/ Ended(k)
             \/ \E i \in Calls, answer \in {"ok", "failed"} : Respond(k, i, answer)
    PROVE  Shape'
<1>1. /\ BotOf[k] \in Bots
      /\ hub \in [Bots -> Connections \union {None}]
      /\ handler \in [Connections -> {"new", "greeting", "reading", "ending", "ended"}]
      /\ closed \subseteq Connections
      /\ cancelled \subseteq Calls
  BY BotOfAssumption DEF Shape, RestTyped
<1>2. CASE Attach(k)
  <2>1. call' \in [Calls -> Call] /\ CallsOK'
    <3>1. CASE UNCHANGED call
      BY <3>1 DEF Shape, RestTyped, CallsOK, InFlight
    <3>2. CASE hub[BotOf[k]] # None /\ FailPending(PendingOf(hub[BotOf[k]]))
      <4>1. hub[BotOf[k]] \in Connections
        BY <1>1, <3>2
      <4> QED
        BY <3>2, <4>1, Fails
    <3> QED
      BY <1>2, <3>1, <3>2 DEF Attach
  <2>2. closed' \subseteq Connections
    BY <1>1, <1>2 DEF Attach
  <2>3. hub' \in [Bots -> Connections \union {None}]
    BY <1>1, <1>2 DEF Attach
  <2>4. handler' \in [Connections -> {"new", "greeting", "reading", "ending", "ended"}]
    BY <1>1, <1>2 DEF Attach
  <2>5. UNCHANGED <<cancelled, locked, line, record, confirmed, budget>>
    BY <1>2 DEF Attach
  <2> QED
    BY <2>1, <2>2, <2>3, <2>4, <2>5 DEF Shape, RestTyped
<1>3. CASE End(k)
  <2>1. call' \in [Calls -> Call] /\ CallsOK'
    BY <1>3, Fails DEF End
  <2>2. hub' \in [Bots -> Connections \union {None}]
    BY <1>1, <1>3 DEF End
  <2>3. handler' \in [Connections -> {"new", "greeting", "reading", "ending", "ended"}]
    BY <1>1, <1>3 DEF End
  <2>4. cancelled' \subseteq Calls
    BY <1>1, <1>3 DEF End
  <2>5. UNCHANGED <<closed, locked, line, record, confirmed, budget>>
    BY <1>3 DEF End
  <2> QED
    BY <2>1, <2>2, <2>3, <2>4, <2>5 DEF Shape, RestTyped
<1>4. ASSUME NEW i \in Calls, NEW answer \in {"ok", "failed"}, Respond(k, i, answer)
      PROVE  Shape'
  <2> DEFINE c == [call[i] EXCEPT !.future = answer]
  <2>1. call[i] \in Call /\ InFlight(i)
    BY <1>4, CallTyped DEF Respond, PendingOf
  <2>2. call[i].bot \in Bots
    BY <2>1 DEF Shape, CallsOK
  <2>3. c \in Call /\ c.pc \notin {"idle", "done"} /\ c.bot \in Bots
    BY <2>1, <2>2 DEF Call, InFlight
  <2>4. call' = [call EXCEPT ![i] = c]
    BY <1>4 DEF Respond
  <2> HIDE DEF c
  <2>5. call' \in [Calls -> Call] /\ CallsOK'
    BY <2>3, <2>4, CallMoves
  <2> QED
    BY <1>4, <2>5 DEF Respond, Shape, RestTyped
<1>5. CASE Greeted(k) \/ Drop(k) \/ Ended(k)
  <2>1. handler' \in [Connections -> {"new", "greeting", "reading", "ending", "ended"}]
    BY <1>1, <1>5 DEF Greeted, Drop, Ended
  <2>2. closed' \subseteq Connections
    BY <1>1, <1>5 DEF Greeted, Drop, Ended
  <2>3. UNCHANGED <<hub, call, cancelled, locked, line, record, confirmed, budget>>
    BY <1>5 DEF Greeted, Drop, Ended
  <2> QED
    BY <2>1, <2>2, <2>3 DEF Shape, RestTyped, CallsOK, InFlight
<1> QED
  BY <1>2, <1>3, <1>4, <1>5

LEMMA BeginIsBegins ==
    ASSUME NEW i \in Calls, NEW b \in Bots, NEW owner \in Connections \union {None},
           BeginAction(i, b, owner) \/ Send(i, b, owner)
    PROVE  \E p \in {"line", "starting"} : call[i].pc = "idle" /\ Begins(i, b, owner, p)
<1>1. CASE BeginAction(i, b, owner)
  <2>1. call[i].pc = "idle" /\ Begins(i, b, owner, "starting")
    BY <1>1 DEF BeginAction, MayBegin, Begins
  <2> QED
    BY <2>1
<1>2. CASE Send(i, b, owner)
  <2>1. \/ call[i].pc = "idle" /\ Begins(i, b, owner, "starting")
        \/ call[i].pc = "idle" /\ Begins(i, b, owner, "line")
    BY <1>2 DEF Send, MayBegin, Begins
  <2> QED
    BY <2>1
<1> QED
  BY <1>1, <1>2

LEMMA ShapeBegin ==
    ASSUME Shape, NEW i \in Calls, NEW b \in Bots, NEW owner \in Connections \union {None},
           BeginAction(i, b, owner) \/ Send(i, b, owner)
    PROVE  Shape'
<1>1. call' \in [Calls -> Call] /\ CallsOK'
  BY BeginIsBegins, BeginsCall
<1>2. /\ locked \subseteq Bots
      /\ line \in [Bots -> Seq(Calls)]
      /\ record \in [Calls -> {None, "running", "completed", "failed"}]
  BY DEF Shape, RestTyped
<1>3. locked' \subseteq Bots
  BY <1>2 DEF BeginAction, Send
<1>4. line' \in [Bots -> Seq(Calls)]
  <2>1. line' = line \/ line' = [line EXCEPT ![b] = Append(line[b], i)]
    BY DEF BeginAction, Send
  <2>2. Append(line[b], i) \in Seq(Calls)
    BY <1>2
  <2> QED
    BY <1>2, <2>1, <2>2
<1>5. record' \in [Calls -> {None, "running", "completed", "failed"}]
  BY <1>2 DEF BeginAction, Send, BeginRecord
<1>6. UNCHANGED <<hub, handler, closed, cancelled, confirmed, budget>>
  BY DEF BeginAction, Send
<1> QED
  BY <1>1, <1>3, <1>4, <1>5, <1>6 DEF Shape, RestTyped

\* The calls that move by themselves: which of them moves, and how.
LEMMA ShapeProceed ==
    ASSUME Shape, Lined, NEW i \in Calls, Proceed(i)
    PROVE  Shape'
<1>1. /\ call[i] \in Call
      /\ cancelled \subseteq Calls
      /\ locked \subseteq Bots
      /\ line \in [Bots -> Seq(Calls)]
      /\ record \in [Calls -> {None, "running", "completed", "failed"}]
      /\ confirmed \subseteq Calls
      /\ hub \in [Bots -> Connections \union {None}]
  BY DEF Shape, RestTyped
<1>2. InFlight(i) => call[i].bot \in Bots
  BY DEF Shape, CallsOK
<1>3. CASE TakeTurn(i)
  <2>1. InFlight(i) /\ Moves(i, "starting")
    BY <1>3 DEF TakeTurn, InFlight
  <2>2. call' \in [Calls -> Call] /\ CallsOK'
    BY <2>1, MovesCall
  <2>3. Len(line[call[i].bot]) # 0
    <3>1. \E n \in 1..Len(line[call[i].bot]) : line[call[i].bot][n] = i
      BY <1>3 DEF Lined, TakeTurn
    <3> QED
      BY <3>1
  <2>4. line[call[i].bot] \in Seq(Calls)
    BY <1>1, <1>2, <2>1
  <2>5. Tail(line[call[i].bot]) \in Seq(Calls)
    BY <2>3, <2>4
  <2>6. line' \in [Bots -> Seq(Calls)]
    BY <1>1, <1>3, <2>5 DEF TakeTurn
  <2>7. locked' \subseteq Bots
    BY <1>1, <1>2, <1>3, <2>1 DEF TakeTurn
  <2>8. record' \in [Calls -> {None, "running", "completed", "failed"}]
    BY <1>1, <1>3 DEF TakeTurn, BeginRecord
  <2>9. UNCHANGED <<hub, handler, closed, cancelled, confirmed, budget>>
    BY <1>3 DEF TakeTurn
  <2> QED
    BY <2>2, <2>6, <2>7, <2>8, <2>9 DEF Shape, RestTyped
<1>4. CASE Recorded(i)
  <2>0. InFlight(i)
    BY <1>4 DEF Recorded, InFlight
  <2>1. CASE UsePermit(i)
    BY <1>4, <2>0, <2>1, UsePermitCall DEF Recorded, Shape, RestTyped
  <2>2. CASE Moves(i, "queued") /\ UNCHANGED record
    <3>1. call' \in [Calls -> Call] /\ CallsOK'
      BY <2>0, <2>2, MovesCall
    <3> QED
      BY <1>4, <2>2, <3>1 DEF Recorded, Shape, RestTyped
  <2> QED
    BY <1>4, <2>1, <2>2 DEF Recorded
<1>5. CASE Dispatch(i)
  <2>1. InFlight(i) /\ UsePermit(i)
    BY <1>5 DEF Dispatch, InFlight
  <2> QED
    BY <1>5, <2>1, UsePermitCall DEF Dispatch, Shape, RestTyped
<1>6. CASE Transmit(i)
  <2>0. InFlight(i)
    BY <1>6 DEF Transmit, InFlight
  <2>1. /\ call' \in [Calls -> Call] /\ CallsOK'
        /\ record' \in [Calls -> {None, "running", "completed", "failed"}]
    <3>1. CASE Settle(i, "failed")
      BY <2>0, <3>1, SettleCall
    <3>2. CASE Moves(i, "waiting") /\ UNCHANGED record
      BY <1>1, <2>0, <3>2, MovesCall
    <3> QED
      BY <1>6, <3>1, <3>2 DEF Transmit
  <2>2. UNCHANGED <<hub, handler, closed, cancelled, locked, line, confirmed, budget>>
    BY <1>6 DEF Transmit
  <2> QED
    BY <2>1, <2>2 DEF Shape, RestTyped
<1>7. CASE Finish(i) \/ TimeOut(i)
  <2>0. InFlight(i)
    BY <1>7 DEF Finish, TimeOut, InFlight
  <2>1. /\ call' \in [Calls -> Call] /\ CallsOK'
        /\ record' \in [Calls -> {None, "running", "completed", "failed"}]
    <3>1. Settle(i, "completed") \/ Settle(i, "failed")
      BY <1>7 DEF Finish, TimeOut
    <3> QED
      BY <2>0, <3>1, SettleCall
  <2>2. confirmed' \subseteq Calls
    BY <1>1, <1>7 DEF Finish, TimeOut
  <2>3. UNCHANGED <<hub, handler, closed, cancelled, locked, line, budget>>
    BY <1>7 DEF Finish, TimeOut
  <2> QED
    BY <2>1, <2>2, <2>3 DEF Shape, RestTyped
<1>8. CASE Return(i)
  <2>1. call' \in [Calls -> Call] /\ CallsOK'
    BY <1>8, EndsCall DEF Return
  <2>2. locked' \subseteq Bots
    BY <1>1, <1>8 DEF Return, LeaveLine
  <2>3. UNCHANGED <<hub, handler, closed, cancelled, line, record, confirmed, budget>>
    BY <1>8 DEF Return
  <2> QED
    BY <2>1, <2>2, <2>3 DEF Shape, RestTyped
<1>9. CASE Unwind(i)
  <2>1. cancelled' \subseteq Calls /\ UNCHANGED <<hub, handler, closed, confirmed, budget>>
    BY <1>1, <1>9 DEF Unwind
  <2>2. ASSUME call[i].pc = "line", Ends(i), UNCHANGED <<locked, permits, record>>,
               NEW n \in 1..Len(line[call[i].bot]),
               line' = [line EXCEPT ![call[i].bot] = RemoveAt(@, n)]
        PROVE  Shape'
    <3>1. call' \in [Calls -> Call] /\ CallsOK'
      BY <2>2, EndsCall
    <3>2. line[call[i].bot] \in Seq(Calls)
      BY <1>1, <1>2, <2>2 DEF InFlight
    <3>3. RemoveAt(line[call[i].bot], n) \in Seq(Calls)
      BY <3>2, RemoveAtSeq
    <3>4. line' \in [Bots -> Seq(Calls)]
      BY <1>1, <2>2, <3>3
    <3> QED
      BY <1>1, <2>1, <2>2, <3>1, <3>4 DEF Shape, RestTyped
  <2>3. CASE /\ Ends(i) /\ LeaveLine(i)
             /\ UNCHANGED <<line, permits, record>>
    <3>1. call' \in [Calls -> Call] /\ CallsOK'
      BY <2>3, EndsCall
    <3>2. locked' \subseteq Bots
      BY <1>1, <2>3 DEF LeaveLine
    <3> QED
      BY <1>1, <2>1, <2>3, <3>1, <3>2 DEF Shape, RestTyped
  <2>4. CASE /\ call[i].pc \in {"queued", "sending", "waiting"}
             /\ Settle(i, "completed")
             /\ UNCHANGED <<line, locked>>
    <3>1. /\ call' \in [Calls -> Call] /\ CallsOK'
          /\ record' \in [Calls -> {None, "running", "completed", "failed"}]
      BY <2>4, SettleCall DEF InFlight
    <3> QED
      BY <1>1, <2>1, <2>4, <3>1 DEF Shape, RestTyped
  <2> QED
    BY <1>9, <2>2, <2>3, <2>4 DEF Unwind
<1> QED
  BY <1>3, <1>4, <1>5, <1>6, <1>7, <1>8, <1>9 DEF Proceed

------------------------------------------------------------------------------
(* What a step of a call does to its permit, its future and its turn. *)

\* Only the call i moves; it keeps its bot until it is over.
Alone(i) ==
    /\ \A j \in Calls \ {i} : call'[j] = call[j]
    /\ call[i].pc # "idle" /\ call'[i].pc # "idle"
    /\ call'[i].bot = call[i].bot \/ call'[i].pc = "done"
    /\ UNCHANGED <<hub, handler, budget>>

\* A permit is taken, given back or neither, as the place of the call says.
Permits(i) ==
    \/ /\ (call[i].pc \in Permitted) = (call'[i].pc \in Permitted)
       /\ UNCHANGED permits
    \/ /\ call[i].pc \notin Permitted /\ call'[i].pc \in Permitted
       /\ permits > 0 /\ permits' = permits - 1
    \/ /\ call[i].pc \in Permitted /\ call'[i].pc \notin Permitted
       /\ permits' = permits + 1

\* A future is left alone or settled, or registered with the hub's connection.
Future(i) ==
    call'[i].future = "pending" =>
        \/ /\ call[i].future = "pending"
           /\ call'[i].conn = call[i].conn /\ call'[i].bot = call[i].bot
        \/ call'[i].conn \in Connections /\ hub[call'[i].bot] = call'[i].conn

\* The turn is kept, taken, given up or given back.
Turn(i) ==
    \/ /\ call[i].pc \in Holding /\ call'[i].pc \in Holding
       /\ call'[i].bot = call[i].bot
       /\ UNCHANGED <<line, locked>>
    \/ /\ TakeTurn(i)
       /\ call'[i].pc = "starting" /\ call'[i].bot = call[i].bot
    \/ /\ call[i].pc = "line" /\ call'[i].pc = "done"
       /\ \E n \in 1..Len(line[call[i].bot]) :
            /\ line[call[i].bot][n] = i
            /\ line' = [line EXCEPT ![call[i].bot] = RemoveAt(@, n)]
       /\ UNCHANGED locked
    \/ /\ call[i].pc \in Holding /\ call'[i].pc = "done"
       /\ LeaveLine(i)
       /\ UNCHANGED line

Effect(i) == Alone(i) /\ Permits(i) /\ Future(i) /\ Turn(i)

LEMMA EndsEffect ==
    ASSUME Shape, NEW i \in Calls, Ends(i), call[i].pc # "idle",
           UNCHANGED <<hub, handler, budget>>
    PROVE  /\ Alone(i) /\ Future(i)
           /\ call'[i].pc = "done"
<1>1. /\ call'[i] = NoCall("done")
      /\ \A j \in Calls \ {i} : call'[j] = call[j]
  BY EndsCall
<1>2. call'[i].pc = "done" /\ call'[i].future = "none"
  BY <1>1 DEF NoCall
<1> QED
  BY <1>1, <1>2 DEF Alone, Future

LEMMA SettleEffect ==
    ASSUME Shape, NEW i \in Calls, NEW status \in {"completed", "failed"},
           Settle(i, status), call[i].pc \in Holding,
           UNCHANGED <<hub, handler, budget, line, locked>>
    PROVE  Alone(i) /\ Future(i) /\ Turn(i) /\ call'[i].pc = "finishing"
<1>1. InFlight(i)
  BY DEF Holding, InFlight
<1>2. /\ call'[i].pc = "finishing" /\ call'[i].bot = call[i].bot
      /\ call'[i].future = "none"
      /\ \A j \in Calls \ {i} : call'[j] = call[j]
  BY <1>1, SettleCall
<1> QED
  BY <1>2 DEF Alone, Future, Turn, Holding

LEMMA MovesEffect ==
    ASSUME Shape, NEW i \in Calls, InFlight(i),
           NEW p \in {"starting", "queued", "waiting"}, Moves(i, p),
           UNCHANGED <<hub, handler, budget>>
    PROVE  /\ Alone(i) /\ Future(i)
           /\ call'[i].pc = p /\ call'[i].bot = call[i].bot
<1>1. /\ call'[i] = [call[i] EXCEPT !.pc = p]
      /\ \A j \in Calls \ {i} : call'[j] = call[j]
  BY MovesCall
<1>2. call[i] \in Call
  BY DEF Shape, RestTyped
<1>3. /\ call'[i].pc = p /\ call'[i].bot = call[i].bot
      /\ call'[i].conn = call[i].conn /\ call'[i].future = call[i].future
  BY <1>1, <1>2 DEF Call
<1> QED
  BY <1>1, <1>3 DEF Alone, Future, InFlight

LEMMA UsePermitEffect ==
    ASSUME Shape, NEW i \in Calls, call[i].pc \in Holding \ Permitted, permits > 0, UsePermit(i),
           UNCHANGED <<hub, handler, budget, line, locked>>
    PROVE  Effect(i)
<1>1. InFlight(i) /\ call[i].pc \in Holding /\ call[i].pc \notin Permitted
  BY DEF Holding, InFlight
<1>2. CASE Settle(i, "failed") /\ UNCHANGED permits
  BY <1>1, <1>2, SettleEffect DEF Effect, Permits, Permitted
<1>3. CASE /\ hub[call[i].bot] # None
           /\ Register(i, hub[call[i].bot]) /\ permits' = permits - 1
  <2>1. hub[call[i].bot] \in Connections
    BY <1>1, <1>3 DEF Shape, RestTyped, CallsOK
  <2>2. /\ call'[i].pc = "sending" /\ call'[i].bot = call[i].bot
        /\ call'[i].conn = hub[call[i].bot]
        /\ \A j \in Calls \ {i} : call'[j] = call[j]
    BY <1>1, <1>3, <2>1, RegisterCall
  <2>3. Alone(i)
    BY <1>1, <2>2 DEF Alone, InFlight
  <2>4. Permits(i)
    BY <1>1, <1>3, <2>2 DEF Permits, Permitted
  <2>5. Future(i)
    BY <2>1, <2>2 DEF Future
  <2>6. Turn(i)
    BY <1>1, <2>2 DEF Turn, Holding
  <2> QED
    BY <2>3, <2>4, <2>5, <2>6 DEF Effect
<1> QED
  BY <1>2, <1>3 DEF UsePermit

LEMMA ProceedEffect ==
    ASSUME Shape, NEW i \in Calls, Proceed(i)
    PROVE  Effect(i)
<1>1. /\ hub \in [Bots -> Connections \union {None}]
      /\ InFlight(i) => call[i].bot \in Bots
  BY DEF Shape, RestTyped, CallsOK
<1>2. CASE TakeTurn(i)
  <2>1. InFlight(i) /\ Moves(i, "starting") /\ UNCHANGED <<hub, handler, budget, permits>>
    BY <1>2 DEF TakeTurn, InFlight
  <2>2. /\ Alone(i) /\ Future(i)
        /\ call'[i].pc = "starting" /\ call'[i].bot = call[i].bot
    BY <2>1, MovesEffect
  <2> QED
    BY <1>2, <2>1, <2>2 DEF Effect, Permits, Turn, Permitted, TakeTurn
<1>3. CASE Recorded(i)
  <2>1. /\ InFlight(i) /\ call[i].pc = "starting" /\ call[i].pc \in Holding
        /\ UNCHANGED <<hub, handler, budget, line, locked>>
    BY <1>3 DEF Recorded, InFlight, Holding
  <2>2. CASE permits > 0 /\ UsePermit(i)
    BY <2>1, <2>2, UsePermitEffect DEF Permitted
  <2>3. CASE Moves(i, "queued") /\ UNCHANGED permits
    <3>1. /\ Alone(i) /\ Future(i)
          /\ call'[i].pc = "queued" /\ call'[i].bot = call[i].bot
      BY <2>1, <2>3, MovesEffect
    <3> QED
      BY <2>1, <2>3, <3>1 DEF Effect, Permits, Turn, Permitted, Holding
  <2> QED
    BY <1>3, <2>2, <2>3 DEF Recorded
<1>4. CASE Dispatch(i)
  <2>1. /\ call[i].pc = "queued" /\ call[i].pc \in Holding \ Permitted /\ permits > 0
        /\ UsePermit(i) /\ UNCHANGED <<hub, handler, budget, line, locked>>
    BY <1>4 DEF Dispatch, Holding, Permitted
  <2> QED
    BY <2>1, UsePermitEffect
<1>5. CASE Transmit(i)
  <2>1. /\ InFlight(i) /\ call[i].pc = "sending" /\ call[i].pc \in Holding
        /\ UNCHANGED <<hub, handler, budget, line, locked>>
    BY <1>5 DEF Transmit, InFlight, Holding
  <2>2. CASE Settle(i, "failed") /\ permits' = permits + 1
    BY <2>1, <2>2, SettleEffect DEF Effect, Permits, Permitted
  <2>3. CASE Moves(i, "waiting") /\ UNCHANGED permits
    <3>1. /\ Alone(i) /\ Future(i)
          /\ call'[i].pc = "waiting" /\ call'[i].bot = call[i].bot
      BY <2>1, <2>3, MovesEffect
    <3> QED
      BY <2>1, <2>3, <3>1 DEF Effect, Permits, Turn, Permitted, Holding
  <2> QED
    BY <1>5, <2>2, <2>3 DEF Transmit
<1>6. CASE Finish(i) \/ TimeOut(i)
  <2>1. /\ call[i].pc = "waiting" /\ call[i].pc \in Holding
        /\ permits' = permits + 1
        /\ UNCHANGED <<hub, handler, budget, line, locked>>
    BY <1>6 DEF Finish, TimeOut, Holding
  <2>2. Settle(i, "completed") \/ Settle(i, "failed")
    BY <1>6 DEF Finish, TimeOut
  <2>3. Alone(i) /\ Future(i) /\ Turn(i) /\ call'[i].pc = "finishing"
    BY <2>1, <2>2, SettleEffect
  <2> QED
    BY <2>1, <2>3 DEF Effect, Permits, Permitted
<1>7. CASE Return(i)
  <2>1. /\ call[i].pc = "finishing" /\ Ends(i) /\ LeaveLine(i)
        /\ UNCHANGED <<hub, handler, budget, permits, line>>
    BY <1>7 DEF Return
  <2> QED
    BY <2>1, EndsEffect DEF Effect, Permits, Turn, Permitted, Holding
<1>8. CASE Unwind(i)
  <2>1. UNCHANGED <<hub, handler, budget>>
    BY <1>8 DEF Unwind
  <2>2. ASSUME call[i].pc = "line", Ends(i), UNCHANGED <<locked, permits>>,
               \E n \in 1..Len(line[call[i].bot]) :
                    /\ line[call[i].bot][n] = i
                    /\ line' = [line EXCEPT ![call[i].bot] = RemoveAt(@, n)]
        PROVE  Effect(i)
    <3>1. Alone(i) /\ Future(i) /\ call'[i].pc = "done"
      BY <2>1, <2>2, EndsEffect
    <3>2. Permits(i)
      BY <2>2, <3>1 DEF Permits, Permitted
    <3>3. Turn(i)
      BY <2>2, <3>1 DEF Turn
    <3> QED
      BY <3>1, <3>2, <3>3 DEF Effect
  <2>3. CASE /\ call[i].pc \in {"starting", "finishing"}
             /\ Ends(i) /\ LeaveLine(i)
             /\ UNCHANGED <<line, permits>>
    BY <2>1, <2>3, EndsEffect DEF Effect, Permits, Turn, Permitted, Holding
  <2>4. CASE /\ call[i].pc \in {"queued", "sending", "waiting"}
             /\ Settle(i, "completed")
             /\ permits' = IF call[i].pc = "queued" THEN permits ELSE permits + 1
             /\ UNCHANGED <<line, locked>>
    <3>1. Alone(i) /\ Future(i) /\ Turn(i) /\ call'[i].pc = "finishing"
      BY <2>1, <2>4, SettleEffect DEF Holding
    <3> QED
      BY <2>4, <3>1 DEF Effect, Permits, Permitted
  <2> QED
    BY <1>8, <2>2, <2>3, <2>4 DEF Unwind
<1> QED
  BY <1>2, <1>3, <1>4, <1>5, <1>6, <1>7, <1>8 DEF Proceed

\* A call that begins has no permit and no future.
LEMMA BeginEffect ==
    ASSUME Shape, NEW i \in Calls, NEW b \in Bots, NEW owner \in Connections \union {None},
           BeginAction(i, b, owner) \/ Send(i, b, owner)
    PROVE  /\ \A j \in Calls \ {i} : call'[j] = call[j]
           /\ call[i].pc = "idle" /\ \A j \in 1..(i - 1) : call[j].pc # "idle"
           /\ call'[i].pc \in {"line", "starting"} /\ call'[i].bot = b
           /\ call'[i].future = "none"
           /\ UNCHANGED <<hub, handler, permits, budget>>
<1>1. PICK p \in {"line", "starting"} : call[i].pc = "idle" /\ Begins(i, b, owner, p)
  BY BeginIsBegins
<1>2. /\ call'[i].pc = p /\ call'[i].bot = b /\ call'[i].future = "none"
      /\ \A j \in Calls \ {i} : call'[j] = call[j]
  BY <1>1, BeginsCall
<1>3. /\ \A j \in 1..(i - 1) : call[j].pc # "idle"
      /\ UNCHANGED <<hub, handler, permits, budget>>
  BY DEF BeginAction, Send, MayBegin
<1> QED
  BY <1>1, <1>2, <1>3

\* A step of a connection changes no more of a call than its future, which it never makes
\* pending.
LEMMA ConnectionEffect ==
    ASSUME Shape, NEW k \in Connections,
           Attach(k) \/ Greeted(k) \/ Drop(k) \/ End(k) \/ Ended(k)
             \/ \E i \in Calls, answer \in {"ok", "failed"} : Respond(k, i, answer)
    PROVE  /\ \A i \in Calls :
                /\ call'[i].pc = call[i].pc
                /\ call'[i].bot = call[i].bot
                /\ call'[i].conn = call[i].conn
                /\ call'[i].future = "pending" => call[i].future = "pending"
           /\ UNCHANGED <<permits, line, locked, budget>>
<1>1. CASE UNCHANGED call
  BY <1>1 DEF Attach, Greeted, Drop, End, Ended, Respond
<1>2. ASSUME NEW l \in Connections, FailPending(PendingOf(l))
      PROVE  \A i \in Calls :
                /\ call'[i].pc = call[i].pc
                /\ call'[i].bot = call[i].bot
                /\ call'[i].conn = call[i].conn
                /\ call'[i].future = "pending" => call[i].future = "pending"
  BY <1>2, Fails
<1>3. CASE Attach(k)
  <2>1. \/ UNCHANGED call
        \/ hub[BotOf[k]] # None /\ FailPending(PendingOf(hub[BotOf[k]]))
    BY <1>3 DEF Attach
  <2>2. hub[BotOf[k]] \in Connections \union {None}
    BY BotOfAssumption DEF Shape, RestTyped
  <2> QED
    BY <1>1, <1>2, <1>3, <2>1, <2>2 DEF Attach
<1>4. CASE End(k)
  BY <1>2, <1>4 DEF End
<1>5. ASSUME NEW i \in Calls, NEW answer \in {"ok", "failed"}, Respond(k, i, answer)
      PROVE  /\ \A j \in Calls :
                /\ call'[j].pc = call[j].pc
                /\ call'[j].bot = call[j].bot
                /\ call'[j].conn = call[j].conn
                /\ call'[j].future = "pending" => call[j].future = "pending"
             /\ UNCHANGED <<permits, line, locked, budget>>
  <2>1. call[i] \in Call /\ call \in [Calls -> Call]
    BY DEF Shape, RestTyped
  <2>2. call' = [call EXCEPT ![i] = [call[i] EXCEPT !.future = answer]]
    BY <1>5 DEF Respond
  <2>3. UNCHANGED <<permits, line, locked, budget>>
    BY <1>5 DEF Respond
  <2> QED
    BY <2>1, <2>2, <2>3 DEF Call
<1>6. CASE Greeted(k) \/ Drop(k) \/ Ended(k)
  BY <1>1, <1>6 DEF Greeted, Drop, Ended
<1> QED
  BY <1>3, <1>4, <1>5, <1>6

\* The kinds of step: a connection's, the beginning of a call, a call's own, a cancellation.
ConnectionStep(k) ==
    Attach(k) \/ Greeted(k) \/ Drop(k) \/ End(k) \/ Ended(k)
      \/ \E i \in Calls, answer \in {"ok", "failed"} : Respond(k, i, answer)
BeginStep(i, b, owner) == BeginAction(i, b, owner) \/ Send(i, b, owner)

LEMMA Kinds ==
    ASSUME Next
    PROVE  \/ \E k \in Connections : ConnectionStep(k)
           \/ \E i \in Calls, b \in Bots, owner \in Connections \union {None} :
                BeginStep(i, b, owner)
           \/ \E i \in Calls : Proceed(i) \/ Cancel(i)
  BY DEF Next, ConnectionStep, BeginStep

LEMMA ShapeNext ==
    ASSUME Shape, Lined, Next
    PROVE  Shape'
<1>1. ASSUME NEW k \in Connections, ConnectionStep(k) PROVE Shape'
  BY <1>1, ShapeConnection DEF ConnectionStep
<1>2. ASSUME NEW i \in Calls, NEW b \in Bots, NEW owner \in Connections \union {None},
             BeginStep(i, b, owner)
      PROVE  Shape'
  BY <1>2, ShapeBegin DEF BeginStep
<1>3. ASSUME NEW i \in Calls, Cancel(i) PROVE Shape'
  BY <1>3 DEF Cancel, Shape, RestTyped, CallsOK, InFlight
<1> QED
  BY <1>1, <1>2, <1>3, ShapeProceed, Kinds

------------------------------------------------------------------------------
(* Permits are counted by the calls that have one. *)

LEMMA OneMore ==
    ASSUME NEW S \in SUBSET Calls, NEW i \in Calls \ S
    PROVE  Cardinality(S) \in Nat /\ Cardinality(S \union {i}) = Cardinality(S) + 1
<1>1. IsFiniteSet(Calls)
  BY BoundsAssumption, FS_Interval DEF Calls
<1> QED
  BY <1>1, FS_Subset, FS_CardinalityType, FS_AddElement

LEMMA OneLess ==
    ASSUME NEW S \in SUBSET Calls, NEW i \in S
    PROVE  Cardinality(S) \in Nat /\ Cardinality(S \ {i}) = Cardinality(S) - 1
<1>1. IsFiniteSet(Calls)
  BY BoundsAssumption, FS_Interval DEF Calls
<1> QED
  BY <1>1, FS_Subset, FS_CardinalityType, FS_RemoveElement

LEMMA PermitsSame ==
    ASSUME PermitsOK, UNCHANGED permits,
           \A i \in Calls : (call[i].pc \in Permitted) = (call'[i].pc \in Permitted)
    PROVE  PermitsOK'
<1>1. PermitOf' = PermitOf
  BY DEF PermitOf
<1> QED
  BY <1>1 DEF PermitsOK

LEMMA PermitsProceed ==
    ASSUME PermitsOK, NEW i \in Calls, Alone(i), Permits(i)
    PROVE  PermitsOK'
<1>1. \A j \in Calls \ {i} : call'[j] = call[j]
  BY DEF Alone
<1>2. CASE (call[i].pc \in Permitted) = (call'[i].pc \in Permitted) /\ UNCHANGED permits
  BY <1>1, <1>2, PermitsSame
<1>3. CASE /\ call[i].pc \notin Permitted /\ call'[i].pc \in Permitted
           /\ permits > 0 /\ permits' = permits - 1
  <2>1. i \notin PermitOf /\ PermitOf' = PermitOf \union {i} /\ PermitOf \subseteq Calls
    BY <1>1, <1>3 DEF PermitOf
  <2>2. Cardinality(PermitOf) \in Nat /\ Cardinality(PermitOf') = Cardinality(PermitOf) + 1
    BY <2>1, OneMore
  <2> QED
    BY <1>3, <2>2, ConcurrencyAssumption DEF PermitsOK
<1>4. CASE /\ call[i].pc \in Permitted /\ call'[i].pc \notin Permitted
           /\ permits' = permits + 1
  <2>1. i \in PermitOf /\ PermitOf' = PermitOf \ {i} /\ PermitOf \subseteq Calls
    BY <1>1, <1>4 DEF PermitOf
  <2>2. Cardinality(PermitOf) \in Nat /\ Cardinality(PermitOf') = Cardinality(PermitOf) - 1
    BY <2>1, OneLess
  <2> QED
    BY <1>4, <2>2, ConcurrencyAssumption DEF PermitsOK
<1> QED
  BY <1>2, <1>3, <1>4 DEF Permits

LEMMA PermitsNext ==
    ASSUME Shape, PermitsOK, Next
    PROVE  PermitsOK'
<1>1. ASSUME NEW k \in Connections, ConnectionStep(k) PROVE PermitsOK'
  BY <1>1, ConnectionEffect, PermitsSame DEF ConnectionStep
<1>2. ASSUME NEW i \in Calls, NEW b \in Bots, NEW owner \in Connections \union {None},
             BeginStep(i, b, owner)
      PROVE  PermitsOK'
  <2>1. /\ \A j \in Calls \ {i} : call'[j] = call[j]
        /\ call[i].pc = "idle" /\ call'[i].pc \in {"line", "starting"}
        /\ UNCHANGED permits
    BY <1>2, BeginEffect DEF BeginStep
  <2> QED
    BY <2>1, PermitsSame DEF Permitted
<1>3. ASSUME NEW i \in Calls, Cancel(i) PROVE PermitsOK'
  BY <1>3, PermitsSame DEF Cancel
<1>4. ASSUME NEW i \in Calls, Proceed(i) PROVE PermitsOK'
  BY <1>4, ProceedEffect, PermitsProceed DEF Effect
<1> QED
  BY <1>1, <1>2, <1>3, <1>4, Kinds

------------------------------------------------------------------------------
(* The hub has the newest connection of a bot, and its futures. *)

LEMMA HubSame ==
    ASSUME InOrder, HubOK, UNCHANGED <<hub, handler>>
    PROVE  InOrder' /\ HubOK'
  BY DEF InOrder, HubOK, Attached, Alive, Newest

\* A connection goes on without a change of the hub.
LEMMA HubGoesOn ==
    ASSUME Shape, InOrder, HubOK, NEW k \in Connections,
           NEW h \in {"reading", "ended"}, handler' = [handler EXCEPT ![k] = h],
           handler[k] # "new", Alive(k) <=> h = "reading", UNCHANGED hub
    PROVE  InOrder' /\ HubOK'
<1>1. handler \in [Connections -> {"new", "greeting", "reading", "ending", "ended"}]
  BY DEF Shape, RestTyped
<1>2. \A l \in Connections : (Attached(l)' = Attached(l)) /\ (Alive(l)' = Alive(l))
  BY <1>1 DEF Attached, Alive
<1>3. \A l \in Connections : Newest(l)' = Newest(l)
  BY <1>2 DEF Newest
<1> QED
  BY <1>2, <1>3 DEF InOrder, HubOK

LEMMA HubAttach ==
    ASSUME Shape, InOrder, HubOK, NEW k \in Connections, Attach(k)
    PROVE  InOrder' /\ HubOK'
<1>1. /\ handler \in [Connections -> {"new", "greeting", "reading", "ending", "ended"}]
      /\ hub \in [Bots -> Connections \union {None}]
      /\ BotOf \in [Connections -> Bots]
  BY BotOfAssumption DEF Shape, RestTyped
<1>2. /\ handler[k] = "new" /\ \A l \in 1..(k - 1) : handler[l] # "new"
      /\ hub' = [hub EXCEPT ![BotOf[k]] = k]
      /\ \/ handler' = [handler EXCEPT ![k] = "greeting"]
         \/ handler' = [handler EXCEPT ![k] = "reading"]
  BY DEF Attach
<1>3. /\ \A l \in Connections \ {k} :
            (Attached(l)' = Attached(l)) /\ (Alive(l)' = Alive(l))
      /\ Attached(k)' /\ Alive(k)' /\ ~Attached(k)
  BY <1>1, <1>2 DEF Attached, Alive
<1>4. \A l \in Connections : k < l => ~Attached(l)
  BY <1>3 DEF InOrder
<1>5. \A l \in Connections : l < k => Attached(l)
  BY <1>2 DEF Attached, Connections
<1>6. InOrder'
  BY <1>3, <1>4, <1>5 DEF InOrder, Connections
<1>7. Newest(k)'
  BY <1>3, <1>4 DEF Newest, Connections
<1>8. \A l \in Connections : BotOf[l] # BotOf[k] => Newest(l)' = Newest(l)
  BY <1>3 DEF Newest
<1>9. \A l \in Connections \ {k} : BotOf[l] = BotOf[k] => ~Newest(l)' \/ ~Alive(l)'
  <2> SUFFICES ASSUME NEW l \in Connections \ {k}, BotOf[l] = BotOf[k], Alive(l)'
               PROVE  ~Newest(l)'
    OBVIOUS
  <2>1. Attached(l)
    BY <1>3 DEF Attached, Alive
  <2>2. l < k
    BY <1>4, <2>1 DEF Connections
  <2> QED
    BY <1>3, <2>2 DEF Newest, Connections
<1>10. ASSUME NEW b \in Bots, hub'[b] # None
       PROVE  \E l \in Connections : hub'[b] = l /\ BotOf[l] = b /\ Alive(l)' /\ Newest(l)'
  <2>1. CASE b = BotOf[k]
    <3>1. hub'[b] = k
      BY <1>1, <1>2, <2>1
    <3> QED
      BY <1>3, <1>7, <2>1, <3>1
  <2>2. CASE b # BotOf[k]
    <3>1. hub'[b] = hub[b]
      BY <1>1, <1>2, <2>2
    <3>2. hub[b] \in Connections /\ BotOf[hub[b]] = b /\ Alive(hub[b]) /\ Newest(hub[b])
      BY <1>10, <3>1 DEF HubOK
    <3>3. hub[b] # k
      BY <2>2, <3>2
    <3> QED
      BY <1>3, <1>8, <2>2, <3>1, <3>2, <3>3
  <2> QED
    BY <2>1, <2>2
<1>11. ASSUME NEW l \in Connections, Alive(l)', Newest(l)' PROVE hub'[BotOf[l]] = l
  <2>1. CASE l = k
    BY <1>1, <1>2, <2>1
  <2>2. CASE l # k
    <3>1. BotOf[l] # BotOf[k]
      BY <1>9, <1>11, <2>2
    <3>2. Alive(l) /\ Newest(l)
      BY <1>3, <1>8, <1>11, <2>2, <3>1
    <3>3. hub[BotOf[l]] = l
      BY <3>2 DEF HubOK
    <3> QED
      BY <1>1, <1>2, <3>1, <3>3
  <2> QED
    BY <2>1, <2>2
<1> QED
  BY <1>6, <1>10, <1>11 DEF HubOK, Alive, Newest, Attached

LEMMA HubEnd ==
    ASSUME Shape, InOrder, HubOK, NEW k \in Connections, End(k)
    PROVE  InOrder' /\ HubOK'
<1>1. /\ handler \in [Connections -> {"new", "greeting", "reading", "ending", "ended"}]
      /\ hub \in [Bots -> Connections \union {None}]
      /\ BotOf \in [Connections -> Bots]
  BY BotOfAssumption DEF Shape, RestTyped
<1>2. /\ handler[k] = "reading"
      /\ handler' = [handler EXCEPT ![k] = "ending"]
      /\ hub' = IF hub[BotOf[k]] = k THEN [hub EXCEPT ![BotOf[k]] = None] ELSE hub
  BY DEF End
<1>3. /\ \A l \in Connections : Attached(l)' = Attached(l)
      /\ \A l \in Connections \ {k} : Alive(l)' = Alive(l)
      /\ ~Alive(k)'
  BY <1>1, <1>2 DEF Attached, Alive
<1>4. \A l \in Connections : Newest(l)' = Newest(l)
  BY <1>3 DEF Newest
<1>5. InOrder'
  BY <1>3 DEF InOrder
<1>6. ASSUME NEW b \in Bots, hub'[b] # None
      PROVE  \E l \in Connections : hub'[b] = l /\ BotOf[l] = b /\ Alive(l)' /\ Newest(l)'
  <2>1. hub'[b] = hub[b] /\ (b = BotOf[k] => hub[b] # k)
    BY <1>1, <1>2, <1>6
  <2>2. hub[b] \in Connections /\ BotOf[hub[b]] = b /\ Alive(hub[b]) /\ Newest(hub[b])
    BY <1>6, <2>1 DEF HubOK
  <2>3. hub[b] # k
    BY <2>1, <2>2
  <2> QED
    BY <1>3, <1>4, <2>1, <2>2, <2>3
<1>7. ASSUME NEW l \in Connections, Alive(l)', Newest(l)' PROVE hub'[BotOf[l]] = l
  <2>1. l # k
    BY <1>3, <1>7
  <2>2. hub[BotOf[l]] = l
    BY <1>3, <1>4, <1>7, <2>1 DEF HubOK
  <2> QED
    BY <1>1, <1>2, <2>1, <2>2
<1> QED
  BY <1>5, <1>6, <1>7 DEF HubOK, Alive, Newest, Attached

LEMMA HubNext ==
    ASSUME Shape, InOrder, HubOK, Next
    PROVE  InOrder' /\ HubOK'
<1>1. ASSUME NEW k \in Connections, ConnectionStep(k) PROVE InOrder' /\ HubOK'
  <2>1. CASE Greeted(k)
    BY <2>1, HubGoesOn DEF Greeted, Alive
  <2>2. CASE Ended(k)
    <3>1. /\ handler' = [handler EXCEPT ![k] = "ended"] /\ UNCHANGED hub
          /\ handler[k] = "ending"
      BY <2>2 DEF Ended
    <3>2. ~Alive(k) /\ handler[k] # "new"
      BY <3>1 DEF Alive
    <3> QED
      BY <3>1, <3>2, HubGoesOn
  <2>3. CASE Drop(k) \/ \E i \in Calls, answer \in {"ok", "failed"} : Respond(k, i, answer)
    BY <2>3, HubSame DEF Drop, Respond
  <2> QED
    BY <1>1, <2>1, <2>2, <2>3, HubAttach, HubEnd DEF ConnectionStep
<1>2. ASSUME NEW i \in Calls, NEW b \in Bots, NEW owner \in Connections \union {None},
             BeginStep(i, b, owner)
      PROVE  InOrder' /\ HubOK'
  BY <1>2, BeginEffect, HubSame DEF BeginStep
<1>3. ASSUME NEW i \in Calls, Cancel(i) PROVE InOrder' /\ HubOK'
  BY <1>3, HubSame DEF Cancel
<1>4. ASSUME NEW i \in Calls, Proceed(i) PROVE InOrder' /\ HubOK'
  BY <1>4, ProceedEffect, HubSame DEF Effect, Alone
<1> QED
  BY <1>1, <1>2, <1>3, <1>4, Kinds

\* What has a future is under way, over the hub's connection of its bot.
LEMMA PendingKept ==
    ASSUME PendingOK, UNCHANGED hub,
           \A i \in Calls : call'[i].future = "pending" =>
                \/ /\ call[i].future = "pending"
                   /\ call'[i].conn = call[i].conn /\ call'[i].bot = call[i].bot
                \/ call'[i].conn \in Connections /\ hub[call'[i].bot] = call'[i].conn
    PROVE  PendingOK'
  BY DEF PendingOK

LEMMA PendingConnection ==
    ASSUME Shape, PendingOK, NEW k \in Connections, Attach(k) \/ End(k)
    PROVE  PendingOK'
<1>1. /\ hub \in [Bots -> Connections \union {None}]
      /\ BotOf[k] \in Bots
      /\ \A i \in Calls : call[i].future = "pending" => call[i].bot \in Bots
  BY BotOfAssumption, CallTyped DEF Shape, RestTyped, CallsOK
<1> SUFFICES ASSUME NEW i \in Calls, call'[i].future = "pending"
             PROVE  call'[i].conn \in Connections /\ hub'[call'[i].bot] = call'[i].conn
  BY DEF PendingOK
<1>2. call[i].future = "pending" /\ call'[i].conn = call[i].conn /\ call'[i].bot = call[i].bot
  BY ConnectionEffect
<1>3. call[i].conn \in Connections /\ hub[call[i].bot] = call[i].conn /\ call[i].bot \in Bots
  BY <1>1, <1>2 DEF PendingOK
<1>4. CASE Attach(k)
  <2>1. call[i].bot # BotOf[k]
    <3>1. SUFFICES ASSUME call[i].bot = BotOf[k] PROVE FALSE
      OBVIOUS
    <3>2. hub[BotOf[k]] = call[i].conn /\ hub[BotOf[k]] # None
      BY <1>3, <3>1, NoneAssumption
    <3>3. FailPending(PendingOf(hub[BotOf[k]]))
      BY <1>4, <3>2 DEF Attach
    <3>4. call[i].conn # hub[BotOf[k]]
      BY <1>3, <3>2, <3>3, Fails
    <3> QED
      BY <3>2, <3>4
  <2> QED
    BY <1>1, <1>2, <1>3, <1>4, <2>1 DEF Attach
<1>5. CASE End(k)
  <2>1. call[i].conn # k
    BY <1>5, Fails DEF End
  <2> QED
    BY <1>1, <1>2, <1>3, <1>5, <2>1 DEF End
<1> QED
  BY <1>4, <1>5

LEMMA PendingNext ==
    ASSUME Shape, PendingOK, Next
    PROVE  PendingOK'
<1>1. ASSUME NEW k \in Connections, ConnectionStep(k) PROVE PendingOK'
  <2>1. CASE Attach(k) \/ End(k)
    BY <2>1, PendingConnection
  <2>2. CASE UNCHANGED hub
    BY <1>1, <2>2, ConnectionEffect, PendingKept DEF ConnectionStep
  <2> QED
    BY <1>1, <2>1, <2>2 DEF ConnectionStep, Greeted, Drop, Ended, Respond
<1>2. ASSUME NEW i \in Calls, NEW b \in Bots, NEW owner \in Connections \union {None},
             BeginStep(i, b, owner)
      PROVE  PendingOK'
  <2>1. /\ \A j \in Calls \ {i} : call'[j] = call[j]
        /\ call'[i].future = "none" /\ UNCHANGED hub
    BY <1>2, BeginEffect DEF BeginStep
  <2> QED
    BY <2>1, PendingKept
<1>3. ASSUME NEW i \in Calls, Cancel(i) PROVE PendingOK'
  BY <1>3, PendingKept DEF Cancel
<1>4. ASSUME NEW i \in Calls, Proceed(i) PROVE PendingOK'
  <2>1. Alone(i) /\ Future(i)
    BY <1>4, ProceedEffect DEF Effect
  <2> QED
    BY <2>1, PendingKept DEF Alone, Future
<1> QED
  BY <1>1, <1>2, <1>3, <1>4, Kinds

------------------------------------------------------------------------------
(* Turns: calls begin, wait and are served in their order. *)

LEMMA CallsAreNumbers == Calls \subseteq Nat
  BY BoundsAssumption DEF Calls

LEMMA MessagesAreCalls ==
    ASSUME Shape
    PROVE  /\ Messages \subseteq Calls
           /\ budget.actions \intersect Messages = {}
<1>1. budget \in [connections : 0..MaxConnections, actions : SUBSET Calls, messages : SUBSET Calls]
  BY BudgetsAssumption DEF Shape, RestTyped
<1>2. budget.actions \intersect budget.messages = {}
  BY BudgetsAssumption DEF Shape, RestTyped
<1> QED
  BY <1>1, <1>2 DEF Messages

LEMMA BeganSame ==
    ASSUME Began, \A i \in Calls : (call'[i].pc = "idle") = (call[i].pc = "idle")
    PROVE  Began'
  BY DEF Began

LEMMA BeganNext ==
    ASSUME Shape, Began, Next
    PROVE  Began'
<1>1. ASSUME NEW k \in Connections, ConnectionStep(k) PROVE Began'
  BY <1>1, ConnectionEffect, BeganSame DEF ConnectionStep
<1>2. ASSUME NEW i \in Calls, NEW b \in Bots, NEW owner \in Connections \union {None},
             BeginStep(i, b, owner)
      PROVE  Began'
  <2>1. /\ \A j \in Calls \ {i} : call'[j] = call[j]
        /\ call[i].pc = "idle" /\ call'[i].pc # "idle"
        /\ \A j \in 1..(i - 1) : call[j].pc # "idle"
    BY <1>2, BeginEffect DEF BeginStep
  <2>2. \A j \in Calls : j < i => j \in 1..(i - 1)
    BY BoundsAssumption DEF Calls
  <2>3. \A j \in Calls : i < j => call[j].pc = "idle"
    BY <2>1 DEF Began
  <2> QED
    BY <2>1, <2>2, <2>3, CallsAreNumbers DEF Began
<1>3. ASSUME NEW i \in Calls, Cancel(i) PROVE Began'
  BY <1>3, BeganSame DEF Cancel
<1>4. ASSUME NEW i \in Calls, Proceed(i) PROVE Began'
  <2>1. Alone(i)
    BY <1>4, ProceedEffect DEF Effect
  <2> QED
    BY <2>1, BeganSame DEF Alone
<1> QED
  BY <1>1, <1>2, <1>3, <1>4, Kinds

\* Who is in line, or has the lock, remains so.
LEMMA LinedSame ==
    ASSUME Shape, Lined, UNCHANGED <<line, budget>>,
           \A i \in Calls : (call'[i].pc = "line") = (call[i].pc = "line"),
           \A i \in Calls : call[i].pc = "line" => call'[i].bot = call[i].bot
    PROVE  Lined'
<1>1. Messages' = Messages /\ Messages \subseteq Calls
  BY MessagesAreCalls DEF Messages
<1>2. ASSUME NEW b \in Bots, NEW n \in 1..Len(line[b])
      PROVE  /\ line[b][n] \in Messages
             /\ call'[line[b][n]].pc = "line"
             /\ call'[line[b][n]].bot = b
  <2>1. /\ line[b][n] \in Messages
        /\ call[line[b][n]].pc = "line"
        /\ call[line[b][n]].bot = b
    BY DEF Lined
  <2> QED
    BY <1>1, <2>1
<1>3. \A b \in Bots : \A m, n \in 1..Len(line[b]) : m < n => line[b][m] < line[b][n]
  BY DEF Lined
<1>4. ASSUME NEW i \in Calls, call'[i].pc = "line"
      PROVE  \E n \in 1..Len(line[call'[i].bot]) : line[call'[i].bot][n] = i
  BY <1>4 DEF Lined
<1> QED
  BY <1>1, <1>2, <1>3, <1>4 DEF Lined

LEMMA TurnsSame ==
    ASSUME Shape, Lined, Locked, UNCHANGED <<line, locked, budget>>,
           \A i \in Calls : (call'[i].pc = "line") = (call[i].pc = "line"),
           \A i \in Messages : (call'[i].pc \in Holding) = (call[i].pc \in Holding),
           \A i \in Calls : call[i].pc = "line" \/ HoldsLock(i) => call'[i].bot = call[i].bot
    PROVE  Lined' /\ Locked'
<1>1. Lined'
  BY LinedSame
<1>2. \A i \in Calls : HoldsLock(i)' = HoldsLock(i)
  BY MessagesAreCalls DEF HoldsLock, Messages
<1>3. Locked'
  BY <1>2 DEF Locked
<1> QED
  BY <1>1, <1>3

\* A message begins: with the lock when nobody has it or waits, in line otherwise.
LEMMA TurnsSend ==
    ASSUME Shape, Turns, NEW i \in Calls, NEW b \in Bots,
           NEW owner \in Connections \union {None}, Send(i, b, owner)
    PROVE  Lined' /\ Locked'
<1>1. /\ \A j \in Calls \ {i} : call'[j] = call[j]
      /\ call[i].pc = "idle" /\ call'[i].bot = b
      /\ i \in Messages /\ UNCHANGED budget
  BY BeginEffect DEF Send
<1>2. line \in [Bots -> Seq(Calls)] /\ Messages' = Messages /\ Messages \subseteq Calls
  BY <1>1, MessagesAreCalls DEF Shape, RestTyped, Messages
<1>3. \A j \in Calls : call[j].pc # "idle" => j < i
  <2> SUFFICES ASSUME NEW j \in Calls, call[j].pc # "idle" PROVE j < i
    OBVIOUS
  <2>1. ~(i < j)
    BY <1>1 DEF Turns, Began
  <2>2. j # i
    BY <1>1
  <2> QED
    BY <2>1, <2>2, CallsAreNumbers
<1>4. \A j \in Calls \ {i} : HoldsLock(j)' = HoldsLock(j)
  BY <1>1, <1>2 DEF HoldsLock
<1>5. \A j \in Calls : HoldsLock(j) => j # i /\ j < i
  BY <1>1, <1>3 DEF HoldsLock, Holding
<1>6. CASE /\ b \notin locked /\ line[b] = <<>>
           /\ locked' = locked \union {b}
           /\ call'[i].pc = "starting"
           /\ UNCHANGED line
  <2>1. Lined'
    BY <1>1, <1>6, LinedSame DEF Turns
  <2>2. \A j \in Calls : HoldsLock(j) => call[j].bot # b
    BY <1>6 DEF Turns, Locked
  <2>3. Locked'
    <3> SUFFICES ASSUME NEW j \in Calls, HoldsLock(j)'
                 PROVE  /\ call'[j].bot \in locked'
                        /\ \A h \in Calls : HoldsLock(h)' /\ call'[h].bot = call'[j].bot => h = j
                        /\ \A n \in 1..Len(line'[call'[j].bot]) : j < line'[call'[j].bot][n]
      BY DEF Locked
    <3>1. CASE j = i
      <4>1. Len(line'[b]) = 0
        BY <1>6
      <4> QED
        BY <1>1, <1>4, <1>6, <2>2, <3>1, <4>1
    <3>2. CASE j # i
      <4>1. HoldsLock(j) /\ call'[j] = call[j] /\ call[j].bot # b
        BY <1>1, <1>4, <2>2, <3>2
      <4> QED
        BY <1>1, <1>4, <1>6, <4>1 DEF Turns, Locked
    <3> QED
      BY <3>1, <3>2
  <2> QED
    BY <2>1, <2>3
<1>7. CASE /\ line' = [line EXCEPT ![b] = Append(@, i)]
           /\ call'[i].pc = "line"
           /\ UNCHANGED locked
  <2> DEFINE s == line[b]
  <2>1. /\ s \in Seq(Calls)
        /\ \A n \in 1..Len(s) :
              s[n] \in Messages /\ call[s[n]].pc = "line" /\ call[s[n]].bot = b
        /\ \A m, n \in 1..Len(s) : m < n => s[m] < s[n]
    BY <1>2 DEF Turns, Lined
  <2>2. /\ Len(Append(s, i)) = Len(s) + 1
        /\ \A n \in 1..Len(s) : Append(s, i)[n] = s[n]
        /\ Append(s, i)[Len(s) + 1] = i
        /\ Len(s) \in Nat
    BY <2>1
  <2>3. line'[b] = Append(s, i) /\ \A c \in Bots \ {b} : line'[c] = line[c]
    BY <1>2, <1>7
  <2>4. \A n \in 1..Len(s) : s[n] \in Calls /\ s[n] < i /\ s[n] # i
    BY <1>2, <1>3, <1>1, <2>1
  <2> HIDE DEF s
  <2>5. ASSUME NEW c \in Bots, NEW n \in 1..Len(line'[c])
        PROVE  /\ line'[c][n] \in Messages
               /\ call'[line'[c][n]].pc = "line"
               /\ call'[line'[c][n]].bot = c
    <3>1. CASE c # b
      <4>1. /\ line[c][n] \in Messages /\ call[line[c][n]].pc = "line"
            /\ call[line[c][n]].bot = c /\ line'[c] = line[c]
        BY <2>3, <2>5, <3>1 DEF Turns, Lined
      <4> QED
        BY <1>1, <1>2, <4>1
    <3>2. CASE c = b /\ n = Len(s) + 1
      BY <1>1, <1>7, <2>2, <2>3, <3>2
    <3>3. CASE c = b /\ n \in 1..Len(s)
      BY <1>1, <2>1, <2>2, <2>3, <2>4, <3>3
    <3> QED
      BY <2>2, <2>3, <2>5, <3>1, <3>2, <3>3
  <2>6. ASSUME NEW c \in Bots, NEW m \in 1..Len(line'[c]), NEW n \in 1..Len(line'[c]), m < n
        PROVE  line'[c][m] < line'[c][n]
    <3>1. CASE c # b
      BY <2>3, <2>6, <3>1 DEF Turns, Lined
    <3>2. CASE c = b /\ n = Len(s) + 1
      <4>1. m \in 1..Len(s)
        BY <2>2, <2>3, <2>6, <3>2
      <4> QED
        BY <2>2, <2>3, <2>4, <3>2, <4>1
    <3>3. CASE c = b /\ n \in 1..Len(s)
      <4>1. m \in 1..Len(s)
        BY <2>2, <2>3, <2>6, <3>3
      <4> QED
        BY <2>1, <2>2, <2>3, <2>6, <3>3, <4>1
    <3> QED
      BY <2>2, <2>3, <2>6, <3>1, <3>2, <3>3
  <2>7. ASSUME NEW j \in Calls, call'[j].pc = "line"
        PROVE  \E n \in 1..Len(line'[call'[j].bot]) : line'[call'[j].bot][n] = j
    <3>1. CASE j = i
      <4>1. Len(s) + 1 \in 1..Len(line'[b]) /\ line'[b][Len(s) + 1] = i
        BY <2>2, <2>3
      <4> QED
        BY <1>1, <3>1, <4>1
    <3>2. CASE j # i
      <4>1. call'[j] = call[j] /\ call[j].bot \in Bots
        BY <1>1, <2>7, <3>2 DEF Shape, CallsOK, InFlight
      <4>2. PICK n \in 1..Len(line[call[j].bot]) : line[call[j].bot][n] = j
        BY <2>7, <4>1 DEF Turns, Lined
      <4>3. CASE call[j].bot = b
        <5>1. n \in 1..Len(line'[b]) /\ line'[b][n] = j
          BY <2>2, <2>3, <4>2, <4>3 DEF s
        <5> QED
          BY <4>1, <4>3, <5>1
      <4>4. CASE call[j].bot # b
        BY <2>3, <4>1, <4>2, <4>4
      <4> QED
        BY <4>3, <4>4
    <3> QED
      BY <3>1, <3>2
  <2>8. Lined'
    BY <1>2, <2>5, <2>6, <2>7 DEF Lined
  <2>9. Locked'
    <3> SUFFICES ASSUME NEW j \in Calls, HoldsLock(j)'
                 PROVE  /\ call'[j].bot \in locked'
                        /\ \A h \in Calls : HoldsLock(h)' /\ call'[h].bot = call'[j].bot => h = j
                        /\ \A n \in 1..Len(line'[call'[j].bot]) : j < line'[call'[j].bot][n]
      BY DEF Locked
    <3>1. ~HoldsLock(i)'
      BY <1>7 DEF HoldsLock, Holding
    <3>2. /\ HoldsLock(j) /\ call'[j] = call[j] /\ call[j].bot \in Bots
          /\ j < i
      BY <1>1, <1>4, <1>5, <3>1 DEF HoldsLock, Holding, Shape, CallsOK, InFlight
    <3>3. /\ call[j].bot \in locked
          /\ \A h \in Calls : HoldsLock(h) /\ call[h].bot = call[j].bot => h = j
          /\ \A n \in 1..Len(line[call[j].bot]) : j < line[call[j].bot][n]
      BY <3>2 DEF Turns, Locked
    <3>4. \A h \in Calls : HoldsLock(h)' /\ call'[h].bot = call'[j].bot => h = j
      BY <1>1, <1>4, <3>1, <3>2, <3>3
    <3>5. \A n \in 1..Len(line'[call[j].bot]) : j < line'[call[j].bot][n]
      <4>1. CASE call[j].bot # b
        BY <2>3, <3>2, <3>3, <4>1
      <4>2. CASE call[j].bot = b
        <5>1. \A n \in 1..Len(s) : j < s[n]
          BY <3>3, <4>2 DEF s
        <5>2. \A n \in 1..(Len(s) + 1) : n \in 1..Len(s) \/ n = Len(s) + 1
          BY <2>2
        <5> QED
          BY <2>2, <2>3, <3>2, <4>2, <5>1, <5>2
      <4> QED
        BY <4>1, <4>2
    <3> QED
      BY <1>7, <3>2, <3>3, <3>4, <3>5
  <2> QED
    BY <2>8, <2>9
<1>8. \/ /\ b \notin locked /\ line[b] = <<>>
         /\ locked' = locked \union {b}
         /\ call'[i].pc = "starting"
         /\ UNCHANGED line
      \/ /\ line' = [line EXCEPT ![b] = Append(@, i)]
         /\ call'[i].pc = "line"
         /\ UNCHANGED locked
  <2>1. \/ /\ b \notin locked /\ line[b] = <<>>
           /\ locked' = locked \union {b}
           /\ Begins(i, b, owner, "starting")
           /\ UNCHANGED line
        \/ /\ line' = [line EXCEPT ![b] = Append(@, i)]
           /\ Begins(i, b, owner, "line")
           /\ UNCHANGED locked
    BY DEF Send, Begins
  <2> QED
    BY <1>1, <2>1, BeginsCall
<1> QED
  BY <1>6, <1>7, <1>8

\* The call i leaves the line of b, where it had the place n.
Leaves(i, b, n) ==
    /\ line[b][n] = i
    /\ line' = [line EXCEPT ![b] = RemoveAt(@, n)]
    /\ call'[i].pc # "line"
    /\ \A j \in Calls \ {i} : call'[j] = call[j]
    /\ UNCHANGED budget

LEMMA LeavesLine ==
    ASSUME Shape, Lined, NEW i \in Calls, NEW b \in Bots, NEW n \in 1..Len(line[b]),
           Leaves(i, b, n)
    PROVE  /\ Lined'
           /\ \A c \in Bots \ {b} : line'[c] = line[c]
           /\ \A m \in 1..Len(line'[b]) : \E h \in 1..Len(line[b]) :
                line'[b][m] = line[b][h] /\ h # n
           /\ \A m \in 1..Len(line[b]) : m # n => line[b][m] # i
<1> DEFINE s == line[b]
           r == RemoveAt(s, n)
<1>0. /\ s[n] = i
      /\ line' = [line EXCEPT ![b] = r]
      /\ call'[i].pc # "line"
      /\ \A j \in Calls \ {i} : call'[j] = call[j]
      /\ UNCHANGED budget
  BY DEF Leaves
<1>1. /\ line \in [Bots -> Seq(Calls)] /\ s \in Seq(Calls)
      /\ Messages' = Messages /\ Messages \subseteq Calls
  BY <1>0, MessagesAreCalls DEF Shape, RestTyped, Messages
<1>2. /\ Len(r) = Len(s) - 1
      /\ \A m \in 1..(Len(s) - 1) : r[m] = IF m < n THEN s[m] ELSE s[m + 1]
      /\ Len(s) \in Nat
  <2>1. n \in 1..Len(s) /\ s \in Seq(Calls) /\ Len(s) \in Nat
    BY <1>1
  <2>2. /\ Len(r) = Len(s) - 1
        /\ \A m \in 1..(Len(s) - 1) : r[m] = IF m < n THEN s[m] ELSE s[m + 1]
    <3> HIDE DEF s
    <3> QED
      BY <2>1, RemoveAtSeq
  <2> QED
    BY <2>1, <2>2
<1>3. line'[b] = r /\ \A c \in Bots \ {b} : line'[c] = line[c]
  BY <1>0, <1>1
<1>4. /\ \A m \in 1..Len(s) : s[m] \in Messages /\ call[s[m]].pc = "line" /\ call[s[m]].bot = b
      /\ \A l, m \in 1..Len(s) : l < m => s[l] < s[m]
      /\ s[n] = i
  BY <1>0 DEF Lined
<1> HIDE DEF s, r
<1>5. n \in 1..Len(s)
  BY DEF s
<1>6. \A m \in 1..Len(s) : m # n => s[m] # i
  <2> SUFFICES ASSUME NEW m \in 1..Len(s), m # n, s[m] = i PROVE FALSE
    OBVIOUS
  <2>1. m < n \/ n < m
    BY <1>2, <1>5
  <2>2. s[m] < s[n] \/ s[n] < s[m]
    BY <1>4, <1>5, <2>1
  <2> QED
    BY <1>4, <2>2, CallsAreNumbers
<1>7. ASSUME NEW m \in 1..Len(r)
      PROVE  \E h \in 1..Len(s) : r[m] = s[h] /\ h # n
  <2>1. CASE m < n
    BY <1>2, <1>5, <2>1
  <2>2. CASE ~(m < n)
    <3>1. m + 1 \in 1..Len(s) /\ m + 1 # n /\ r[m] = s[m + 1]
      BY <1>2, <1>5, <2>2
    <3> QED
      BY <3>1
  <2> QED
    BY <2>1, <2>2
<1>8. ASSUME NEW l \in 1..Len(r), NEW m \in 1..Len(r), l < m
      PROVE  r[l] < r[m]
  <2> DEFINE L == IF l < n THEN l ELSE l + 1
             M == IF m < n THEN m ELSE m + 1
  <2>1. /\ L \in 1..Len(s) /\ M \in 1..Len(s) /\ L < M
        /\ r[l] = s[L] /\ r[m] = s[M]
    BY <1>2, <1>5, <1>8
  <2> QED
    BY <1>4, <2>1
<1>9. ASSUME NEW m \in 1..Len(s), m # n
      PROVE  \E h \in 1..Len(r) : r[h] = s[m]
  <2>1. CASE m < n
    <3>1. m \in 1..Len(r) /\ r[m] = s[m]
      BY <1>2, <1>5, <2>1
    <3> QED
      BY <3>1
  <2>2. CASE ~(m < n)
    <3>1. m - 1 \in 1..Len(r) /\ r[m - 1] = s[m]
      BY <1>2, <1>5, <1>9, <2>2
    <3> QED
      BY <3>1
  <2> QED
    BY <2>1, <2>2
<1>10. ASSUME NEW c \in Bots, NEW m \in 1..Len(line'[c])
       PROVE  /\ line'[c][m] \in Messages
              /\ call'[line'[c][m]].pc = "line"
              /\ call'[line'[c][m]].bot = c
  <2>1. CASE c # b
    <3>1. /\ line'[c] = line[c]
          /\ line[c][m] \in Messages /\ call[line[c][m]].pc = "line" /\ call[line[c][m]].bot = c
      BY <1>3, <1>10, <2>1 DEF Lined
    <3>2. line[c][m] # i
      BY <1>4, <2>1, <3>1, <1>5
    <3> QED
      BY <1>0, <1>1, <3>1, <3>2
  <2>2. CASE c = b
    <3>1. PICK h \in 1..Len(s) : line'[c][m] = s[h] /\ h # n
      BY <1>3, <1>7, <1>10, <2>2
    <3> QED
      BY <1>0, <1>1, <1>4, <1>6, <2>2, <3>1
  <2> QED
    BY <2>1, <2>2
<1>11. \A c \in Bots : \A l, m \in 1..Len(line'[c]) : l < m => line'[c][l] < line'[c][m]
  BY <1>3, <1>8 DEF Lined
<1>12. ASSUME NEW j \in Calls, call'[j].pc = "line"
       PROVE  \E m \in 1..Len(line'[call'[j].bot]) : line'[call'[j].bot][m] = j
  <2>1. call'[j] = call[j] /\ j # i /\ call[j].bot \in Bots
    BY <1>0, <1>12 DEF Shape, CallsOK, InFlight
  <2>2. PICK m \in 1..Len(line[call[j].bot]) : line[call[j].bot][m] = j
    BY <1>12, <2>1 DEF Lined
  <2>3. CASE call[j].bot # b
    BY <1>3, <2>1, <2>2, <2>3
  <2>4. CASE call[j].bot = b
    <3>1. m \in 1..Len(s) /\ m # n /\ s[m] = j
      BY <1>4, <2>1, <2>2, <2>4 DEF s
    <3>2. PICK h \in 1..Len(r) : r[h] = j
      BY <1>9, <3>1
    <3> QED
      BY <1>3, <2>1, <2>4, <3>2
  <2> QED
    BY <2>3, <2>4
<1>13. Lined'
  BY <1>1, <1>10, <1>11, <1>12 DEF Lined
<1> QED
  BY <1>3, <1>6, <1>7, <1>13 DEF s

\* The first in line takes the lock.
LEMMA TurnsTaken ==
    ASSUME Shape, Lined, Locked, NEW i \in Calls, TakeTurn(i), Alone(i),
           call'[i].pc = "starting", call'[i].bot = call[i].bot
    PROVE  Lined' /\ Locked'
<1> DEFINE b == call[i].bot
           s == line[b]
<1>1. /\ call[i].pc = "line" /\ b \notin locked /\ Head(s) = i
      /\ locked' = locked \union {b} /\ line' = [line EXCEPT ![b] = Tail(@)]
      /\ \A j \in Calls \ {i} : call'[j] = call[j]
      /\ UNCHANGED budget
  BY DEF TakeTurn, Alone
<1>2. b \in Bots
  BY <1>1 DEF Shape, CallsOK, InFlight
<1>3. s \in Seq(Calls) /\ line \in [Bots -> Seq(Calls)]
  BY <1>2 DEF Shape, RestTyped
<1>4. 1 \in 1..Len(s)
  <2>1. \E n \in 1..Len(s) : s[n] = i
    BY <1>1 DEF Lined
  <2> QED
    BY <1>3, <2>1
<1>5. s[1] = i /\ Tail(s) = RemoveAt(s, 1)
  <2>1. s[1] = i
    BY <1>1, <1>3, <1>4
  <2>2. Tail(s) = RemoveAt(s, 1)
    <3>1. Len(s) # 0
      BY <1>4
    <3> HIDE DEF s
    <3> QED
      BY <1>3, <3>1, TailLeaves
  <2> QED
    BY <2>1, <2>2
<1>6. /\ Lined'
      /\ \A c \in Bots \ {b} : line'[c] = line[c]
      /\ \A m \in 1..Len(line'[b]) : \E h \in 1..Len(s) : line'[b][m] = s[h] /\ h # 1
  <2>1. Leaves(i, b, 1)
    BY <1>1, <1>5 DEF Leaves
  <2> HIDE DEF b
  <2> QED
    BY <1>2, <1>4, <2>1, LeavesLine
<1>7. \A h \in 1..Len(s) : h # 1 => i < s[h]
  <2>1. \A l, m \in 1..Len(s) : l < m => s[l] < s[m]
    BY <1>2 DEF Lined
  <2>2. \A h \in 1..Len(s) : h # 1 => 1 < h
    BY <1>3
  <2> QED
    BY <1>4, <1>5, <2>1, <2>2
<1>8. Messages' = Messages /\ i \in Messages
  <2>1. s[1] \in Messages
    BY <1>2, <1>4 DEF Lined
  <2> QED
    BY <1>1, <1>5, <2>1 DEF Messages
<1>9. /\ \A j \in Calls \ {i} : HoldsLock(j)' = HoldsLock(j)
      /\ ~HoldsLock(i)
  BY <1>1, <1>8 DEF HoldsLock, Holding
<1>10. \A j \in Calls : HoldsLock(j) => call[j].bot # b /\ call[j].bot \in Bots
  <2>1. \A j \in Calls : HoldsLock(j) => call[j].bot \in locked
    BY DEF Locked
  <2> QED
    BY <1>1, <2>1 DEF Shape, RestTyped
<1> HIDE DEF b, s
<1>11. Locked'
  <2> SUFFICES ASSUME NEW j \in Calls, HoldsLock(j)'
               PROVE  /\ call'[j].bot \in locked'
                      /\ \A h \in Calls : HoldsLock(h)' /\ call'[h].bot = call'[j].bot => h = j
                      /\ \A n \in 1..Len(line'[call'[j].bot]) : j < line'[call'[j].bot][n]
    BY DEF Locked
  <2>1. CASE j = i
    <3>1. call'[j].bot = b /\ call'[j].bot \in locked'
      BY <1>1, <2>1 DEF b
    <3>2. \A h \in Calls \ {i} : HoldsLock(h)' => call'[h].bot # b
      BY <1>1, <1>9, <1>10
    <3>3. \A n \in 1..Len(line'[b]) : j < line'[b][n]
      BY <1>6, <1>7, <2>1
    <3> QED
      BY <2>1, <3>1, <3>2, <3>3
  <2>2. CASE j # i
    <3>1. HoldsLock(j) /\ call'[j] = call[j] /\ call[j].bot # b /\ call[j].bot \in Bots
      BY <1>1, <1>9, <1>10, <2>2
    <3>2. /\ call[j].bot \in locked
          /\ \A h \in Calls : HoldsLock(h) /\ call[h].bot = call[j].bot => h = j
          /\ \A n \in 1..Len(line[call[j].bot]) : j < line[call[j].bot][n]
      BY <3>1 DEF Locked
    <3>3. \A h \in Calls : HoldsLock(h)' /\ call'[h].bot = call'[j].bot => h = j
      <4>1. call'[i].bot # call'[j].bot
        BY <3>1 DEF b
      <4> QED
        BY <1>1, <1>9, <3>1, <3>2, <4>1
    <3> QED
      BY <1>1, <1>6, <3>1, <3>2, <3>3
  <2> QED
    BY <2>1, <2>2
<1> QED
  BY <1>6, <1>11

\* One that waits is cancelled.
LEMMA TurnsCancelled ==
    ASSUME Shape, Lined, Locked, NEW i \in Calls, Alone(i),
           call[i].pc = "line", call'[i].pc = "done",
           NEW n \in 1..Len(line[call[i].bot]), line[call[i].bot][n] = i,
           line' = [line EXCEPT ![call[i].bot] = RemoveAt(@, n)],
           UNCHANGED locked
    PROVE  Lined' /\ Locked'
<1> DEFINE b == call[i].bot
<1>1. /\ b \in Bots
      /\ \A j \in Calls \ {i} : call'[j] = call[j]
      /\ UNCHANGED budget
  BY DEF Shape, CallsOK, InFlight, Alone
<1>2. /\ Lined'
      /\ \A c \in Bots \ {b} : line'[c] = line[c]
      /\ \A m \in 1..Len(line'[b]) : \E h \in 1..Len(line[b]) : line'[b][m] = line[b][h]
  <2>1. n \in 1..Len(line[b]) /\ Leaves(i, b, n)
    BY <1>1 DEF Leaves
  <2> HIDE DEF b
  <2> QED
    BY <1>1, <2>1, LeavesLine
<1>3. /\ \A j \in Calls \ {i} : HoldsLock(j)' = HoldsLock(j)
      /\ ~HoldsLock(i)'
  BY <1>1 DEF HoldsLock, Holding, Messages
<1>4. Locked'
  <2> SUFFICES ASSUME NEW j \in Calls, HoldsLock(j)'
               PROVE  /\ call'[j].bot \in locked'
                      /\ \A h \in Calls : HoldsLock(h)' /\ call'[h].bot = call'[j].bot => h = j
                      /\ \A m \in 1..Len(line'[call'[j].bot]) : j < line'[call'[j].bot][m]
    BY DEF Locked
  <2>1. HoldsLock(j) /\ call'[j] = call[j] /\ j # i
    BY <1>1, <1>3
  <2>2. /\ call[j].bot \in locked
        /\ \A h \in Calls : HoldsLock(h) /\ call[h].bot = call[j].bot => h = j
        /\ \A m \in 1..Len(line[call[j].bot]) : j < line[call[j].bot][m]
    BY <2>1 DEF Locked
  <2>3. call[j].bot \in Bots
    BY <2>2 DEF Shape, RestTyped
  <2>4. \A h \in Calls : HoldsLock(h)' /\ call'[h].bot = call'[j].bot => h = j
    BY <1>1, <1>3, <2>1, <2>2
  <2>5. \A m \in 1..Len(line'[call[j].bot]) : j < line'[call[j].bot][m]
    BY <1>2, <2>2, <2>3
  <2> QED
    BY <2>1, <2>2, <2>4, <2>5
<1> QED
  BY <1>2, <1>4

\* The lock is given back.
LEMMA TurnsReleased ==
    ASSUME Shape, Lined, Locked, NEW i \in Calls, Alone(i),
           call[i].pc \in Holding, call'[i].pc = "done", LeaveLine(i),
           UNCHANGED line
    PROVE  Lined' /\ Locked'
<1>1. /\ \A j \in Calls \ {i} : call'[j] = call[j]
      /\ UNCHANGED budget
      /\ call[i].pc # "line"
  BY DEF Alone, Holding
<1>2. Lined'
  BY <1>1, LinedSame
<1>3. /\ \A j \in Calls \ {i} : HoldsLock(j)' = HoldsLock(j)
      /\ ~HoldsLock(i)'
      /\ HoldsLock(i) <=> i \in Messages
  BY <1>1 DEF HoldsLock, Holding, Messages
<1>4. Locked'
  <2> SUFFICES ASSUME NEW j \in Calls, HoldsLock(j)'
               PROVE  /\ call'[j].bot \in locked'
                      /\ \A h \in Calls : HoldsLock(h)' /\ call'[h].bot = call'[j].bot => h = j
                      /\ \A m \in 1..Len(line'[call'[j].bot]) : j < line'[call'[j].bot][m]
    BY DEF Locked
  <2>1. HoldsLock(j) /\ call'[j] = call[j] /\ j # i
    BY <1>1, <1>3
  <2>2. /\ call[j].bot \in locked
        /\ \A h \in Calls : HoldsLock(h) /\ call[h].bot = call[j].bot => h = j
        /\ \A m \in 1..Len(line[call[j].bot]) : j < line[call[j].bot][m]
    BY <2>1 DEF Locked
  <2>3. call[j].bot \in locked'
    <3>1. i \in Messages => call[i].bot # call[j].bot
      BY <1>3, <2>1, <2>2
    <3> QED
      BY <2>2, <3>1 DEF LeaveLine
  <2>4. \A h \in Calls : HoldsLock(h)' /\ call'[h].bot = call'[j].bot => h = j
    BY <1>1, <1>3, <2>1, <2>2
  <2> QED
    BY <2>1, <2>2, <2>3, <2>4
<1> QED
  BY <1>2, <1>4

LEMMA TurnsProceed ==
    ASSUME Shape, Lined, Locked, NEW i \in Calls, Alone(i), Turn(i)
    PROVE  Lined' /\ Locked'
<1>1. /\ \A j \in Calls \ {i} : call'[j] = call[j]
      /\ UNCHANGED budget
  BY DEF Alone
<1>2. CASE /\ call[i].pc \in Holding /\ call'[i].pc \in Holding
           /\ call'[i].bot = call[i].bot
           /\ UNCHANGED <<line, locked>>
  <2>1. call[i].pc # "line" /\ call'[i].pc # "line"
    BY <1>2 DEF Holding
  <2>2. \A j \in Calls : (call'[j].pc = "line") = (call[j].pc = "line")
    BY <1>1, <2>1
  <2>3. \A j \in Messages : (call'[j].pc \in Holding) = (call[j].pc \in Holding)
    BY <1>1, <1>2, MessagesAreCalls
  <2>4. \A j \in Calls : call'[j].bot = call[j].bot
    BY <1>1, <1>2
  <2> QED
    BY <1>1, <1>2, <2>2, <2>3, <2>4, TurnsSame
<1> QED
  BY <1>2, TurnsTaken, TurnsCancelled, TurnsReleased DEF Turn

LEMMA TurnsNext ==
    ASSUME Shape, Turns, Next
    PROVE  Turns'
<1>1. Lined /\ Locked /\ Messages \subseteq Calls
  BY MessagesAreCalls DEF Turns
<1>2. ASSUME NEW k \in Connections, ConnectionStep(k) PROVE Lined' /\ Locked'
  <2>1. /\ \A i \in Calls : call'[i].pc = call[i].pc /\ call'[i].bot = call[i].bot
        /\ UNCHANGED <<line, locked, budget>>
    BY <1>2, ConnectionEffect DEF ConnectionStep
  <2> QED
    BY <1>1, <2>1, TurnsSame
<1>3. ASSUME NEW i \in Calls, NEW b \in Bots, NEW owner \in Connections \union {None},
             BeginAction(i, b, owner)
      PROVE  Lined' /\ Locked'
  <2>1. /\ \A j \in Calls \ {i} : call'[j] = call[j]
        /\ call[i].pc = "idle" /\ call'[i].pc = "starting"
        /\ i \notin Messages
        /\ UNCHANGED <<line, locked, budget>>
    <3>1. Begins(i, b, owner, "starting") /\ call[i].pc = "idle" /\ i \in budget.actions
      BY <1>3 DEF BeginAction, Begins, MayBegin
    <3>2. /\ \A j \in Calls \ {i} : call'[j] = call[j]
          /\ call'[i].pc = "starting"
      BY <3>1, BeginsCall
    <3>3. UNCHANGED <<line, locked, budget>>
      BY <1>3 DEF BeginAction
    <3> QED
      BY <3>1, <3>2, <3>3, MessagesAreCalls
  <2>2. \A j \in Calls : (call'[j].pc = "line") = (call[j].pc = "line")
    BY <2>1
  <2>3. \A j \in Messages : (call'[j].pc \in Holding) = (call[j].pc \in Holding)
    BY <1>1, <2>1
  <2>4. \A j \in Calls : call[j].pc = "line" \/ HoldsLock(j) => call'[j].bot = call[j].bot
    BY <2>1 DEF HoldsLock
  <2> QED
    BY <1>1, <2>1, <2>2, <2>3, <2>4, TurnsSame
<1>4. ASSUME NEW i \in Calls, Cancel(i) PROVE Lined' /\ Locked'
  <2>1. UNCHANGED <<call, line, locked, budget>>
    BY <1>4 DEF Cancel
  <2> QED
    BY <1>1, <2>1, TurnsSame
<1>5. ASSUME NEW i \in Calls, Proceed(i) PROVE Lined' /\ Locked'
  BY <1>1, <1>5, ProceedEffect, TurnsProceed DEF Effect
<1>6. Lined' /\ Locked'
  BY <1>2, <1>3, <1>4, <1>5, TurnsSend, Kinds DEF BeginStep
<1>7. Began'
  BY BeganNext DEF Turns
<1> QED
  BY <1>6, <1>7 DEF Turns

------------------------------------------------------------------------------
(* The invariant, and what it says. *)

LEMMA InitInv ==
    Init => IInv
<1> SUFFICES ASSUME Init PROVE IInv
  OBVIOUS
<1>1. NoCall("idle") \in Call /\ NoCall("idle").pc = "idle" /\ NoCall("idle").future = "none"
  BY DEF NoCall, Call
<1>2. /\ call \in [Calls -> Call]
      /\ \A i \in Calls : call[i] = NoCall("idle") /\ ~InFlight(i)
  BY <1>1 DEF Init, InFlight
<1>3. Shape
  <2>1. line \in [Bots -> Seq(Calls)]
    BY DEF Init
  <2>2. CallsOK
    BY <1>1, <1>2 DEF CallsOK
  <2> QED
    BY <1>2, <2>1, <2>2 DEF Init, Shape, RestTyped
<1>4. PermitsOK
  <2>1. PermitOf = {}
    BY <1>1, <1>2 DEF PermitOf, Permitted
  <2> QED
    BY <2>1, FS_EmptySet, ConcurrencyAssumption DEF PermitsOK, Init
<1>5. InOrder /\ HubOK
  BY DEF Init, InOrder, HubOK, Attached, Alive
<1>6. PendingOK
  BY <1>1, <1>2 DEF PendingOK
<1>7. Turns
  <2>1. \A i \in Calls : call[i].pc = "idle" /\ ~HoldsLock(i)
    BY <1>1, <1>2 DEF HoldsLock, Holding
  <2>2. \A b \in Bots : line[b] = <<>>
    BY DEF Init
  <2>3. \A b \in Bots : 1..Len(line[b]) = {}
    BY <2>2
  <2> QED
    BY <2>1, <2>3 DEF Turns, Began, Lined, Locked
<1> QED
  BY <1>3, <1>4, <1>5, <1>6, <1>7 DEF IInv

LEMMA StutterInv ==
    IInv /\ UNCHANGED vars => IInv'
<1> SUFFICES ASSUME IInv, UNCHANGED vars PROVE IInv'
  OBVIOUS
<1>1. UNCHANGED <<hub, handler, closed, call, cancelled, permits, locked, line, record,
                  confirmed, budget>>
  BY DEF vars
<1>2. Shape'
  BY <1>1 DEF IInv, Shape, RestTyped, CallsOK, InFlight
<1>3. PermitsOK'
  BY <1>1, PermitsSame DEF IInv
<1>4. InOrder' /\ HubOK'
  BY <1>1, HubSame DEF IInv
<1>5. PendingOK'
  BY <1>1, PendingKept DEF IInv
<1>6. Lined' /\ Locked'
  BY <1>1, TurnsSame DEF IInv, Turns
<1>7. Began'
  BY <1>1, BeganSame DEF IInv, Turns
<1> QED
  BY <1>2, <1>3, <1>4, <1>5, <1>6, <1>7 DEF IInv, Turns

\* IInv holds from the start and every step of the transport keeps it.
THEOREM Inductive == Spec => []IInv
<1>1. Init => IInv
  BY InitInv
<1>2. IInv /\ [Next]_vars => IInv'
  <2> SUFFICES ASSUME IInv, [Next]_vars PROVE IInv'
    OBVIOUS
  <2>1. CASE Next
    <3>1. Shape'
      BY <2>1, ShapeNext DEF IInv, Turns
    <3>2. PermitsOK' /\ InOrder' /\ HubOK' /\ PendingOK' /\ Turns'
      BY <2>1, PermitsNext, HubNext, PendingNext, TurnsNext DEF IInv
    <3> QED
      BY <3>1, <3>2 DEF IInv
  <2>2. CASE UNCHANGED vars
    BY <2>2, StutterInv
  <2> QED
    BY <2>1, <2>2
<1> QED
  BY <1>1, <1>2, PTL DEF Spec

\* Every variable keeps its type; in particular the semaphore never has more permits than
\* it was made with, however a call ends (OneBotActionTransport.call).
THEOREM TypeCorrect == Spec => []TypeOK
<1>1. IInv => TypeOK
  <2> SUFFICES ASSUME IInv PROVE TypeOK
    OBVIOUS
  <2>1. permits \in 0..MaxConcurrency
    <3>1. IsFiniteSet(Calls) /\ PermitOf \in SUBSET Calls
      BY BoundsAssumption, FS_Interval DEF Calls, PermitOf
    <3>2. Cardinality(PermitOf) \in Nat
      BY <3>1, FS_Subset, FS_CardinalityType
    <3> QED
      BY <3>2, ConcurrencyAssumption DEF IInv, PermitsOK
  <2> QED
    BY <2>1 DEF IInv, Shape, RestTyped, TypeOK
<1> QED
  BY <1>1, Inductive, PTL

\* No call waits for an answer that no handler will read (attach, detach, fail_pending).
THEOREM PendingIsRead == Spec => []PendingHasReader
<1>1. IInv => PendingHasReader
  <2> SUFFICES ASSUME IInv, NEW i \in Calls, call[i].future = "pending"
               PROVE  /\ hub[call[i].bot] = call[i].conn
                      /\ handler[call[i].conn] \in {"greeting", "reading"}
    BY DEF PendingHasReader
  <2>1. call[i].bot \in Bots
    BY CallTyped DEF IInv, Shape, CallsOK
  <2>2. call[i].conn \in Connections /\ hub[call[i].bot] = call[i].conn
    BY DEF IInv, PendingOK
  <2>3. Alive(call[i].conn)
    BY <2>1, <2>2, NoneAssumption DEF IInv, HubOK
  <2> QED
    BY <2>2, <2>3 DEF Alive
<1> QED
  BY <1>1, Inductive, PTL

\* A bot is reached over its newest connection until that one ends (attach, detach).
THEOREM NewestIsUsed == Spec => []NewestIsReachable
<1>1. IInv => NewestIsReachable
  <2> SUFFICES ASSUME IInv, NEW b \in Bots
               PROVE  LET attached == {k \in Connections : BotOf[k] = b /\ handler[k] # "new"}
                          newest == {k \in attached : /\ \A l \in attached : l <= k
                                                      /\ handler[k] \notin {"ending", "ended"}}
                      IN  (hub[b] # None <=> newest # {}) /\ newest \subseteq {hub[b]}
    BY DEF NewestIsReachable
  <2> DEFINE attached == {k \in Connections : BotOf[k] = b /\ handler[k] # "new"}
             newest == {k \in attached : /\ \A l \in attached : l <= k
                                         /\ handler[k] \notin {"ending", "ended"}}
  <2>1. handler \in [Connections -> {"new", "greeting", "reading", "ending", "ended"}]
    BY DEF IInv, Shape, RestTyped
  <2>2. \A k \in newest : k \in Connections /\ hub[b] = k
    <3> SUFFICES ASSUME NEW k \in newest PROVE k \in Connections /\ hub[b] = k
      OBVIOUS
    <3>1. k \in Connections /\ BotOf[k] = b /\ Alive(k)
      BY <2>1 DEF Alive
    <3>2. Newest(k)
      BY <3>1 DEF Newest, Attached
    <3> QED
      BY <3>1, <3>2 DEF IInv, HubOK
  <2>3. hub[b] # None => hub[b] \in newest
    <3> SUFFICES ASSUME hub[b] # None PROVE hub[b] \in newest
      OBVIOUS
    <3>1. hub[b] \in Connections /\ BotOf[hub[b]] = b /\ Alive(hub[b]) /\ Newest(hub[b])
      BY DEF IInv, HubOK
    <3> QED
      BY <3>1 DEF Alive, Newest, Attached
  <2> QED
    BY <2>2, <2>3, NoneAssumption
<1> QED
  BY <1>1, Inductive, PTL

\* The messages to a bot go out one at a time, in the order of send().
THEOREM MessagesAreServed == Spec => []MessagesKeepOrder
<1>1. IInv => MessagesKeepOrder
  <2> SUFFICES ASSUME IInv, NEW i \in Messages, NEW j \in Messages, i < j,
                      InFlight(i), InFlight(j), call[i].bot = call[j].bot,
                      call[j].pc # "line"
               PROVE  FALSE
    BY DEF MessagesKeepOrder
  <2>1. i \in Calls /\ j \in Calls /\ i \in Nat /\ j \in Nat
    BY MessagesAreCalls, CallsAreNumbers DEF IInv
  <2>2. \A h \in Calls : InFlight(h) => call[h].pc = "line" \/ call[h].pc \in Holding
    BY CallTyped DEF IInv, InFlight, Call, Holding
  <2>3. HoldsLock(j)
    BY <2>1, <2>2 DEF HoldsLock
  <2>4. CASE call[i].pc = "line"
    <3>1. PICK n \in 1..Len(line[call[i].bot]) : line[call[i].bot][n] = i
      BY <2>1, <2>4 DEF IInv, Turns, Lined
    <3>2. j < i
      BY <2>1, <2>3, <3>1 DEF IInv, Turns, Locked
    <3> QED
      BY <2>1, <3>2
  <2>5. CASE HoldsLock(i)
    <3>1. i = j
      BY <2>1, <2>3, <2>5 DEF IInv, Turns, Locked
    <3> QED
      BY <2>1, <3>1
  <2> QED
    BY <2>1, <2>2, <2>4, <2>5 DEF HoldsLock
<1> QED
  BY <1>1, Inductive, PTL

==============================================================================
