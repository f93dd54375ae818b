------------------------ MODULE ConversationScheduler ------------------------
(***************************************************************************)
(* ConversationScheduler.run (application/scheduler.py): one asyncio.Lock  *)
(* per conversation, created by the first operation that needs it and      *)
(* dropped with the last.  The bodies under _entries_lock contain no       *)
(* await, so each of them is one step of the event loop and _entries_lock  *)
(* itself is never seen locked; what can interleave is the waiting for     *)
(* entry.lock, the operation under it, and cancellation of either (a       *)
(* gateway disconnect cancels the tasks of its messages).                  *)
(*                                                                         *)
(* A lock entry has an identity of its own: two operations exclude each    *)
(* other only if they hold the same entry, and the dictionary may forget   *)
(* an entry that an operation still holds.  asyncio.Lock is external and   *)
(* modelled from CPython's behaviour: FIFO waiters, a release that wakes   *)
(* the first waiter without handing it the lock, and a fast path that is   *)
(* closed while an uncancelled waiter exists.                              *)
(***************************************************************************)
EXTENDS Naturals, Sequences, SequencesExt, FiniteSets

CONSTANTS
    Tasks,          \* calls of run() that may be in flight together
    Conversations,
    Entries,        \* identities of _LockEntry objects
    NoEntry

ASSUME NoEntryAssumption == NoEntry \notin Entries
ASSUME TasksAssumption == IsFiniteSet(Tasks)

VARIABLES
    entries,    \* self._entries: conversation -> entry, or NoEntry
    users,      \* _LockEntry.users
    locked,     \* asyncio.Lock._locked of the entry
    waiters,    \* asyncio.Lock._waiters of the entry, as the tasks waiting
    pc,         \* where each call of run() is
    conv,       \* its conversation_id argument
    entryOf     \* its local variable `entry`

vars == <<entries, users, locked, waiters, pc, conv, entryOf>>

\* The states of a call.  A waiter's future is pending ("waiting"), has its
\* result ("woken"), was cancelled while pending ("cancelled"), or its task was
\* cancelled after the future had its result ("aborting").
InLine == {"waiting", "woken", "cancelled", "aborting"}
States == {"idle", "running"} \union InLine

TypeOK ==
    /\ entries \in [Conversations -> Entries \union {NoEntry}]
    /\ users \in [Entries -> Nat]
    /\ locked \in [Entries -> BOOLEAN]
    /\ waiters \in [Entries -> Seq(Tasks)]
    /\ pc \in [Tasks -> States]
    /\ conv \in [Tasks -> Conversations]
    /\ entryOf \in [Tasks -> Entries \union {NoEntry}]

Init ==
    /\ entries = [c \in Conversations |-> NoEntry]
    /\ users = [e \in Entries |-> 0]
    /\ locked = [e \in Entries |-> FALSE]
    /\ waiters = [e \in Entries |-> <<>>]
    /\ pc = [t \in Tasks |-> "idle"]
    /\ conv \in [Tasks -> Conversations]
    /\ entryOf = [t \in Tasks |-> NoEntry]

------------------------------------------------------------------------------
(* asyncio.Lock *)

\* Mutant: a free lock goes to whoever asks first, ahead of the line.
LockIsFreeForAll(e) == ~locked[e]

\* acquire() takes the lock without waiting.
LockIsFree(e) ==
    /\ ~locked[e]
    /\ \A i \in DOMAIN waiters[e] : pc[waiters[e][i]] = "cancelled"

\* _wake_up_first(): give the first waiter its result unless its future is done.
WakeUpFirst(p, w) ==
    IF w # <<>> /\ p[Head(w)] = "waiting"
    THEN [p EXCEPT ![Head(w)] = "woken"]
    ELSE p

------------------------------------------------------------------------------
(* run() *)

\* setdefault(conversation_id, _LockEntry()): the entry of c, or one nobody holds.
EntryFor(c) ==
    IF entries[c] # NoEntry
    THEN {entries[c]}
    ELSE {e \in Entries : /\ \A d \in Conversations : entries[d] # e
                          /\ \A t \in Tasks : entryOf[t] # e}

\* Mutants: the first call that ends drops the entry; none does.
GiveBackAndPop(e, c) ==
    /\ users' = [users EXCEPT ![e] = @ - 1]
    /\ entries' = [entries EXCEPT ![c] = NoEntry]
GiveBackAndKeep(e, c) ==
    /\ users' = [users EXCEPT ![e] = @ - 1]
    /\ UNCHANGED entries

\* The finally clause: give the entry back, and drop it with its last user.
GiveBack(e, c) ==
    /\ users' = [users EXCEPT ![e] = @ - 1]
    /\ entries' = IF users'[e] = 0 THEN [entries EXCEPT ![c] = NoEntry] ELSE entries

\* A call arrives, counts itself as a user, and takes the lock or joins its line.
Arrive(t, c) ==
    /\ pc[t] = "idle"
    /\ \E e \in EntryFor(c) :
        /\ entries' = [entries EXCEPT ![c] = e]
        /\ users' = [users EXCEPT ![e] = @ + 1]
        /\ conv' = [conv EXCEPT ![t] = c]
        /\ entryOf' = [entryOf EXCEPT ![t] = e]
        /\ \/ /\ LockIsFree(e)
              /\ locked' = [locked EXCEPT ![e] = TRUE]
              /\ pc' = [pc EXCEPT ![t] = "running"]
              /\ UNCHANGED waiters
           \/ /\ ~LockIsFree(e)
              /\ waiters' = [waiters EXCEPT ![e] = Append(@, t)]
              /\ pc' = [pc EXCEPT ![t] = "waiting"]
              /\ UNCHANGED locked

\* A woken waiter runs again, leaves the line and takes the lock.
Acquire(t) ==
    /\ pc[t] = "woken"
    /\ LET e == entryOf[t] IN
        /\ \E i \in DOMAIN waiters[e] :
            /\ waiters[e][i] = t
            /\ waiters' = [waiters EXCEPT ![e] = RemoveAt(@, i)]
        /\ locked' = [locked EXCEPT ![e] = TRUE]
    /\ pc' = [pc EXCEPT ![t] = "running"]
    /\ UNCHANGED <<entries, users, conv, entryOf>>

\* Mutant: an operation that ends keeps the lock.
FinishLocked(t) ==
    /\ pc[t] = "running"
    /\ pc' = [pc EXCEPT ![t] = "idle"]
    /\ GiveBack(entryOf[t], conv[t])
    /\ entryOf' = [entryOf EXCEPT ![t] = NoEntry]
    /\ UNCHANGED <<locked, waiters, conv>>

\* The operation returns, raises or is cancelled: release, then the finally clause.
Finish(t) ==
    /\ pc[t] = "running"
    /\ LET e == entryOf[t] IN
        /\ locked' = [locked EXCEPT ![e] = FALSE]
        /\ pc' = WakeUpFirst([pc EXCEPT ![t] = "idle"], waiters[e])
        /\ GiveBack(e, conv[t])
    /\ entryOf' = [entryOf EXCEPT ![t] = NoEntry]
    /\ UNCHANGED <<waiters, conv>>

\* task.cancel() on a call that waits.
Cancel(t) ==
    /\ \/ pc[t] = "waiting" /\ pc' = [pc EXCEPT ![t] = "cancelled"]
       \/ pc[t] = "woken" /\ pc' = [pc EXCEPT ![t] = "aborting"]
    /\ UNCHANGED <<entries, users, locked, waiters, conv, entryOf>>

\* Mutant: the cancelled waiter is given back by its except and its finally clause.
AbortTwice(t) ==
    /\ pc[t] \in {"cancelled", "aborting"}
    /\ LET e == entryOf[t] IN
        /\ waiters' = [waiters EXCEPT ![e] = Remove(@, t)]
        /\ pc' = [pc EXCEPT ![t] = "idle"]
        /\ users' = [users EXCEPT ![e] = @ - 2]
    /\ entryOf' = [entryOf EXCEPT ![t] = NoEntry]
    /\ UNCHANGED <<entries, locked, conv>>

\* The cancelled waiter runs again: it leaves the line, wakes the next one if the
\* lock is free, and the finally clause runs.
Abort(t) ==
    /\ pc[t] \in {"cancelled", "aborting"}
    /\ LET e == entryOf[t] IN
        /\ \E i \in DOMAIN waiters[e] :
            /\ waiters[e][i] = t
            /\ waiters' = [waiters EXCEPT ![e] = RemoveAt(@, i)]
        /\ pc' = IF locked[e]
                 THEN [pc EXCEPT ![t] = "idle"]
                 ELSE WakeUpFirst([pc EXCEPT ![t] = "idle"], waiters'[e])
        /\ GiveBack(e, conv[t])
    /\ entryOf' = [entryOf EXCEPT ![t] = NoEntry]
    /\ UNCHANGED <<locked, conv>>

Next ==
    \E t \in Tasks :
        \/ \E c \in Conversations : Arrive(t, c)
        \/ Acquire(t)
        \/ Finish(t)
        \/ Cancel(t)
        \/ Abort(t)

Spec == Init /\ [][Next]_vars

\* The event loop runs every ready task, and every operation ends (the agent's
\* graph has a step limit, model and tool calls have timeouts).
Fairness == \A t \in Tasks : WF_vars(Acquire(t)) /\ WF_vars(Finish(t)) /\ WF_vars(Abort(t))

FairSpec == Spec /\ Fairness

------------------------------------------------------------------------------
(* Properties *)

\* Two operations of one conversation never run at the same time, whatever
\* arrives, ends or is cancelled meanwhile (scheduler.py: "Serialize work per
\* conversation").
OneAtATime ==
    \A t1, t2 \in Tasks :
        pc[t1] = "running" /\ pc[t2] = "running" /\ t1 # t2 => conv[t1] # conv[t2]

\* The dictionary holds exactly the entries in use: the entry of every call in
\* flight can be found by the next arrival, users counts those calls, and a
\* conversation without calls costs no memory.
DictionaryHoldsLiveEntries ==
    /\ \A t \in Tasks : pc[t] # "idle" => entries[conv[t]] = entryOf[t]
    /\ \A e \in Entries : users[e] = Cardinality({t \in Tasks : entryOf[t] = e})
    /\ \A c \in Conversations :
        entries[c] # NoEntry => \E t \in Tasks : pc[t] # "idle" /\ conv[t] = c

\* Every call gets out: no cancellation, at whatever moment, strands the calls
\* behind it.
EveryCallEnds == \A t \in Tasks : pc[t] # "idle" ~> pc[t] = "idle"

\* The line of a conversation: the operation that runs, and the calls that wait and are
\* not cancelled; ahead of one that waits are the operation that runs and those before it
\* in the line of the lock.
Waits(t) == pc[t] \in {"waiting", "woken"}
LineOf(c) == {t \in Tasks : conv[t] = c /\ (pc[t] = "running" \/ Waits(t))}

Before(w, s, t) == \E i, j \in DOMAIN w : i < j /\ w[i] = s /\ w[j] = t
AheadOf(t) ==
    IF Waits(t)
    THEN {s \in LineOf(conv[t]) : pc[s] = "running" \/ Before(waiters[entryOf[t]], s, t)}
    ELSE {}

Mutex == INSTANCE ConversationMutex WITH
            line <- [c \in Conversations |-> LineOf(c)],
            ahead <- [t \in Tasks |-> AheadOf(t)],
            running <- {t \in Tasks : pc[t] = "running"}

\* The locks and counters implement one first-come-first-served line for each
\* conversation (tests/test_application.py: scheduler preserves arrival order).
ImplementsMutex == Mutex!Spec
==============================================================================
