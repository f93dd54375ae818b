--------------------- MODULE ConversationSchedulerProofs ---------------------
(***************************************************************************)
(* OneAtATime for any number of calls, conversations and lock entries.     *)
(*                                                                         *)
(* The argument: all calls of a conversation hold the entry that the       *)
(* dictionary has for it, because the entry is dropped only when its user  *)
(* count is zero and the count is the number of calls that hold the entry; *)
(* and of the calls that hold one entry at most one has its lock or a      *)
(* promise of it, because a waiter is woken only while the lock is free    *)
(* and is then the first of the line until it leaves.                      *)
(***************************************************************************)
EXTENDS ConversationScheduler, LineLemmas, FiniteSetTheorems, TLAPS

Holders(e) == {t \in Tasks : entryOf[t] = e}

\* The dictionary has the entry of every call in flight, and counts its calls.
Counted ==
    /\ \A t \in Tasks : pc[t] # "idle" =>
            entryOf[t] \in Entries /\ entries[conv[t]] = entryOf[t]
    /\ \A t \in Tasks : pc[t] = "idle" => entryOf[t] = NoEntry
    /\ \A c, d \in Conversations : entries[c] # NoEntry /\ entries[c] = entries[d] => c = d
    /\ \A e \in Entries : users[e] = Cardinality(Holders(e))
    /\ \A c \in Conversations : entries[c] # NoEntry => users[entries[c]] # 0

\* A line holds the calls that wait for its entry, each of them once.
Lined ==
    /\ \A e \in Entries : \A i \in 1..Len(waiters[e]) :
            pc[waiters[e][i]] \in InLine /\ entryOf[waiters[e][i]] = e
    /\ \A e \in Entries : \A i, j \in 1..Len(waiters[e]) :
            waiters[e][i] = waiters[e][j] => i = j
    /\ \A t \in Tasks : pc[t] \in InLine =>
            \E i \in 1..Len(waiters[entryOf[t]]) : waiters[entryOf[t]][i] = t

\* The lock has at most one owner, and none while a waiter has been woken for it.
Owned ==
    /\ \A t \in Tasks : pc[t] = "running" => locked[entryOf[t]]
    /\ \A t \in Tasks : pc[t] \in {"woken", "aborting"} =>
            ~locked[entryOf[t]] /\ waiters[entryOf[t]][1] = t
    /\ \A t, u \in Tasks :
            pc[t] = "running" /\ pc[u] = "running" /\ entryOf[t] = entryOf[u] => t = u

IInv == TypeOK /\ Counted /\ Lined /\ Owned

------------------------------------------------------------------------------
(* Waking the first of a line, and giving an entry back. *)

LEMMA WakesAtMostTheFirst ==
    ASSUME NEW p \in [Tasks -> States], NEW w \in Seq(Tasks)
    PROVE  \/ /\ WakeUpFirst(p, w) = p
              /\ w # <<>> => p[w[1]] # "waiting"
           \/ /\ w # <<>>
              /\ 1 \in 1..Len(w)
              /\ w[1] \in Tasks
              /\ p[w[1]] = "waiting"
              /\ WakeUpFirst(p, w) = [p EXCEPT ![w[1]] = "woken"]
<1>1. w # <<>> => Head(w) = w[1] /\ w[1] \in Tasks /\ 1 \in 1..Len(w)
  OBVIOUS
<1> QED
  BY <1>1 DEF WakeUpFirst

LEMMA HoldersCount ==
    ASSUME Counted, NEW t \in Tasks, pc[t] # "idle"
    PROVE  /\ users[entryOf[t]] \in Nat \ {0}
           /\ users[entryOf[t]] - 1 = Cardinality(Holders(entryOf[t]) \ {t})
           /\ users[entryOf[t]] = 1 => Holders(entryOf[t]) = {t}
<1> DEFINE H == Holders(entryOf[t])
<1>1. IsFiniteSet(H) /\ t \in H
  BY TasksAssumption, FS_Subset DEF Holders
<1>2. users[entryOf[t]] = Cardinality(H)
  BY DEF Counted
<1>3. /\ IsFiniteSet(H \ {t})
      /\ Cardinality(H \ {t}) = Cardinality(H) - 1
      /\ Cardinality(H) \in Nat
      /\ Cardinality(H \ {t}) \in Nat
  BY <1>1, FS_RemoveElement, FS_CardinalityType
<1>4. Cardinality(H) = 1 => H \ {t} = {}
  BY <1>3, FS_EmptySet
<1> QED
  BY <1>1, <1>2, <1>3, <1>4

\* The finally clause, once the call t is idle and no longer holds its entry.
LEMMA GiveBackKeepsCount ==
    ASSUME TypeOK, Counted, NEW t \in Tasks, pc[t] # "idle",
           GiveBack(entryOf[t], conv[t]),
           entryOf' = [entryOf EXCEPT ![t] = NoEntry],
           UNCHANGED conv,
           pc' \in [Tasks -> States], pc'[t] = "idle",
           \A u \in Tasks \ {t} : (pc[u] = "idle") = (pc'[u] = "idle")
    PROVE  /\ entries' \in [Conversations -> Entries \union {NoEntry}]
           /\ users' \in [Entries -> Nat]
           /\ Counted'
<1> DEFINE e == entryOf[t]
<1>1. e \in Entries /\ entries[conv[t]] = e /\ conv[t] \in Conversations
  BY DEF Counted, TypeOK
<1>2. /\ users[e] \in Nat \ {0}
      /\ users[e] - 1 = Cardinality(Holders(e) \ {t})
      /\ users[e] = 1 => Holders(e) = {t}
  BY HoldersCount
<1>3. users' \in [Entries -> Nat] /\ users'[e] = users[e] - 1
  BY <1>1, <1>2 DEF GiveBack, TypeOK
<1>4. entries' \in [Conversations -> Entries \union {NoEntry}]
  BY <1>1 DEF GiveBack, TypeOK
<1>5. ASSUME NEW u \in Tasks, pc'[u] # "idle"
      PROVE  entryOf'[u] \in Entries /\ entries'[conv'[u]] = entryOf'[u]
  <2>1. u # t /\ pc[u] # "idle" /\ entryOf'[u] = entryOf[u] /\ conv'[u] = conv[u]
    BY <1>5 DEF TypeOK
  <2>2. entryOf[u] \in Entries /\ entries[conv[u]] = entryOf[u] /\ conv[u] \in Conversations
    BY <2>1 DEF Counted, TypeOK
  <2>3. CASE entries' = entries
    BY <2>1, <2>2, <2>3
  <2>4. CASE users'[e] = 0 /\ entries' = [entries EXCEPT ![conv[t]] = NoEntry]
    <3>1. Holders(e) = {t}
      BY <1>2, <1>3, <2>4
    <3>2. entryOf[u] # e
      BY <3>1, <2>1 DEF Holders
    <3>3. conv[u] # conv[t]
      BY <3>2, <2>2, <1>1
    <3> QED
      BY <2>1, <2>2, <2>4, <3>3, <1>1 DEF TypeOK
  <2> QED
    BY <2>3, <2>4 DEF GiveBack
<1>6. ASSUME NEW u \in Tasks, pc'[u] = "idle"
      PROVE  entryOf'[u] = NoEntry
  BY <1>6 DEF Counted, TypeOK
<1>7. ASSUME NEW c \in Conversations, NEW d \in Conversations,
             entries'[c] # NoEntry, entries'[c] = entries'[d]
      PROVE  c = d
  BY <1>7, <1>1 DEF Counted, TypeOK, GiveBack
<1>8. ASSUME NEW f \in Entries
      PROVE  users'[f] = Cardinality(Holders(f)')
  <2>1. CASE f = e
    <3>1. Holders(f)' = Holders(e) \ {t}
      BY <2>1, NoEntryAssumption, <1>1 DEF Holders, TypeOK
    <3> QED
      BY <3>1, <2>1, <1>2, <1>3
  <2>2. CASE f # e
    <3>1. Holders(f)' = Holders(f)
      BY <2>2, NoEntryAssumption, <1>1 DEF Holders, TypeOK
    <3>2. users'[f] = users[f]
      BY <2>2, <1>1 DEF GiveBack, TypeOK
    <3> QED
      BY <3>1, <3>2 DEF Counted
  <2> QED
    BY <2>1, <2>2
<1>9. ASSUME NEW c \in Conversations, entries'[c] # NoEntry
      PROVE  users'[entries'[c]] # 0
  <2>1. entries'[c] = entries[c] /\ entries[c] \in Entries /\ users[entries[c]] # 0
    BY <1>9, <1>1 DEF GiveBack, Counted, TypeOK
  <2>2. CASE entries[c] = e
    <3>1. c = conv[t]
      BY <2>2, <1>1, <2>1, NoEntryAssumption DEF Counted
    <3> QED
      BY <3>1, <2>1, <2>2, <1>1, <1>9 DEF GiveBack, TypeOK
  <2>3. CASE entries[c] # e
    BY <2>1, <2>3, <1>1 DEF GiveBack, TypeOK
  <2> QED
    BY <2>2, <2>3
<1> QED
  BY <1>3, <1>4, <1>5, <1>6, <1>7, <1>8, <1>9 DEF Counted

------------------------------------------------------------------------------
(* One lemma for each action. *)

LEMMA InitHolds == Init => IInv
<1> SUFFICES ASSUME Init PROVE IInv
  OBVIOUS
<1>1. TypeOK
  BY DEF Init, TypeOK, States, InLine
<1>2. \A e \in Entries : Holders(e) = {}
  BY NoEntryAssumption DEF Init, Holders
<1>3. Counted
  BY <1>2, FS_EmptySet DEF Init, Counted
<1>4. Lined /\ Owned
  BY DEF Init, Lined, Owned, InLine
<1> QED
  BY <1>1, <1>3, <1>4 DEF IInv

LEMMA InLineTasks ==
    ASSUME TypeOK, Lined
    PROVE  \A e \in Entries : \A i \in 1..Len(waiters[e]) :
                waiters[e][i] \in Tasks /\ pc[waiters[e][i]] # "idle"
                /\ pc[waiters[e][i]] # "running"
<1> SUFFICES ASSUME NEW e \in Entries, NEW i \in 1..Len(waiters[e])
             PROVE  waiters[e][i] \in Tasks /\ pc[waiters[e][i]] \in InLine
  BY DEF InLine
<1>1. waiters[e] \in Seq(Tasks)
  BY DEF TypeOK
<1> QED
  BY <1>1 DEF Lined

\* A call leaves its line: the others keep their order.
LEMMA LeavesTheLine ==
    ASSUME TypeOK, Lined, NEW t \in Tasks, NEW i \in 1..Len(waiters[entryOf[t]]),
           entryOf[t] \in Entries,
           waiters[entryOf[t]][i] = t,
           waiters' = [waiters EXCEPT ![entryOf[t]] = RemoveAt(@, i)],
           \A u \in Tasks \ {t} :
                /\ pc'[u] \in InLine <=> pc[u] \in InLine
                /\ entryOf'[u] = entryOf[u],
           pc'[t] \notin InLine,
           \A u \in Tasks : pc[u] \in InLine => entryOf[u] \in Entries
    PROVE  Lined'
<1> DEFINE e == entryOf[t]
           w == waiters[e]
<1>1. w \in Seq(Tasks) /\ Len(w) \in Nat
  BY DEF TypeOK
<1>2. /\ Len(waiters'[e]) = Len(w) - 1
      /\ \A j \in 1..(Len(w) - 1) :
            waiters'[e][j] = IF j < i THEN w[j] ELSE w[j + 1]
      /\ \A f \in Entries : f # e => waiters'[f] = waiters[f]
  BY <1>1, RemoveAtSeq DEF TypeOK
<1>3. \A f \in Entries : \A j \in 1..Len(waiters[f]) : waiters[f][j] \in Tasks
  BY InLineTasks
<1>4. \A j \in 1..Len(w) : j # i => w[j] # t
  BY DEF Lined
<1>5. ASSUME NEW f \in Entries, NEW j \in 1..Len(waiters'[f])
      PROVE  pc'[waiters'[f][j]] \in InLine /\ entryOf'[waiters'[f][j]] = f
  <2>1. CASE f # e
    <3>1. waiters[f][j] # t
      BY <2>1, <1>2 DEF Lined
    <3> QED
      BY <2>1, <3>1, <1>2, <1>3 DEF Lined
  <2>2. CASE f = e
    <3>1. PICK k \in 1..Len(w) : k # i /\ waiters'[e][j] = w[k]
      <4>1. j \in 1..(Len(w) - 1)
        BY <2>2, <1>2
      <4>2. CASE j < i
        BY <4>1, <4>2, <1>1, <1>2
      <4>3. CASE ~(j < i)
        <5>1. j + 1 \in 1..Len(w) /\ j + 1 # i /\ waiters'[e][j] = w[j + 1]
          BY <4>1, <4>3, <1>1, <1>2
        <5> QED
          BY <5>1
      <4> QED
        BY <4>2, <4>3
    <3> QED
      BY <2>2, <3>1, <1>3, <1>4 DEF Lined
  <2> QED
    BY <2>1, <2>2
<1>6. ASSUME NEW f \in Entries, NEW j \in 1..Len(waiters'[f]), NEW k \in 1..Len(waiters'[f]),
             waiters'[f][j] = waiters'[f][k]
      PROVE  j = k
  <2>1. CASE f # e
    BY <1>6, <2>1, <1>2 DEF Lined
  <2>2. CASE f = e
    <3>1. j \in 1..(Len(w) - 1) /\ k \in 1..(Len(w) - 1)
      BY <2>2, <1>2
    <3>2. \A m, n \in 1..Len(w) : w[m] = w[n] => m = n
      BY DEF Lined
    <3>3. (IF j < i THEN w[j] ELSE w[j + 1]) = (IF k < i THEN w[k] ELSE w[k + 1])
      BY <1>6, <2>2, <3>1, <1>2
    <3> DEFINE m == IF j < i THEN j ELSE j + 1
               n == IF k < i THEN k ELSE k + 1
    <3>4. m \in 1..Len(w) /\ n \in 1..Len(w) /\ w[m] = w[n]
      BY <3>1, <3>3, <1>1
    <3>5. m = n
      BY <3>2, <3>4
    <3> QED
      BY <3>1, <3>5, <1>1
  <2> QED
    BY <2>1, <2>2
<1>7. ASSUME NEW u \in Tasks, pc'[u] \in InLine
      PROVE  \E j \in 1..Len(waiters'[entryOf'[u]]) : waiters'[entryOf'[u]][j] = u
  <2>1. u # t /\ pc[u] \in InLine /\ entryOf'[u] = entryOf[u] /\ entryOf[u] \in Entries
    BY <1>7
  <2>2. PICK j \in 1..Len(waiters[entryOf[u]]) : waiters[entryOf[u]][j] = u
    BY <2>1 DEF Lined
  <2>3. CASE entryOf[u] # e
    BY <2>1, <2>2, <2>3, <1>2
  <2>4. CASE entryOf[u] = e
    <3>1. j \in 1..Len(w) /\ j # i
      BY <2>1, <2>2, <2>4
    <3>2. CASE j < i
      <4>1. j \in 1..(Len(w) - 1) /\ waiters'[e][j] = u
        BY <3>1, <3>2, <2>2, <2>4, <1>1, <1>2
      <4> QED
        BY <4>1, <2>1, <2>4, <1>2
    <3>3. CASE j > i
      <4>1. j - 1 \in 1..(Len(w) - 1) /\ ~(j - 1 < i) /\ (j - 1) + 1 = j
        BY <3>1, <3>3, <1>1
      <4>2. waiters'[e][j - 1] = u
        BY <4>1, <2>2, <2>4, <1>2
      <4> QED
        BY <4>1, <4>2, <2>1, <2>4, <1>2
    <3> QED
      BY <3>1, <3>2, <3>3
  <2> QED
    BY <2>3, <2>4
<1> QED
  BY <1>5, <1>6, <1>7 DEF Lined

LEMMA ArriveKeeps ==
    ASSUME IInv, NEW t \in Tasks, NEW c \in Conversations, Arrive(t, c)
    PROVE  IInv'
<1> USE DEF IInv
<1>1. PICK e \in EntryFor(c) :
        /\ entries' = [entries EXCEPT ![c] = e]
        /\ users' = [users EXCEPT ![e] = @ + 1]
        /\ conv' = [conv EXCEPT ![t] = c]
        /\ entryOf' = [entryOf EXCEPT ![t] = e]
        /\ \/ /\ LockIsFree(e)
              /\ locked' = [locked EXCEPT ![e] = TRUE]
              /\ pc' = [pc EXCEPT ![t] = "running"]
              /\ UNCHANGED waiters
           \/ /\ ~LockIsFree(e)
              /\ waiters' = [waiters EXCEPT ![e] = Append(@, t)]
              /\ pc' = [pc EXCEPT ![t] = "waiting"]
              /\ UNCHANGED locked
  BY DEF Arrive
<1>2. pc[t] = "idle" /\ entryOf[t] = NoEntry
  BY DEF Arrive, Counted
<1>3. e \in Entries /\ e # NoEntry
  BY NoEntryAssumption DEF EntryFor, TypeOK
<1>4. \/ entries[c] = e
      \/ /\ entries[c] = NoEntry
         /\ \A d \in Conversations : entries[d] # e
         /\ \A u \in Tasks : entryOf[u] # e
  BY DEF EntryFor
<1>5. TypeOK'
  <2>1. pc' \in [Tasks -> States]
    BY <1>1 DEF TypeOK, States, InLine
  <2>2. Append(waiters[e], t) \in Seq(Tasks)
    BY <1>3 DEF TypeOK
  <2>3. waiters' \in [Entries -> Seq(Tasks)]
    BY <1>1, <1>3, <2>2 DEF TypeOK
  <2>4. users' \in [Entries -> Nat]
    BY <1>1, <1>3 DEF TypeOK
  <2>6. locked' \in [Entries -> BOOLEAN]
    BY <1>1, <1>3, Zenon DEF TypeOK
  <2>5. /\ entries' \in [Conversations -> Entries \union {NoEntry}]
        /\ conv' \in [Tasks -> Conversations]
        /\ entryOf' \in [Tasks -> Entries \union {NoEntry}]
    BY <1>1, <1>3 DEF TypeOK
  <2> QED
    BY <2>1, <2>3, <2>4, <2>5, <2>6 DEF TypeOK
<1>6. Counted'
  <2>1. ASSUME NEW u \in Tasks, pc'[u] # "idle"
        PROVE  entryOf'[u] \in Entries /\ entries'[conv'[u]] = entryOf'[u]
    <3>1. CASE u = t
      BY <3>1, <1>1, <1>3 DEF TypeOK
    <3>2. CASE u # t
      <4>1. /\ entryOf'[u] = entryOf[u] /\ conv'[u] = conv[u] /\ conv[u] \in Conversations
            /\ entryOf[u] \in Entries /\ entries[conv[u]] = entryOf[u]
        BY <2>1, <3>2, <1>1 DEF Counted, TypeOK
      <4>2. conv[u] = c => entries[c] = e
        BY <4>1, <1>4, NoEntryAssumption
      <4> QED
        BY <4>1, <4>2, <1>1 DEF TypeOK
    <3> QED
      BY <3>1, <3>2
  <2>2. ASSUME NEW u \in Tasks, pc'[u] = "idle"
        PROVE  entryOf'[u] = NoEntry
    BY <2>2, <1>1 DEF Counted, TypeOK
  <2>3. ASSUME NEW d1 \in Conversations, NEW d2 \in Conversations,
               entries'[d1] # NoEntry, entries'[d1] = entries'[d2]
        PROVE  d1 = d2
    BY <2>3, <1>1, <1>3, <1>4 DEF Counted, TypeOK
  <2>4. ASSUME NEW f \in Entries
        PROVE  users'[f] = Cardinality(Holders(f)')
    <3>1. CASE f = e
      <4>1. Holders(e)' = Holders(e) \union {t} /\ t \notin Holders(e)
        BY <1>1, <1>2, <1>3 DEF Holders, TypeOK
      <4>2. IsFiniteSet(Holders(e))
        BY TasksAssumption, FS_Subset DEF Holders
      <4>3. Cardinality(Holders(e) \union {t}) = Cardinality(Holders(e)) + 1
        BY <4>1, <4>2, FS_AddElement
      <4>4. users'[e] = users[e] + 1
        BY <1>1, <1>3 DEF TypeOK
      <4> QED
        BY <3>1, <4>1, <4>3, <4>4, <1>3 DEF Counted
    <3>2. CASE f # e
      <4>1. Holders(f)' = Holders(f) /\ users'[f] = users[f]
        BY <3>2, <1>1, <1>2, <1>3, NoEntryAssumption DEF Holders, TypeOK
      <4> QED
        BY <4>1 DEF Counted
    <3> QED
      BY <3>1, <3>2
  <2>5. ASSUME NEW d \in Conversations, entries'[d] # NoEntry
        PROVE  users'[entries'[d]] # 0
    <3>1. users[e] \in Nat /\ users'[e] = users[e] + 1
      BY <1>1, <1>3 DEF TypeOK
    <3>2. CASE entries'[d] = e
      BY <3>1, <3>2
    <3>3. CASE entries'[d] # e
      <4>1. entries'[d] = entries[d] /\ entries[d] \in Entries
        BY <2>5, <3>3, <1>1, <1>3 DEF TypeOK
      <4> QED
        BY <4>1, <2>5, <3>3, <1>1 DEF Counted, TypeOK
    <3> QED
      BY <3>2, <3>3
  <2> QED
    BY <2>1, <2>2, <2>3, <2>4, <2>5 DEF Counted
<1>7. CASE /\ LockIsFree(e)
           /\ locked' = [locked EXCEPT ![e] = TRUE]
           /\ pc' = [pc EXCEPT ![t] = "running"]
           /\ UNCHANGED waiters
  <2>1. \A u \in Tasks : u # t =>
            pc'[u] = pc[u] /\ entryOf'[u] = entryOf[u]
    BY <1>1, <1>7 DEF TypeOK
  <2>2. \A f \in Entries : \A i \in 1..Len(waiters[f]) :
            waiters[f][i] \in Tasks /\ waiters[f][i] # t
    BY <1>2, InLineTasks
  <2>3. pc'[t] = "running" /\ entryOf'[t] = e
    BY <1>1, <1>7 DEF TypeOK
  <2>4. Lined'
    <3>1. \A f \in Entries : \A i \in 1..Len(waiters'[f]) :
            pc'[waiters'[f][i]] \in InLine /\ entryOf'[waiters'[f][i]] = f
      BY <1>7, <2>1, <2>2 DEF Lined
    <3>2. \A u \in Tasks : pc'[u] \in InLine =>
            \E i \in 1..Len(waiters'[entryOf'[u]]) : waiters'[entryOf'[u]][i] = u
      BY <1>7, <2>1, <2>3 DEF Lined, InLine
    <3> QED
      BY <3>1, <3>2, <1>7 DEF Lined
  <2>5. ASSUME NEW u \in Tasks, entryOf[u] = e
        PROVE  pc[u] \notin {"running", "woken", "aborting"}
    <3>1. pc[u] # "running"
      BY <2>5, <1>7 DEF Owned, LockIsFree
    <3>2. pc[u] \in InLine => pc[u] = "cancelled"
      BY <2>5, <1>7, <1>3 DEF Lined, LockIsFree, TypeOK
    <3> QED
      BY <3>1, <3>2 DEF InLine
  <2>6. Owned'
    <3>1. ASSUME NEW u \in Tasks, pc'[u] = "running"
          PROVE  locked'[entryOf'[u]]
      <4>1. u # t => locked[entryOf[u]] /\ entryOf[u] \in Entries
        BY <3>1, <2>1 DEF Owned, Counted
      <4> QED
        BY <4>1, <1>7, <2>1, <2>3, <1>3 DEF TypeOK
    <3>2. ASSUME NEW u \in Tasks, pc'[u] \in {"woken", "aborting"}
          PROVE  ~locked'[entryOf'[u]] /\ waiters'[entryOf'[u]][1] = u
      <4>1. u # t /\ pc[u] \in {"woken", "aborting"}
        BY <3>2, <2>1, <2>3
      <4>2. entryOf[u] # e /\ entryOf[u] \in Entries
        BY <4>1, <2>5 DEF Counted
      <4> QED
        BY <4>1, <4>2, <1>7, <2>1 DEF Owned, TypeOK
    <3>3. ASSUME NEW u \in Tasks, NEW v \in Tasks,
                 pc'[u] = "running", pc'[v] = "running", entryOf'[u] = entryOf'[v]
          PROVE  u = v
      BY <3>3, <2>1, <2>3, <2>5 DEF Owned
    <3> QED
      BY <3>1, <3>2, <3>3 DEF Owned
  <2> QED
    BY <1>5, <1>6, <2>4, <2>6
<1>8. CASE /\ ~LockIsFree(e)
           /\ waiters' = [waiters EXCEPT ![e] = Append(@, t)]
           /\ pc' = [pc EXCEPT ![t] = "waiting"]
           /\ UNCHANGED locked
  <2>1. \A u \in Tasks : u # t =>
            pc'[u] = pc[u] /\ entryOf'[u] = entryOf[u]
    BY <1>1, <1>8 DEF TypeOK
  <2>2. \A f \in Entries : \A i \in 1..Len(waiters[f]) :
            waiters[f][i] \in Tasks /\ waiters[f][i] # t
    BY <1>2, InLineTasks
  <2>3. pc'[t] = "waiting" /\ entryOf'[t] = e
    BY <1>1, <1>8 DEF TypeOK
  <2>4. /\ waiters[e] \in Seq(Tasks)
        /\ Len(waiters'[e]) = Len(waiters[e]) + 1
        /\ \A i \in 1..Len(waiters[e]) : waiters'[e][i] = waiters[e][i]
        /\ waiters'[e][Len(waiters[e]) + 1] = t
        /\ \A f \in Entries : f # e => waiters'[f] = waiters[f]
    BY <1>3, <1>8 DEF TypeOK
  <2>5. Len(waiters[e]) \in Nat
    BY <2>4
  <2>6. Lined'
    <3>1. ASSUME NEW f \in Entries, NEW i \in 1..Len(waiters'[f])
          PROVE  pc'[waiters'[f][i]] \in InLine /\ entryOf'[waiters'[f][i]] = f
      <4>1. CASE f = e /\ i = Len(waiters[e]) + 1
        BY <4>1, <2>3, <2>4 DEF InLine
      <4>2. CASE ~(f = e /\ i = Len(waiters[e]) + 1)
        <5>1. i \in 1..Len(waiters[f]) /\ waiters'[f][i] = waiters[f][i]
          BY <4>2, <2>4, <2>5
        <5> QED
          BY <5>1, <2>1, <2>2 DEF Lined
      <4> QED
        BY <4>1, <4>2
    <3>2. ASSUME NEW f \in Entries, NEW i \in 1..Len(waiters'[f]), NEW j \in 1..Len(waiters'[f]),
                 waiters'[f][i] = waiters'[f][j]
          PROVE  i = j
      <4>1. CASE f # e
        BY <3>2, <4>1, <2>4 DEF Lined
      <4>2. CASE f = e
        <5>1. \A k \in 1..Len(waiters'[e]) :
                k \in 1..Len(waiters[e]) \/ k = Len(waiters[e]) + 1
          BY <2>4, <2>5
        <5> QED
          BY <3>2, <4>2, <5>1, <2>2, <2>4, <1>3 DEF Lined
      <4> QED
        BY <4>1, <4>2
    <3>3. ASSUME NEW u \in Tasks, pc'[u] \in InLine
          PROVE  \E i \in 1..Len(waiters'[entryOf'[u]]) : waiters'[entryOf'[u]][i] = u
      <4>1. CASE u = t
        BY <4>1, <2>3, <2>4, <2>5
      <4>2. CASE u # t
        <5>1. PICK i \in 1..Len(waiters[entryOf[u]]) : waiters[entryOf[u]][i] = u
          BY <3>3, <4>2, <2>1 DEF Lined
        <5>2. entryOf[u] \in Entries
          BY <3>3, <4>2, <2>1 DEF Counted, InLine
        <5>3. i \in 1..Len(waiters'[entryOf[u]]) /\ waiters'[entryOf[u]][i] = u
          BY <5>1, <5>2, <2>4, <2>5
        <5> QED
          BY <5>3, <4>2, <2>1
      <4> QED
        BY <4>1, <4>2
    <3> QED
      BY <3>1, <3>2, <3>3 DEF Lined
  <2>7. Owned'
    <3>1. ASSUME NEW u \in Tasks, pc'[u] = "running"
          PROVE  locked'[entryOf'[u]]
      BY <3>1, <1>8, <2>1, <2>3 DEF Owned
    <3>2. ASSUME NEW u \in Tasks, pc'[u] \in {"woken", "aborting"}
          PROVE  ~locked'[entryOf'[u]] /\ waiters'[entryOf'[u]][1] = u
      <4>1. /\ u # t /\ pc[u] \in {"woken", "aborting"} /\ entryOf'[u] = entryOf[u]
            /\ entryOf[u] \in Entries
        BY <3>2, <2>1, <2>3 DEF Counted
      <4>2. ~locked[entryOf[u]] /\ waiters[entryOf[u]][1] = u
        BY <4>1 DEF Owned
      <4>3. 1 \in 1..Len(waiters[entryOf[u]])
        <5>1. PICK i \in 1..Len(waiters[entryOf[u]]) : waiters[entryOf[u]][i] = u
          BY <4>1 DEF Lined, InLine
        <5>2. Len(waiters[entryOf[u]]) \in Nat
          BY <4>1 DEF TypeOK
        <5> QED
          BY <5>1, <5>2
      <4> QED
        BY <4>1, <4>2, <4>3, <2>4, <1>8
    <3>3. ASSUME NEW u \in Tasks, NEW v \in Tasks,
                 pc'[u] = "running", pc'[v] = "running", entryOf'[u] = entryOf'[v]
          PROVE  u = v
      BY <3>3, <2>1, <2>3 DEF Owned
    <3> QED
      BY <3>1, <3>2, <3>3 DEF Owned
  <2> QED
    BY <1>5, <1>6, <2>6, <2>7
<1> QED
  BY <1>1, <1>7, <1>8

LEMMA AcquireKeeps ==
    ASSUME IInv, NEW t \in Tasks, Acquire(t)
    PROVE  IInv'
<1> USE DEF IInv
<1> DEFINE e == entryOf[t]
<1>1. /\ pc[t] = "woken"
      /\ pc' = [pc EXCEPT ![t] = "running"]
      /\ locked' = [locked EXCEPT ![e] = TRUE]
      /\ UNCHANGED <<entries, users, conv, entryOf>>
  BY DEF Acquire
<1>2. PICK i \in 1..Len(waiters[e]) :
        waiters[e][i] = t /\ waiters' = [waiters EXCEPT ![e] = RemoveAt(@, i)]
  <2>1. waiters[e] \in Seq(Tasks)
    BY <1>1 DEF Counted, TypeOK
  <2>2. DOMAIN waiters[e] = 1..Len(waiters[e])
    BY <2>1
  <2> QED
    BY <2>2 DEF Acquire
<1>3. e \in Entries
  BY <1>1 DEF Counted
<1>4. ~locked[e]
  BY <1>1 DEF Owned
<1>5. TypeOK'
  <2>1. pc' \in [Tasks -> States]
    BY <1>1 DEF TypeOK, States
  <2>2. waiters' \in [Entries -> Seq(Tasks)]
    BY <1>2, <1>3, RemoveAtSeq DEF TypeOK
  <2>3. locked' \in [Entries -> BOOLEAN]
    BY <1>1, <1>3, Zenon DEF TypeOK
  <2> QED
    BY <1>1, <2>1, <2>2, <2>3 DEF TypeOK
<1>6. \A u \in Tasks \ {t} : pc'[u] = pc[u]
  BY <1>1 DEF TypeOK
<1>7. pc'[t] = "running"
  BY <1>1 DEF TypeOK
<1>8. Counted'
  BY <1>1, <1>6, <1>7 DEF Counted, Holders
<1>9. Lined'
  <2>1. \A u \in Tasks : pc[u] \in InLine => entryOf[u] \in Entries
    BY DEF Counted, InLine
  <2>2. pc'[t] \notin InLine
    BY <1>7 DEF InLine
  <2> QED
    BY <1>1, <1>2, <1>3, <1>6, <2>1, <2>2, LeavesTheLine
<1>10. Owned'
  <2>1. ASSUME NEW u \in Tasks, u # t, entryOf[u] = e
        PROVE  pc[u] \notin {"running", "woken", "aborting"}
    BY <2>1, <1>1, <1>4 DEF Owned
  <2>2. \A u \in Tasks : pc'[u] = "running" => locked'[entryOf'[u]]
    BY <1>1, <1>3, <1>6, <1>7 DEF Owned, Counted, TypeOK
  <2>3. ASSUME NEW u \in Tasks, pc'[u] \in {"woken", "aborting"}
        PROVE  ~locked'[entryOf'[u]] /\ waiters'[entryOf'[u]][1] = u
    <3>1. u # t /\ pc[u] \in {"woken", "aborting"} /\ entryOf[u] # e /\ entryOf[u] \in Entries
      BY <2>3, <2>1, <1>6, <1>7 DEF Counted
    <3> QED
      BY <3>1, <1>1, <1>2 DEF Owned, TypeOK
  <2>4. ASSUME NEW u \in Tasks, NEW v \in Tasks,
               pc'[u] = "running", pc'[v] = "running", entryOf'[u] = entryOf'[v]
        PROVE  u = v
    BY <2>4, <2>1, <1>1, <1>6, <1>7 DEF Owned
  <2> QED
    BY <2>2, <2>3, <2>4 DEF Owned
<1> QED
  BY <1>5, <1>8, <1>9, <1>10

LEMMA CancelKeeps ==
    ASSUME IInv, NEW t \in Tasks, Cancel(t)
    PROVE  IInv'
<1> USE DEF IInv
<1>1. /\ \/ pc[t] = "waiting" /\ pc' = [pc EXCEPT ![t] = "cancelled"]
         \/ pc[t] = "woken" /\ pc' = [pc EXCEPT ![t] = "aborting"]
      /\ UNCHANGED <<entries, users, locked, waiters, conv, entryOf>>
  BY DEF Cancel
<1>2. TypeOK'
  BY <1>1 DEF TypeOK, States, InLine
<1>3. \A u \in Tasks :
        /\ pc'[u] = "idle" <=> pc[u] = "idle"
        /\ pc'[u] \in InLine <=> pc[u] \in InLine
        /\ pc'[u] = "running" <=> pc[u] = "running"
        /\ pc'[u] \in {"woken", "aborting"} => pc[u] \in {"woken", "aborting"}
  BY <1>1 DEF TypeOK, InLine
<1>4. Counted'
  BY <1>1, <1>3 DEF Counted, Holders
<1>5. Lined'
  <2>1. \A e \in Entries : \A i \in 1..Len(waiters[e]) : waiters[e][i] \in Tasks
    BY InLineTasks
  <2> QED
    BY <1>1, <1>3, <2>1 DEF Lined
<1>6. Owned'
  BY <1>1, <1>3 DEF Owned
<1> QED
  BY <1>2, <1>4, <1>5, <1>6

LEMMA FinishKeeps ==
    ASSUME IInv, NEW t \in Tasks, Finish(t)
    PROVE  IInv'
<1> USE DEF IInv
<1> DEFINE e == entryOf[t]
           p == [pc EXCEPT ![t] = "idle"]
<1>1. /\ pc[t] = "running"
      /\ locked' = [locked EXCEPT ![e] = FALSE]
      /\ pc' = WakeUpFirst(p, waiters[e])
      /\ GiveBack(e, conv[t])
      /\ entryOf' = [entryOf EXCEPT ![t] = NoEntry]
      /\ UNCHANGED <<waiters, conv>>
  BY DEF Finish
<1>2. e \in Entries /\ locked[e] /\ waiters[e] \in Seq(Tasks)
  BY <1>1 DEF Counted, Owned, TypeOK
<1>3. p \in [Tasks -> States]
  BY DEF TypeOK, States
<1>4. \/ pc' = p
      \/ /\ 1 \in 1..Len(waiters[e])
         /\ waiters[e][1] \in Tasks
         /\ p[waiters[e][1]] = "waiting"
         /\ pc' = [p EXCEPT ![waiters[e][1]] = "woken"]
  BY <1>1, <1>2, <1>3, WakesAtMostTheFirst
<1> HIDE DEF p
<1>5. pc' \in [Tasks -> States] /\ pc'[t] = "idle"
  <2>1. p[t] = "idle"
    BY DEF p, TypeOK
  <2> QED
    BY <1>3, <1>4, <2>1 DEF States, InLine
<1>6. \A u \in Tasks \ {t} :
        /\ \/ pc'[u] = pc[u]
           \/ pc[u] = "waiting" /\ pc'[u] = "woken" /\ waiters[e][1] = u /\ entryOf[u] = e
        /\ entryOf'[u] = entryOf[u]
  <2> SUFFICES ASSUME NEW u \in Tasks \ {t}
               PROVE  /\ \/ pc'[u] = pc[u]
                         \/ /\ pc[u] = "waiting" /\ pc'[u] = "woken"
                            /\ waiters[e][1] = u /\ entryOf[u] = e
                      /\ entryOf'[u] = entryOf[u]
    OBVIOUS
  <2>1. p[u] = pc[u]
    BY DEF p, TypeOK
  <2>2. 1 \in 1..Len(waiters[e]) => entryOf[waiters[e][1]] = e
    BY <1>2 DEF Lined
  <2> QED
    BY <1>1, <1>3, <1>4, <2>1, <2>2 DEF TypeOK
<1>7. TypeOK' /\ Counted'
  <2>1. locked' \in [Entries -> BOOLEAN]
    BY <1>1, <1>2, Zenon DEF TypeOK
  <2>2. /\ entries' \in [Conversations -> Entries \union {NoEntry}]
        /\ users' \in [Entries -> Nat]
        /\ Counted'
    <3>1. pc[t] # "idle" /\ \A u \in Tasks \ {t} : (pc[u] = "idle") = (pc'[u] = "idle")
      BY <1>1, <1>6
    <3> QED
      BY <1>1, <1>5, <3>1, GiveBackKeepsCount
  <2>3. entryOf' \in [Tasks -> Entries \union {NoEntry}]
    BY <1>1 DEF TypeOK
  <2> QED
    BY <1>1, <1>5, <2>1, <2>2, <2>3 DEF TypeOK
<1>8. Lined'
  <2>1. \A f \in Entries : \A i \in 1..Len(waiters[f]) :
            waiters[f][i] \in Tasks \ {t}
    BY <1>1, InLineTasks
  <2> QED
    BY <1>1, <1>5, <1>6, <2>1 DEF Lined, InLine
<1>9. Owned'
  <2>1. ASSUME NEW u \in Tasks, u # t, entryOf[u] = e
        PROVE  pc[u] \notin {"running", "woken", "aborting"}
    BY <2>1, <1>1, <1>2 DEF Owned
  <2>2. ASSUME NEW u \in Tasks, pc'[u] = "running"
        PROVE  locked'[entryOf'[u]]
    <3>1. u # t /\ pc[u] = "running" /\ entryOf'[u] = entryOf[u] /\ entryOf[u] # e
      BY <2>2, <2>1, <1>5, <1>6
    <3> QED
      BY <3>1, <1>1 DEF Owned, Counted, TypeOK
  <2>3. ASSUME NEW u \in Tasks, pc'[u] \in {"woken", "aborting"}
        PROVE  ~locked'[entryOf'[u]] /\ waiters'[entryOf'[u]][1] = u
    <3>1. u # t /\ entryOf'[u] = entryOf[u]
      BY <2>3, <1>5, <1>6
    <3>2. CASE pc[u] \in {"woken", "aborting"}
      BY <3>1, <3>2, <1>1 DEF Owned, Counted, TypeOK
    <3>3. CASE waiters[e][1] = u /\ entryOf[u] = e
      BY <3>1, <3>3, <1>1, <1>2 DEF TypeOK
    <3> QED
      BY <2>3, <3>1, <3>2, <3>3, <1>6
  <2>4. ASSUME NEW u \in Tasks, NEW v \in Tasks,
               pc'[u] = "running", pc'[v] = "running", entryOf'[u] = entryOf'[v]
        PROVE  u = v
    BY <2>4, <1>5, <1>6 DEF Owned
  <2> QED
    BY <2>2, <2>3, <2>4 DEF Owned
<1> QED
  BY <1>7, <1>8, <1>9

LEMMA AbortKeeps ==
    ASSUME IInv, NEW t \in Tasks, Abort(t)
    PROVE  IInv'
<1> USE DEF IInv
<1> DEFINE e == entryOf[t]
           p == [pc EXCEPT ![t] = "idle"]
<1>1. /\ pc[t] \in {"cancelled", "aborting"}
      /\ pc' = IF locked[e] THEN p ELSE WakeUpFirst(p, waiters'[e])
      /\ GiveBack(e, conv[t])
      /\ entryOf' = [entryOf EXCEPT ![t] = NoEntry]
      /\ UNCHANGED <<locked, conv>>
  BY DEF Abort
<1>2. e \in Entries /\ waiters[e] \in Seq(Tasks) /\ pc[t] \in InLine
  BY <1>1 DEF Counted, TypeOK, InLine
<1>3. PICK i \in 1..Len(waiters[e]) :
        waiters[e][i] = t /\ waiters' = [waiters EXCEPT ![e] = RemoveAt(@, i)]
  <2>1. DOMAIN waiters[e] = 1..Len(waiters[e])
    BY <1>2
  <2> QED
    BY <2>1 DEF Abort
<1>4. /\ waiters' \in [Entries -> Seq(Tasks)]
      /\ waiters'[e] \in Seq(Tasks)
      /\ Len(waiters'[e]) = Len(waiters[e]) - 1
      /\ \A j \in 1..(Len(waiters[e]) - 1) :
            waiters'[e][j] = IF j < i THEN waiters[e][j] ELSE waiters[e][j + 1]
      /\ \A f \in Entries : f # e => waiters'[f] = waiters[f]
  BY <1>2, <1>3, RemoveAtSeq DEF TypeOK
<1>5. p \in [Tasks -> States]
  BY DEF TypeOK, States
<1>6. \/ pc' = p
      \/ /\ ~locked[e]
         /\ 1 \in 1..Len(waiters'[e])
         /\ waiters'[e][1] \in Tasks
         /\ p[waiters'[e][1]] = "waiting"
         /\ pc' = [p EXCEPT ![waiters'[e][1]] = "woken"]
  BY <1>1, <1>4, <1>5, WakesAtMostTheFirst
<1> HIDE DEF p
<1>7. pc' \in [Tasks -> States] /\ pc'[t] = "idle"
  <2>1. p[t] = "idle"
    BY DEF p, TypeOK
  <2> QED
    BY <1>5, <1>6, <2>1 DEF States, InLine
<1>8. \A u \in Tasks \ {t} :
        /\ \/ pc'[u] = pc[u]
           \/ /\ pc[u] = "waiting" /\ pc'[u] = "woken" /\ ~locked[e]
              /\ waiters'[e][1] = u /\ entryOf[u] = e
        /\ entryOf'[u] = entryOf[u]
  <2> SUFFICES ASSUME NEW u \in Tasks \ {t}
               PROVE  /\ \/ pc'[u] = pc[u]
                         \/ /\ pc[u] = "waiting" /\ pc'[u] = "woken" /\ ~locked[e]
                            /\ waiters'[e][1] = u /\ entryOf[u] = e
                      /\ entryOf'[u] = entryOf[u]
    OBVIOUS
  <2>1. p[u] = pc[u]
    BY DEF p, TypeOK
  <2>2. 1 \in 1..Len(waiters'[e]) => entryOf[waiters'[e][1]] = e
    <3>1. Len(waiters[e]) \in Nat
      BY <1>2
    <3>2. 1 \in 1..Len(waiters'[e]) =>
            \E j \in 1..Len(waiters[e]) : waiters'[e][1] = waiters[e][j]
      BY <3>1, <1>4
    <3> QED
      BY <3>2, <1>2 DEF Lined
  <2> QED
    BY <1>1, <1>5, <1>6, <2>1, <2>2 DEF TypeOK
<1>9. TypeOK' /\ Counted'
  <2>1. pc[t] # "idle" /\ \A u \in Tasks \ {t} : (pc[u] = "idle") = (pc'[u] = "idle")
    BY <1>1, <1>8
  <2>2. /\ entries' \in [Conversations -> Entries \union {NoEntry}]
        /\ users' \in [Entries -> Nat]
        /\ Counted'
    BY <1>1, <1>7, <2>1, GiveBackKeepsCount
  <2>3. entryOf' \in [Tasks -> Entries \union {NoEntry}]
    BY <1>1 DEF TypeOK
  <2> QED
    BY <1>1, <1>4, <1>7, <2>2, <2>3 DEF TypeOK
<1>10. Lined'
  <2>1. \A u \in Tasks : pc[u] \in InLine => entryOf[u] \in Entries
    BY DEF Counted, InLine
  <2>2. pc'[t] \notin InLine
    BY <1>7 DEF InLine
  <2>3. \A u \in Tasks \ {t} :
            /\ pc'[u] \in InLine <=> pc[u] \in InLine
            /\ entryOf'[u] = entryOf[u]
    BY <1>8 DEF InLine
  <2> QED
    BY <1>2, <1>3, <2>1, <2>2, <2>3, LeavesTheLine
<1>11. Owned'
  <2>1. ASSUME NEW u \in Tasks, pc'[u] = "running"
        PROVE  locked'[entryOf'[u]]
    BY <2>1, <1>1, <1>7, <1>8 DEF Owned
  <2>2. ASSUME NEW u \in Tasks, pc'[u] \in {"woken", "aborting"}
        PROVE  ~locked'[entryOf'[u]] /\ waiters'[entryOf'[u]][1] = u
    <3>1. u # t /\ entryOf'[u] = entryOf[u]
      BY <2>2, <1>7, <1>8
    <3>2. CASE pc[u] \in {"woken", "aborting"} /\ entryOf[u] # e
      BY <3>1, <3>2, <1>1, <1>4 DEF Owned, Counted
    <3>3. CASE pc[u] \in {"woken", "aborting"} /\ entryOf[u] = e
      <4>1. ~locked[e] /\ waiters[e][1] = u
        BY <3>3 DEF Owned
      <4>2. i # 1
        BY <4>1, <3>1, <1>3
      <4>3. Len(waiters[e]) \in Nat
        BY <1>2
      <4>4. waiters'[e][1] = u
        BY <4>1, <4>2, <4>3, <1>4
      <4> QED
        BY <4>1, <4>4, <3>1, <3>3, <1>1
    <3>4. CASE ~locked[e] /\ waiters'[e][1] = u /\ entryOf[u] = e
      BY <3>1, <3>4, <1>1
    <3> QED
      BY <2>2, <3>1, <3>2, <3>3, <3>4, <1>8
  <2>3. ASSUME NEW u \in Tasks, NEW v \in Tasks,
               pc'[u] = "running", pc'[v] = "running", entryOf'[u] = entryOf'[v]
        PROVE  u = v
    BY <2>3, <1>7, <1>8 DEF Owned
  <2> QED
    BY <2>1, <2>2, <2>3 DEF Owned
<1> QED
  BY <1>9, <1>10, <1>11

------------------------------------------------------------------------------
THEOREM Inductive == Spec => []IInv
<1>1. IInv /\ [Next]_vars => IInv'
  <2> SUFFICES ASSUME IInv, [Next]_vars PROVE IInv'
    OBVIOUS
  <2>1. CASE UNCHANGED vars
    <3> USE <2>1 DEF vars
    <3>1. TypeOK'
      BY DEF IInv, TypeOK
    <3>2. Counted'
      BY DEF IInv, Counted, Holders
    <3>3. Lined'
      BY DEF IInv, Lined
    <3>4. Owned'
      BY DEF IInv, Owned
    <3> QED
      BY <3>1, <3>2, <3>3, <3>4 DEF IInv
  <2>2. ASSUME NEW t \in Tasks, NEW c \in Conversations, Arrive(t, c) PROVE IInv'
    BY <2>2, ArriveKeeps
  <2>3. ASSUME NEW t \in Tasks, Acquire(t) PROVE IInv'
    BY <2>3, AcquireKeeps
  <2>4. ASSUME NEW t \in Tasks, Finish(t) PROVE IInv'
    BY <2>4, FinishKeeps
  <2>5. ASSUME NEW t \in Tasks, Cancel(t) PROVE IInv'
    BY <2>5, CancelKeeps
  <2>6. ASSUME NEW t \in Tasks, Abort(t) PROVE IInv'
    BY <2>6, AbortKeeps
  <2> QED
    BY <2>1, <2>2, <2>3, <2>4, <2>5, <2>6 DEF Next
<1> QED
  BY InitHolds, <1>1, PTL DEF Spec

\* Every variable keeps its type; in particular no user count goes below zero.
THEOREM TypeCorrect == Spec => []TypeOK
<1>1. IInv => TypeOK
  BY DEF IInv
<1> QED
  BY <1>1, Inductive, PTL

\* ConversationScheduler.run never lets two operations of one conversation overlap.
THEOREM MutualExclusion == Spec => []OneAtATime
<1>1. IInv => OneAtATime
  BY DEF IInv, Counted, Owned, OneAtATime
<1> QED
  BY <1>1, Inductive, PTL

\* The dictionary never forgets an entry in use, never keeps one that is not, and
\* counts the calls of each entry.
THEOREM NoLeak == Spec => []DictionaryHoldsLiveEntries
<1>1. IInv => DictionaryHoldsLiveEntries
  <2> SUFFICES ASSUME IInv PROVE DictionaryHoldsLiveEntries
    OBVIOUS
  <2> USE DEF IInv
  <2>1. \A t \in Tasks : pc[t] # "idle" => entries[conv[t]] = entryOf[t]
    BY DEF Counted
  <2>2. \A e \in Entries : users[e] = Cardinality({t \in Tasks : entryOf[t] = e})
    BY DEF Counted, Holders
  <2>3. ASSUME NEW c \in Conversations, entries[c] # NoEntry
        PROVE  \E t \in Tasks : pc[t] # "idle" /\ conv[t] = c
    <3>1. entries[c] \in Entries
      BY <2>3 DEF TypeOK
    <3>2. Cardinality(Holders(entries[c])) # 0
      BY <2>3, <3>1 DEF Counted
    <3>3. PICK t \in Tasks : entryOf[t] = entries[c]
      BY <3>2, FS_EmptySet DEF Holders
    <3>4. pc[t] # "idle" /\ entries[conv[t]] = entries[c] /\ conv[t] \in Conversations
      BY <3>3, <3>1, NoEntryAssumption DEF Counted, TypeOK
    <3>5. conv[t] = c
      BY <3>4, <2>3 DEF Counted
    <3> QED
      BY <3>4, <3>5
  <2> QED
    BY <2>1, <2>2, <2>3 DEF DictionaryHoldsLiveEntries
<1> QED
  BY <1>1, Inductive, PTL

------------------------------------------------------------------------------
(***************************************************************************)
(* ConversationScheduler implements ConversationMutex.                     *)
(*                                                                         *)
(* The argument: those of a conversation that run or wait hold one entry,  *)
(* so that their order is that of its line; who joins joins at its end,    *)
(* and who leaves moves nobody past another; who starts was woken, so that *)
(* the lock was free and nobody stood before it.                           *)
(***************************************************************************)

\* Who joins at the end stands behind all others, and in front of nobody.
LEMMA JoinsBehind ==
    ASSUME NEW T, NEW w \in Seq(T), NEW t \in T, \A i \in 1..Len(w) : w[i] # t
    PROVE  /\ \A a, b : b # t => (Before(Append(w, t), a, b) <=> Before(w, a, b))
           /\ \A a : a # t => (Before(Append(w, t), a, t) <=> \E i \in 1..Len(w) : w[i] = a)
           /\ ~Before(Append(w, t), t, t)
<1> DEFINE v == Append(w, t)
<1>1. /\ v \in Seq(T) /\ Len(v) = Len(w) + 1 /\ Len(w) \in Nat
      /\ v[Len(w) + 1] = t
      /\ \A i \in 1..Len(w) : v[i] = w[i]
      /\ DOMAIN v = 1..(Len(w) + 1) /\ DOMAIN w = 1..Len(w)
  OBVIOUS
<1> HIDE DEF v
<1>2. ASSUME NEW a, NEW b, b # t
      PROVE  Before(v, a, b) <=> Before(w, a, b)
  <2>1. ASSUME Before(v, a, b) PROVE Before(w, a, b)
    <3>1. PICK i, j \in 1..(Len(w) + 1) : i < j /\ v[i] = a /\ v[j] = b
      BY <2>1, <1>1 DEF Before
    <3>2. i \in 1..Len(w) /\ j \in 1..Len(w)
      BY <3>1, <1>1, <1>2
    <3> QED
      BY <3>1, <3>2, <1>1 DEF Before
  <2>2. ASSUME Before(w, a, b) PROVE Before(v, a, b)
    <3>1. PICK i, j \in 1..Len(w) : i < j /\ w[i] = a /\ w[j] = b
      BY <2>2, <1>1 DEF Before
    <3>2. i \in DOMAIN v /\ j \in DOMAIN v /\ v[i] = a /\ v[j] = b
      BY <3>1, <1>1
    <3> QED
      BY <3>1, <3>2 DEF Before
  <2> QED
    BY <2>1, <2>2
<1>3. ASSUME NEW a, a # t
      PROVE  Before(v, a, t) <=> \E i \in 1..Len(w) : w[i] = a
  <2>1. ASSUME Before(v, a, t) PROVE \E i \in 1..Len(w) : w[i] = a
    <3>1. PICK i, j \in 1..(Len(w) + 1) : i < j /\ v[i] = a /\ v[j] = t
      BY <2>1, <1>1 DEF Before
    <3>2. i \in 1..Len(w)
      BY <3>1, <1>1
    <3> QED
      BY <3>1, <3>2, <1>1
  <2>2. ASSUME NEW i \in 1..Len(w), w[i] = a PROVE Before(v, a, t)
    <3>1. i \in DOMAIN v /\ Len(w) + 1 \in DOMAIN v /\ i < Len(w) + 1 /\ v[i] = a
      BY <2>2, <1>1
    <3> QED
      BY <3>1, <1>1 DEF Before
  <2> QED
    BY <2>1, <2>2
<1>4. ~Before(v, t, t)
  <2> SUFFICES ASSUME NEW i \in 1..(Len(w) + 1), NEW j \in 1..(Len(w) + 1),
                      i < j, v[i] = t, v[j] = t
               PROVE  FALSE
    BY <1>1 DEF Before
  <2>1. i \in 1..Len(w)
    BY <1>1
  <2> QED
    BY <2>1, <1>1
<1> QED
  BY <1>2, <1>3, <1>4 DEF v

\* Who leaves moves nobody past another.
LEMMA LeavesOrder ==
    ASSUME NEW T, NEW w \in Seq(T), NEW n \in 1..Len(w),
           \A i, j \in 1..Len(w) : w[i] = w[j] => i = j
    PROVE  \A a, b : a # w[n] /\ b # w[n] =>
                (Before(RemoveAt(w, n), a, b) <=> Before(w, a, b))
<1> DEFINE v == RemoveAt(w, n)
<1>1. /\ v \in Seq(T) /\ Len(v) = Len(w) - 1
      /\ \A i \in 1..(Len(w) - 1) : v[i] = IF i < n THEN w[i] ELSE w[i + 1]
  BY RemoveAtSeq
<1> HIDE DEF v
<1>2. DOMAIN v = 1..(Len(w) - 1) /\ DOMAIN w = 1..Len(w) /\ Len(w) \in Nat
  BY <1>1
<1>3. SUFFICES ASSUME NEW a, NEW b, a # w[n], b # w[n]
               PROVE  Before(v, a, b) <=> Before(w, a, b)
  BY DEF v
<1>4. ASSUME Before(v, a, b) PROVE Before(w, a, b)
  <2>1. PICK i, j \in 1..(Len(w) - 1) : i < j /\ v[i] = a /\ v[j] = b
    BY <1>4, <1>2 DEF Before
  <2> DEFINE up(k) == IF k < n THEN k ELSE k + 1
  <2>2. up(i) \in 1..Len(w) /\ up(j) \in 1..Len(w) /\ up(i) < up(j)
    BY <2>1, <1>2
  <2>3. w[up(i)] = a /\ w[up(j)] = b
    BY <2>1, <1>1
  <2> QED
    BY <2>2, <2>3, <1>2 DEF Before
<1>5. ASSUME Before(w, a, b) PROVE Before(v, a, b)
  <2>1. PICK i, j \in 1..Len(w) : i < j /\ w[i] = a /\ w[j] = b
    BY <1>5, <1>2 DEF Before
  <2>2. i # n /\ j # n
    BY <2>1, <1>3
  <2> DEFINE down(k) == IF k < n THEN k ELSE k - 1
  <2>3. /\ down(i) \in 1..(Len(w) - 1) /\ down(j) \in 1..(Len(w) - 1) /\ down(i) < down(j)
        /\ IF down(i) < n THEN down(i) = i ELSE down(i) + 1 = i
        /\ IF down(j) < n THEN down(j) = j ELSE down(j) + 1 = j
    BY <2>1, <2>2, <1>2
  <2>4. v[down(i)] = a /\ v[down(j)] = b
    <3> HIDE DEF down
    <3> QED
      BY <2>1, <2>3, <1>1
  <2> QED
    BY <2>3, <2>4, <1>2 DEF Before
<1> QED
  BY <1>4, <1>5

\* Those in the line of a conversation hold its entry, and those that wait stand in the
\* line of that entry, each in one place.
LEMMA LineHoldsEntry ==
    ASSUME IInv, NEW c \in Conversations, NEW t \in LineOf(c)
    PROVE  /\ t \in Tasks /\ conv[t] = c
           /\ entries[c] \in Entries /\ entryOf[t] = entries[c]
           /\ Waits(t) => \E i \in 1..Len(waiters[entries[c]]) : waiters[entries[c]][i] = t
<1>1. t \in Tasks /\ conv[t] = c /\ pc[t] # "idle" /\ (Waits(t) => pc[t] \in InLine)
  BY DEF LineOf, Waits, InLine
<1> QED
  BY <1>1 DEF IInv, Counted, Lined

\* An operation enters the line of its conversation.
LEMMA ArriveEnters ==
    ASSUME IInv, NEW t \in Tasks, NEW c \in Conversations, Arrive(t, c)
    PROVE  Mutex!Enter(t, c)
<1> USE DEF IInv
<1>1. PICK e \in EntryFor(c) :
        /\ entries' = [entries EXCEPT ![c] = e]
        /\ conv' = [conv EXCEPT ![t] = c]
        /\ entryOf' = [entryOf EXCEPT ![t] = e]
        /\ \/ /\ LockIsFree(e)
              /\ pc' = [pc EXCEPT ![t] = "running"]
              /\ UNCHANGED waiters
           \/ /\ ~LockIsFree(e)
              /\ waiters' = [waiters EXCEPT ![e] = Append(@, t)]
              /\ pc' = [pc EXCEPT ![t] = "waiting"]
  BY DEF Arrive
<1>2. pc[t] = "idle" /\ e \in Entries
  BY NoEntryAssumption DEF Arrive, EntryFor, TypeOK
<1>3. \A d \in Conversations : t \notin LineOf(d)
  BY <1>2 DEF LineOf, Waits
<1>4. \A d \in Conversations : LineOf(d)' = IF d = c THEN LineOf(c) \union {t} ELSE LineOf(d)
  BY <1>1, <1>2 DEF LineOf, Waits, TypeOK
<1>5. \A u \in LineOf(c) : entryOf[u] = e
  <2> TAKE u \in LineOf(c)
  <2>1. entries[c] \in Entries /\ entryOf[u] = entries[c]
    BY LineHoldsEntry
  <2> QED
    BY <2>1, NoEntryAssumption DEF EntryFor
<1>6. LockIsFree(e) => LineOf(c) = {}
  <2> SUFFICES ASSUME LockIsFree(e), NEW u \in LineOf(c) PROVE FALSE
    OBVIOUS
  <2>1. entryOf[u] = e /\ u \in Tasks
    BY <1>5 DEF LineOf
  <2>2. pc[u] # "running"
    BY <2>1 DEF Owned, LockIsFree
  <2>3. Waits(u)
    BY <2>2 DEF LineOf
  <2>4. PICK i \in 1..Len(waiters[e]) : waiters[e][i] = u
    BY <2>3, <2>1, LineHoldsEntry
  <2>5. pc[u] = "cancelled"
    BY <2>4, <1>2 DEF LockIsFree, TypeOK
  <2> QED
    BY <2>5, <2>3 DEF Waits
<1>7. \A i \in 1..Len(waiters[e]) : waiters[e][i] # t
  BY <1>2 DEF Lined, InLine
<1>8. AheadOf(t)' = LineOf(c)
  <2>1. CASE LockIsFree(e)
    BY <1>1, <1>2, <1>6, <2>1 DEF AheadOf, Waits, TypeOK
  <2>2. CASE ~LockIsFree(e)
    <3>1. /\ pc'[t] = "waiting" /\ conv'[t] = c /\ entryOf'[t] = e
          /\ waiters[e] \in Seq(Tasks) /\ waiters'[e] = Append(waiters[e], t)
      BY <1>1, <1>2, <2>2 DEF TypeOK
    <3>2. AheadOf(t)' = {s \in LineOf(c)' : pc'[s] = "running" \/ Before(waiters'[e], s, t)}
      BY <3>1 DEF AheadOf, Waits, Before
    <3>3. ASSUME NEW s \in LineOf(c)
          PROVE  pc'[s] = "running" \/ Before(waiters'[e], s, t)
      <4>1. s # t /\ s \in Tasks /\ entryOf[s] = e /\ pc'[s] = pc[s]
        BY <1>1, <1>2, <1>3, <1>5, <2>2 DEF LineOf, TypeOK
      <4>2. CASE pc[s] = "running"
        BY <4>1, <4>2
      <4>3. CASE Waits(s)
        <5>1. \E i \in 1..Len(waiters[e]) : waiters[e][i] = s
          BY <4>1, <4>3, LineHoldsEntry
        <5> QED
          BY <5>1, <4>1, <3>1, <1>7, JoinsBehind
      <4> QED
        BY <4>2, <4>3 DEF LineOf
    <3>4. ~Before(waiters'[e], t, t) /\ pc'[t] # "running"
      BY <3>1, <1>7, JoinsBehind
    <3> QED
      BY <3>2, <3>3, <3>4, <1>3, <1>4
  <2> QED
    BY <2>1, <2>2
<1>9. ASSUME NEW u \in Tasks, u # t
      PROVE  AheadOf(u)' = AheadOf(u)
  <2>1. pc'[u] = pc[u] /\ conv'[u] = conv[u] /\ entryOf'[u] = entryOf[u]
    BY <1>1, <1>2, <1>9 DEF TypeOK
  <2>2. CASE ~Waits(u)
    BY <2>1, <2>2 DEF AheadOf, Waits
  <2>3. CASE Waits(u)
    <3> DEFINE f == entryOf[u]
    <3>1. u \in LineOf(conv[u]) /\ conv[u] \in Conversations /\ f \in Entries
      <4>1. u \in LineOf(conv[u]) /\ conv[u] \in Conversations
        BY <2>3 DEF LineOf, TypeOK
      <4> QED
        BY <4>1, LineHoldsEntry
    <3>2. AheadOf(u) = {s \in LineOf(conv[u]) : pc[s] = "running" \/ Before(waiters[f], s, u)}
      BY <2>3 DEF AheadOf
    <3>3. AheadOf(u)' = {s \in LineOf(conv[u])' : pc'[s] = "running" \/ Before(waiters'[f], s, u)}
      BY <2>1, <2>3 DEF AheadOf, Waits, Before, LineOf
    <3>4. \A s : Before(waiters'[f], s, u) <=> Before(waiters[f], s, u)
      <4>1. CASE waiters' = waiters
        BY <4>1
      <4>2. CASE waiters' = [waiters EXCEPT ![e] = Append(@, t)]
        <5>1. waiters[e] \in Seq(Tasks) /\ waiters'[e] = Append(waiters[e], t)
          BY <4>2, <1>2 DEF TypeOK
        <5>2. \A s : Before(waiters'[e], s, u) <=> Before(waiters[e], s, u)
          BY <5>1, <1>7, <1>9, JoinsBehind
        <5>3. f # e => waiters'[f] = waiters[f]
          BY <4>2, <3>1 DEF TypeOK
        <5> QED
          BY <5>2, <5>3
      <4> QED
        BY <4>1, <4>2, <1>1
    <3>5. \A s \in LineOf(conv[u]) : pc'[s] = pc[s]
      BY <1>1, <1>2, <1>3, <3>1 DEF LineOf, TypeOK
    <3>6. CASE conv[u] # c
      <4>1. LineOf(conv[u])' = LineOf(conv[u])
        <5>1. \A d \in Conversations : d # c => LineOf(d)' = LineOf(d)
          BY <1>4
        <5>2. LineOf(conv[u])' = {s \in Tasks : conv'[s] = conv[u] /\ (pc'[s] = "running" \/ Waits(s)')}
          BY <2>1 DEF LineOf
        <5>3. \A s \in Tasks : s # t => conv'[s] = conv[s] /\ pc'[s] = pc[s]
          BY <1>1, <1>2 DEF TypeOK
        <5>4. conv'[t] # conv[u] /\ t \notin LineOf(conv[u])
          BY <1>1, <1>2, <1>3, <3>1, <3>6 DEF TypeOK
        <5> QED
          BY <5>2, <5>3, <5>4 DEF LineOf, Waits
      <4> QED
        BY <4>1, <3>2, <3>3, <3>4, <3>5
    <3>7. CASE conv[u] = c
      <4>1. ~LockIsFree(e)
        BY <1>6, <3>1, <3>7
      <4>2. pc'[t] = "waiting"
        BY <4>1, <1>1, <1>2 DEF TypeOK
      <4>3. f = e
        BY <1>5, <3>1, <3>7
      <4>4. LineOf(conv[u])' = LineOf(c) \union {t}
        <5>1. LineOf(conv[u])' = LineOf(c)'
          BY <2>1, <3>7 DEF LineOf
        <5> QED
          BY <5>1, <1>4
      <4>5. ~Before(waiters[f], t, u)
        <5>1. DOMAIN waiters[e] = 1..Len(waiters[e])
          BY <1>2 DEF TypeOK
        <5> QED
          BY <5>1, <4>3, <1>7 DEF Before
      <4> QED
        BY <4>2, <4>4, <4>5, <3>2, <3>3, <3>4, <3>5, <3>7
    <3> QED
      BY <3>6, <3>7
  <2> QED
    BY <2>2, <2>3
<1>10. \/ {u \in Tasks : pc[u] = "running"}' = {u \in Tasks : pc[u] = "running"}
       \/ /\ LineOf(c) = {}
          /\ {u \in Tasks : pc[u] = "running"}' = {u \in Tasks : pc[u] = "running"} \union {t}
  BY <1>1, <1>2, <1>6 DEF TypeOK
<1> QED
  BY <1>3, <1>4, <1>8, <1>9, <1>10 DEF Mutex!Enter

\* A woken waiter starts: nobody stands before it.
LEMMA AcquireStarts ==
    ASSUME IInv, NEW t \in Tasks, NEW c \in Conversations, conv[t] = c, Acquire(t)
    PROVE  Mutex!Start(t, c)
<1> USE DEF IInv
<1> DEFINE e == entryOf[t]
<1>1. /\ pc[t] = "woken" /\ t \in LineOf(c)
      /\ e \in Entries /\ entries[c] = e
  BY LineHoldsEntry DEF Acquire, LineOf, Waits, TypeOK, Counted
<1>4. waiters[e] \in Seq(Tasks) /\ DOMAIN waiters[e] = 1..Len(waiters[e])
  <2>1. waiters[e] \in Seq(Tasks)
    BY <1>1 DEF TypeOK
  <2> QED
    BY <2>1
<1>2. PICK n \in 1..Len(waiters[e]) :
        /\ waiters[e][n] = t
        /\ waiters' = [waiters EXCEPT ![e] = RemoveAt(@, n)]
  BY <1>4 DEF Acquire
<1>3. /\ pc' = [pc EXCEPT ![t] = "running"]
      /\ UNCHANGED <<entries, users, conv, entryOf>>
  BY DEF Acquire
<1>5. \A i, j \in 1..Len(waiters[e]) : waiters[e][i] = waiters[e][j] => i = j
  BY <1>1 DEF Lined
<1>6. n = 1
  BY <1>1, <1>2, <1>4, <1>5 DEF Owned
<1>7. \A s \in LineOf(c) : pc[s] # "running"
  <2> SUFFICES ASSUME NEW s \in LineOf(c), pc[s] = "running" PROVE FALSE
    OBVIOUS
  <2>1. s \in Tasks /\ entryOf[s] = e
    BY <1>1, LineHoldsEntry
  <2> QED
    BY <2>1, <1>1 DEF Owned
<1>8. \A s : ~Before(waiters[e], s, t)
  BY <1>2, <1>4, <1>5, <1>6 DEF Before
<1>9. AheadOf(t) = {} /\ AheadOf(t)' = {}
  <2>1. AheadOf(t) = {}
    BY <1>7, <1>8 DEF AheadOf
  <2>2. AheadOf(t)' = {}
    BY <1>1, <1>3 DEF AheadOf, Waits, TypeOK
  <2> QED
    BY <2>1, <2>2
<1>10. \A d \in Conversations : LineOf(d)' = LineOf(d)
  BY <1>1, <1>3 DEF LineOf, Waits, TypeOK
<1>11. ASSUME NEW u \in Tasks, u # t
       PROVE  AheadOf(u)' = AheadOf(u)
  <2>1. pc'[u] = pc[u] /\ conv'[u] = conv[u] /\ entryOf'[u] = entryOf[u] /\ conv[u] \in Conversations
    BY <1>3, <1>11 DEF TypeOK
  <2>2. CASE ~Waits(u)
    BY <2>1, <2>2 DEF AheadOf, Waits
  <2>3. CASE Waits(u)
    <3> DEFINE f == entryOf[u]
    <3>1. u \in LineOf(conv[u]) /\ f \in Entries
      <4>1. u \in LineOf(conv[u])
        BY <2>3 DEF LineOf
      <4> QED
        BY <4>1, <2>1, LineHoldsEntry
    <3>2. AheadOf(u) = {s \in LineOf(conv[u]) : pc[s] = "running" \/ Before(waiters[f], s, u)}
      BY <2>3 DEF AheadOf
    <3>3. LineOf(conv[u])' = LineOf(conv[u])
      <4>1. LineOf(conv[u])' = {s \in Tasks : conv'[s] = conv[u] /\ (pc'[s] = "running" \/ Waits(s)')}
        BY <2>1 DEF LineOf
      <4> QED
        BY <4>1, <1>1, <1>3 DEF LineOf, Waits, TypeOK
    <3>4. AheadOf(u)' = {s \in LineOf(conv[u]) : pc'[s] = "running" \/ Before(waiters'[f], s, u)}
      <4>1. AheadOf(u)' = {s \in LineOf(conv[u])' : pc'[s] = "running" \/ Before(waiters'[f], s, u)}
        BY <2>1, <2>3 DEF AheadOf, Waits, Before, LineOf
      <4> QED
        BY <4>1, <3>3
    <3>5. \A s : s # t => (Before(waiters'[f], s, u) <=> Before(waiters[f], s, u))
      <4>1. CASE f # e
        BY <4>1, <1>2, <3>1 DEF TypeOK
      <4>2. CASE f = e
        <5>1. waiters'[e] = RemoveAt(waiters[e], n)
          BY <1>1, <1>2 DEF TypeOK
        <5> QED
          BY <5>1, <4>2, <1>2, <1>4, <1>5, <1>11, LeavesOrder
      <4> QED
        BY <4>1, <4>2
    <3>6. t \in LineOf(conv[u]) => Before(waiters[f], t, u)
      <4> SUFFICES ASSUME t \in LineOf(conv[u]) PROVE Before(waiters[f], t, u)
        OBVIOUS
      <4>1. f = e
        BY <3>1, <2>1, LineHoldsEntry
      <4>2. PICK i \in 1..Len(waiters[e]) : waiters[e][i] = u
        BY <3>1, <2>1, <2>3, <4>1, LineHoldsEntry
      <4>3. 1 < i
        BY <4>2, <1>2, <1>6, <1>11
      <4> QED
        BY <4>1, <4>2, <4>3, <1>2, <1>4, <1>6 DEF Before
    <3>7. pc'[t] = "running" /\ \A s \in Tasks : s # t => pc'[s] = pc[s]
      BY <1>3 DEF TypeOK
    <3> QED
      BY <3>2, <3>4, <3>5, <3>6, <3>7 DEF LineOf
  <2> QED
    BY <2>2, <2>3
<1>12. {u \in Tasks : pc[u] = "running"}' = {u \in Tasks : pc[u] = "running"} \union {t}
  BY <1>3 DEF TypeOK
<1> QED
  BY <1>1, <1>9, <1>10, <1>11, <1>12 DEF Mutex!Start, Mutex!AtFront

\* What the steps that take an operation out of the line have in common: it neither runs
\* nor waits any more, and all others are where they were.
StepsOut(t) ==
    /\ pc' \in [Tasks -> States] /\ pc'[t] \notin {"running", "waiting", "woken"}
    /\ \A u \in Tasks \ {t} :
        /\ pc'[u] = pc[u] \/ (pc[u] = "waiting" /\ pc'[u] = "woken")
        /\ entryOf'[u] = entryOf[u]
        /\ \A s \in Tasks \ {t} :
            Waits(u) => (Before(waiters'[entryOf[u]], s, u) <=> Before(waiters[entryOf[u]], s, u))
    /\ UNCHANGED conv

LEMMA OthersMoveUp ==
    ASSUME IInv, NEW t \in Tasks, StepsOut(t)
    PROVE  /\ \A d \in Conversations : LineOf(d)' = LineOf(d) \ {t}
           /\ \A u \in Tasks : AheadOf(u)' = IF u = t THEN {} ELSE AheadOf(u) \ {t}
           /\ {u \in Tasks : pc[u] = "running"}' = {u \in Tasks : pc[u] = "running"} \ {t}
<1> USE DEF IInv
<1>1. \A u \in Tasks \ {t} : Waits(u)' = Waits(u) /\ (pc'[u] = "running" <=> pc[u] = "running")
  BY DEF StepsOut, Waits
<1>2. ~Waits(t)' /\ pc'[t] # "running" /\ conv' = conv
  BY DEF StepsOut, Waits
<1>3. \A d : LineOf(d)' = LineOf(d) \ {t}
  BY <1>1, <1>2 DEF LineOf
<1>4. AheadOf(t)' = {}
  BY <1>2 DEF AheadOf
<1>5. ASSUME NEW u \in Tasks, u # t
      PROVE  AheadOf(u)' = AheadOf(u) \ {t}
  <2>1. CASE ~Waits(u)
    BY <2>1, <1>1, <1>5 DEF AheadOf
  <2>2. CASE Waits(u)
    <3> DEFINE f == entryOf[u]
               c == conv[u]
    <3>1. entryOf'[u] = f /\ conv'[u] = c /\ Waits(u)'
      BY <2>2, <1>1, <1>2, <1>5 DEF StepsOut
    <3>2. AheadOf(u) = {s \in LineOf(c) : pc[s] = "running" \/ Before(waiters[f], s, u)}
      BY <2>2 DEF AheadOf
    <3>3. AheadOf(u)' = {s \in LineOf(c)' : pc'[s] = "running" \/ Before(waiters'[f], s, u)}
      BY <3>1 DEF AheadOf, Before, LineOf
    <3>4. LineOf(c)' = LineOf(c) \ {t}
      <4>1. LineOf(c)' = {s \in Tasks : conv'[s] = c /\ (pc'[s] = "running" \/ Waits(s)')}
        BY <1>2 DEF LineOf
      <4> QED
        BY <4>1, <1>1, <1>2 DEF LineOf
    <3>5. \A s \in LineOf(c) \ {t} :
            /\ pc'[s] = "running" <=> pc[s] = "running"
            /\ Before(waiters'[f], s, u) <=> Before(waiters[f], s, u)
      BY <1>1, <1>5, <2>2 DEF StepsOut, LineOf
    <3> QED
      BY <3>2, <3>3, <3>4, <3>5
  <2> QED
    BY <2>1, <2>2
<1>6. {u \in Tasks : pc[u] = "running"}' = {u \in Tasks : pc[u] = "running"} \ {t}
  BY <1>1, <1>2
<1> QED
  BY <1>3, <1>4, <1>5, <1>6

\* A call that is cancelled while it waits leaves the line at once.
LEMMA CancelAbandons ==
    ASSUME IInv, NEW t \in Tasks, NEW c \in Conversations, conv[t] = c, Cancel(t)
    PROVE  Mutex!Abandon(t, c)
<1> USE DEF IInv
<1>1. StepsOut(t)
  <2>1. /\ pc' \in [Tasks -> States] /\ pc'[t] \in {"cancelled", "aborting"}
        /\ \A u \in Tasks \ {t} : pc'[u] = pc[u]
        /\ UNCHANGED <<waiters, conv, entryOf>>
    BY DEF Cancel, TypeOK, States, InLine
  <2> QED
    BY <2>1 DEF StepsOut
<1>2. t \in LineOf(c) /\ pc[t] # "running"
  BY DEF Cancel, LineOf, Waits, TypeOK
<1>3. \A d \in Conversations : d # c => t \notin LineOf(d)
  BY DEF LineOf
<1>4. /\ \A d \in Conversations : LineOf(d)' = LineOf(d) \ {t}
      /\ \A u \in Tasks : AheadOf(u)' = IF u = t THEN {} ELSE AheadOf(u) \ {t}
      /\ {u \in Tasks : pc[u] = "running"}' = {u \in Tasks : pc[u] = "running"} \ {t}
  BY <1>1, OthersMoveUp
<1>5. Mutex!StepOut(t, c)
  <2>1. \A S : t \notin S => S \ {t} = S
    OBVIOUS
  <2>2. \A d \in Conversations : LineOf(d)' = IF d = c THEN LineOf(c) \ {t} ELSE LineOf(d)
    BY <2>1, <1>3, <1>4
  <2> QED
    BY <2>2, <1>4 DEF Mutex!StepOut
<1> QED
  BY <1>2, <1>4, <1>5 DEF Mutex!Abandon

\* The operation that ends leaves the front of its line.
LEMMA FinishLeaves ==
    ASSUME IInv, NEW t \in Tasks, NEW c \in Conversations, conv[t] = c, Finish(t)
    PROVE  Mutex!Leave(t, c)
<1> USE DEF IInv
<1> DEFINE e == entryOf[t]
<1>1. /\ pc[t] = "running" /\ e \in Entries /\ waiters[e] \in Seq(Tasks)
      /\ pc' = WakeUpFirst([pc EXCEPT ![t] = "idle"], waiters[e])
      /\ entryOf' = [entryOf EXCEPT ![t] = NoEntry]
      /\ UNCHANGED <<waiters, conv>>
  BY DEF Finish, TypeOK, Counted
<1>2. StepsOut(t)
  <2> DEFINE p == [pc EXCEPT ![t] = "idle"]
  <2>1. p \in [Tasks -> States] /\ p[t] = "idle" /\ \A u \in Tasks \ {t} : p[u] = pc[u]
    BY DEF TypeOK, States
  <2> HIDE DEF p
  <2>2. /\ pc' \in [Tasks -> States] /\ pc'[t] = "idle"
        /\ \A u \in Tasks \ {t} : pc'[u] = p[u] \/ (p[u] = "waiting" /\ pc'[u] = "woken")
    <3>1. pc' = WakeUpFirst(p, waiters[e])
      BY <1>1 DEF p
    <3>2. CASE pc' = p
      BY <2>1, <3>2
    <3>3. CASE pc' # p
      <4>1. /\ waiters[e][1] \in Tasks /\ p[waiters[e][1]] = "waiting"
            /\ pc' = [p EXCEPT ![waiters[e][1]] = "woken"]
        BY <2>1, <3>1, <3>3, <1>1, WakesAtMostTheFirst
      <4> QED
        BY <4>1, <2>1 DEF States, InLine
    <3> QED
      BY <3>2, <3>3
  <2>3. \A u \in Tasks \ {t} : entryOf'[u] = entryOf[u]
    BY <1>1 DEF TypeOK
  <2> QED
    BY <1>1, <2>1, <2>2, <2>3 DEF StepsOut
<1>3. t \in LineOf(c) /\ AheadOf(t) = {}
  BY <1>1 DEF LineOf, AheadOf, Waits, TypeOK
<1>4. \A d \in Conversations : d # c => t \notin LineOf(d)
  BY DEF LineOf
<1>5. /\ \A d \in Conversations : LineOf(d)' = LineOf(d) \ {t}
      /\ \A u \in Tasks : AheadOf(u)' = IF u = t THEN {} ELSE AheadOf(u) \ {t}
      /\ {u \in Tasks : pc[u] = "running"}' = {u \in Tasks : pc[u] = "running"} \ {t}
  BY <1>2, OthersMoveUp
<1>6. Mutex!StepOut(t, c)
  <2>1. \A S : t \notin S => S \ {t} = S
    OBVIOUS
  <2>2. \A d \in Conversations : LineOf(d)' = IF d = c THEN LineOf(c) \ {t} ELSE LineOf(d)
    BY <2>1, <1>4, <1>5
  <2> QED
    BY <2>2, <1>5 DEF Mutex!StepOut
<1> QED
  BY <1>1, <1>3, <1>5, <1>6 DEF Mutex!Leave, Mutex!AtFront

\* A cancelled call that gets out of asyncio's line has left the promised one before.
LEMMA AbortStutters ==
    ASSUME IInv, NEW t \in Tasks, Abort(t)
    PROVE  UNCHANGED Mutex!vars
<1> USE DEF IInv
<1> DEFINE e == entryOf[t]
<1>1. /\ pc[t] \in {"cancelled", "aborting"} /\ e \in Entries /\ waiters[e] \in Seq(Tasks)
      /\ \/ pc' = [pc EXCEPT ![t] = "idle"]
         \/ pc' = WakeUpFirst([pc EXCEPT ![t] = "idle"], waiters'[e])
      /\ entryOf' = [entryOf EXCEPT ![t] = NoEntry]
      /\ UNCHANGED conv
  BY DEF Abort, TypeOK, Counted
<1>0. DOMAIN waiters[e] = 1..Len(waiters[e])
  BY <1>1
<1>2. PICK n \in 1..Len(waiters[e]) :
        waiters[e][n] = t /\ waiters' = [waiters EXCEPT ![e] = RemoveAt(@, n)]
  BY <1>0 DEF Abort
<1>3. waiters'[e] = RemoveAt(waiters[e], n) /\ waiters'[e] \in Seq(Tasks)
  BY <1>1, <1>2, RemoveAtSeq DEF TypeOK
<1>4. StepsOut(t)
  <2> DEFINE p == [pc EXCEPT ![t] = "idle"]
  <2>1. p \in [Tasks -> States] /\ p[t] = "idle" /\ \A u \in Tasks \ {t} : p[u] = pc[u]
    BY DEF TypeOK, States
  <2>0. pc' = p \/ pc' = WakeUpFirst(p, waiters'[e])
    BY <1>1
  <2> HIDE DEF p
  <2>2. /\ pc' \in [Tasks -> States] /\ pc'[t] = "idle"
        /\ \A u \in Tasks \ {t} : pc'[u] = p[u] \/ (p[u] = "waiting" /\ pc'[u] = "woken")
    <3>2. CASE pc' = p
      BY <2>1, <3>2
    <3>3. CASE pc' # p
      <4> DEFINE w == waiters'[e]
      <4>0. w \in Seq(Tasks) /\ pc' = WakeUpFirst(p, w)
        BY <1>3, <2>0, <3>3
      <4> HIDE DEF w
      <4>1. /\ w[1] \in Tasks /\ p[w[1]] = "waiting"
            /\ pc' = [p EXCEPT ![w[1]] = "woken"]
        BY <2>1, <4>0, <3>3, WakesAtMostTheFirst
      <4> QED
        BY <4>1, <2>1 DEF States, InLine
    <3> QED
      BY <3>2, <3>3
  <2>3. \A u \in Tasks \ {t} : entryOf'[u] = entryOf[u]
    BY <1>1 DEF TypeOK
  <2>4. ASSUME NEW u \in Tasks \ {t}, NEW s \in Tasks \ {t}, Waits(u)
        PROVE  Before(waiters'[entryOf[u]], s, u) <=> Before(waiters[entryOf[u]], s, u)
    <3>1. entryOf[u] \in Entries
      BY <2>4 DEF Waits, Counted
    <3>2. CASE entryOf[u] # e
      BY <3>1, <3>2, <1>2 DEF TypeOK
    <3>3. CASE entryOf[u] = e
      <4>1. \A i, j \in 1..Len(waiters[e]) : waiters[e][i] = waiters[e][j] => i = j
        BY <1>1 DEF Lined
      <4> QED
        BY <4>1, <3>3, <1>1, <1>2, <1>3, LeavesOrder
    <3> QED
      BY <3>2, <3>3
  <2> QED
    BY <1>1, <2>1, <2>2, <2>3, <2>4 DEF StepsOut
<1>5. /\ \A d : t \notin LineOf(d)
      /\ AheadOf(t) = {} /\ \A u \in Tasks : t \notin AheadOf(u)
  BY <1>1 DEF LineOf, AheadOf, Waits
<1>6. /\ \A d \in Conversations : LineOf(d)' = LineOf(d) \ {t}
      /\ \A u \in Tasks : AheadOf(u)' = IF u = t THEN {} ELSE AheadOf(u) \ {t}
      /\ {u \in Tasks : pc[u] = "running"}' = {u \in Tasks : pc[u] = "running"} \ {t}
  BY <1>4, OthersMoveUp
<1>7. /\ \A d \in Conversations : LineOf(d)' = LineOf(d)
      /\ \A u \in Tasks : AheadOf(u)' = AheadOf(u)
  <2>1. \A S : t \notin S => S \ {t} = S
    OBVIOUS
  <2>2. \A d \in Conversations : LineOf(d)' = LineOf(d)
    BY <2>1, <1>5, <1>6
  <2>3. \A u \in Tasks : AheadOf(u)' = AheadOf(u)
    BY <2>1, <1>5, <1>6
  <2> QED
    BY <2>2, <2>3
<1>8. {u \in Tasks : pc[u] = "running"}' = {u \in Tasks : pc[u] = "running"}
  BY <1>1, <1>6
<1> QED
  BY <1>7, <1>8 DEF Mutex!vars

\* run(), its dictionary of locks and asyncio's lines are one first-come-first-served line
\* for each conversation, for any number of calls, conversations and entries.
THEOREM SchedulerImplementsMutex == Spec => ImplementsMutex
<1>1. Init => Mutex!Init
  BY DEF Init, Mutex!Init, LineOf, AheadOf, Waits
<1>2. IInv /\ [Next]_vars => [Mutex!Next]_(Mutex!vars)
  <2> SUFFICES ASSUME IInv, [Next]_vars PROVE [Mutex!Next]_(Mutex!vars)
    OBVIOUS
  <2>0. \A t \in Tasks : conv[t] \in Conversations
    BY DEF IInv, TypeOK
  <2>1. CASE UNCHANGED vars
    BY <2>1 DEF vars, Mutex!vars, LineOf, AheadOf, Waits, Before
  <2>2. ASSUME NEW t \in Tasks, NEW c \in Conversations, Arrive(t, c) PROVE Mutex!Next
    BY <2>2, ArriveEnters DEF Mutex!Next
  <2>3. ASSUME NEW t \in Tasks, Acquire(t) PROVE Mutex!Next
    BY <2>3, <2>0, AcquireStarts DEF Mutex!Next
  <2>4. ASSUME NEW t \in Tasks, Finish(t) PROVE Mutex!Next
    BY <2>4, <2>0, FinishLeaves DEF Mutex!Next
  <2>5. ASSUME NEW t \in Tasks, Cancel(t) PROVE Mutex!Next
    BY <2>5, <2>0, CancelAbandons DEF Mutex!Next
  <2>6. ASSUME NEW t \in Tasks, Abort(t) PROVE UNCHANGED Mutex!vars
    BY <2>6, AbortStutters
  <2> QED
    BY <2>1, <2>2, <2>3, <2>4, <2>5, <2>6 DEF Next
<1> QED
  BY <1>1, <1>2, Inductive, PTL DEF Spec, ImplementsMutex, Mutex!Spec

==============================================================================
