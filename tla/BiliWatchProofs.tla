--------------------------- MODULE BiliWatchProofs ---------------------------
(***************************************************************************)
(* NothingTwice, OncePerSession and NothingSkipped for any number of       *)
(* targets, savers, posts, pushes and restarts.                            *)
(*                                                                         *)
(* The argument: what a poll or a save has read of a row is used only if   *)
(* the row is still the one that was read, for a row made anew has an id   *)
(* of its own.  A message that is due has a delivery that is not marked    *)
(* sent, and between a confirmation and its mark only a restart can come.  *)
(* A session that has been pushed is remembered by its row's wasLive,      *)
(* which nobody but the poll writes, until the session is over.  And each  *)
(* cursor a row ever had, so that a save or a poll may write it again,     *)
(* covers only posts that have deliveries.                                 *)
(***************************************************************************)
EXTENDS BiliWatch, WellFoundedInduction, TLAPS

\* Everything has its type, and the bounds are not overrun.
Poll ==
    [pc : {"idle", "next", "fetch", "target", "item", "sending", "marking", "state"},
     phase : {"retry", "dynamic", "live"}, queue : SUBSET Item,
     targets : SUBSET Seen, left : SUBSET Seen, current : Seen \union {None},
     list : SUBSET Posts, session : Nat, todo : SUBSET Posts,
     item : Item \union {None}, ok : BOOLEAN]
Save ==
    [pc : {"idle", "baseline", "reading", "writing"}, group : Groups \union {None},
     set : Flags \union {None}, baseline : Cursors, found : Row \union {None}]
Left ==
    [posts : Nat, withdrawals : Nat, sessions : Nat, rows : [Groups -> 0..MaxRows],
     saves : Nat, restarts : Nat]

Types ==
    /\ rows \in [Groups -> Row \union {None}]
    /\ deliveries \in [Groups -> [Contents -> Delivery \union {None}]]
    /\ poll \in Poll
    /\ saver \in [Savers -> Save]
    /\ \A u \in Savers : saver[u].pc # "idle" => saver[u].group \in Groups /\ saver[u].set \in Flags
    /\ published \in 0..MaxPosts /\ withdrawn \subseteq 1..published
    /\ live \in Nat
    /\ budget \in Left /\ published + budget.posts <= MaxPosts
    /\ base \in [Groups -> Cursors]
    /\ sent \in [Groups -> [Contents -> 0..2]]
    /\ pushed \in [Pushes -> Push \union {None}]

\* What the poll holds where it is.
Busy == poll.pc \in {"sending", "marking"}
PollShape ==
    /\ Busy => poll.item # None
    /\ poll.pc = "next" => poll.phase = "retry"
    /\ poll.pc \in {"fetch", "target"} => poll.phase \in {"dynamic", "live"}
    /\ poll.pc = "item" => poll.phase = "dynamic"
    /\ poll.pc = "state" => poll.phase = "live"
    /\ poll.phase = "retry" => poll.targets = {} /\ poll.left = {} /\ poll.current = None
    /\ poll.phase # "retry" => poll.queue = {}
    /\ poll.pc \in {"fetch", "target"} => poll.current = None
    /\ poll.pc \in {"item", "state"} => poll.current # None
    /\ Busy /\ poll.phase # "retry" => poll.current # None
    /\ poll.todo \subseteq poll.list
    /\ poll.phase = "dynamic" /\ poll.pc # "fetch" => poll.list # {}
    /\ poll.phase # "dynamic" \/ poll.pc \in {"fetch", "target"} => poll.todo = {}

\* The rows that the poll has read.
SeenRows == poll.targets \union poll.left \union ({poll.current} \ {None})

\* An id that anybody knows is not given to a row again.
Fresh ==
    /\ \A g \in Groups : rows[g] # None => rows[g].id > budget.rows[g]
    /\ \A t \in SeenRows : t.row.id > budget.rows[t.group]
    /\ \A i \in poll.queue \union ({poll.item} \ {None}) : i.id > budget.rows[i.group]
    /\ \A u \in Savers : saver[u].pc = "writing" /\ saver[u].found # None =>
            saver[u].found.id > budget.rows[saver[u].group]
    /\ \A c \in Pushes : pushed[c] # None => pushed[c].id > budget.rows[pushed[c].group]

------------------------------------------------------------------------------
\* A delivery that may still be sent.
Unsent(i) ==
    Exists(i.group, i.id) =>
        /\ deliveries[i.group][i.content] # None
        /\ deliveries[i.group][i.content].status # "sent"

ItemOf(g, c) == [group |-> g, id |-> rows[g].id, content |-> c]

\* What was sent is marked so, or about to be, or a restart came between.
Recorded ==
    \A g \in Groups, c \in Contents : sent[g][c] > 0 =>
        \/ deliveries[g][c] # None /\ deliveries[g][c].status = "sent"
        \/ poll.pc = "marking" /\ poll.ok /\ poll.item = ItemOf(g, c)
        \/ ItemOf(g, c) \in cutOff

SentInv ==
    /\ \A g \in Groups, c \in Contents :
            rows[g] = None => deliveries[g][c] = None /\ sent[g][c] = 0
    /\ Recorded
    /\ NothingTwice
    /\ \A i \in poll.queue : Unsent(i)
    /\ Busy => Unsent(poll.item) /\ poll.item \notin poll.queue
    /\ \A c \in Pushes : pushed[c] = None => \A g \in Groups : deliveries[g][c] = None

------------------------------------------------------------------------------
\* Each session has a number of its own.
Sessions ==
    /\ live # 0 => live > budget.sessions
    /\ poll.session # 0 => poll.session > budget.sessions
    /\ \A c \in Pushes : pushed[c] # None => pushed[c].session > budget.sessions

Looking == poll.phase = "live" /\ poll.pc \in {"target", "sending", "marking", "state"}

\* The poll has read one row of each target, and its wasLive is still true.
OneRowEach ==
    /\ Looking => poll.targets = {}
    /\ \A t, u \in poll.targets : t.group = u.group => t = u
    /\ \A t, u \in poll.left : t.group = u.group => t = u
    /\ \A t \in poll.left : poll.current # None => t.group # poll.current.group
    /\ \A t \in poll.targets \union poll.left :
            Exists(t.group, t.row.id) => rows[t.group].wasLive = t.row.wasLive

PushOf(g, id, s) == [group |-> g, id |-> id, session |-> s]

\* The poll is telling a target of the session.
Telling(g) ==
    /\ poll.phase = "live" /\ poll.pc \in {"sending", "marking", "state"}
    /\ poll.current.group = g /\ poll.current.row.id = rows[g].id

\* A push to a row that exists is remembered by the row, or about to be, or its session
\* is over, or a restart came between.
Remembered ==
    \A c \in Pushes : pushed[c] # None =>
        \/ ~Exists(pushed[c].group, pushed[c].id)
        \/ rows[pushed[c].group].wasLive
        \/ Telling(pushed[c].group) /\ poll.session = pushed[c].session
        \/ pushed[c].session # live
        \/ pushed[c] \in cutOff

\* Whom the poll will tell of a session it has not told before; and when it has seen the
\* creator offline, all sessions that were pushed are over.
Untold ==
    /\ Looking => \A t \in poll.left, c \in Pushes :
            ~t.row.wasLive /\ pushed[c] = PushOf(t.group, t.row.id, poll.session)
            => pushed[c] \in cutOff \/ ~Exists(t.group, t.row.id)
    /\ Looking /\ poll.session = 0 =>
            \A c \in Pushes : pushed[c] # None => pushed[c].session # live

OnceInv == Sessions /\ OneRowEach /\ Remembered /\ Untold /\ OncePerSession

------------------------------------------------------------------------------
\* The posts up to v that count for a target have deliveries.
First(p) == \A q \in 1..(p - 1) : TimeOf[q] < TimeOf[p]
Covered(g, v) ==
    base[g] # None /\ v # None =>
        \A p \in Listed : base[g] < TimeOf[p] /\ TimeOf[p] <= v /\ First(p)
            => deliveries[g][p] # None

\* No post is yet to come that is older than v.
Past(v) == v # None => v = 0 \/ \E q \in 1..published : v <= TimeOf[q]

\* A cursor that a row has had.
CursorOK(g, v) ==
    /\ Covered(g, v)
    /\ Past(v)
    /\ base[g] = None => v = None

Cursored ==
    /\ \A g \in Groups : rows[g] # None => CursorOK(g, rows[g].cursor)
    /\ \A g \in Groups : rows[g] = None => base[g] = None
    /\ \A t \in SeenRows : Exists(t.group, t.row.id) => CursorOK(t.group, t.row.cursor)
    /\ \A u \in Savers :
            saver[u].pc = "writing" /\ saver[u].found # None
                /\ Exists(saver[u].group, saver[u].found.id)
            => CursorOK(saver[u].group, saver[u].found.cursor)
    /\ \A u \in Savers : saver[u].pc # "idle" => Past(saver[u].baseline)

\* The list is what there was when it was fetched, less what was withdrawn since; and the
\* posts of the current target that are done with have deliveries.
Reading == poll.phase = "dynamic" /\ poll.pc \in {"target", "item", "sending", "marking"}
ListOK ==
    Reading =>
        /\ poll.list # {} /\ poll.list \subseteq 1..published
        /\ \A p \in Listed \ poll.list : \A q \in poll.list : q < p
DoneOK ==
    Reading /\ poll.pc # "target" /\ Exists(poll.current.group, poll.current.row.id) =>
        \A p \in Candidates(poll.current, poll.list) \ poll.todo :
            deliveries[poll.current.group][p] # None

SkipInv == Cursored /\ ListOK /\ DoneOK

IInv == Types /\ PollShape /\ Fresh /\ SentInv /\ OnceInv /\ SkipInv

------------------------------------------------------------------------------
(* Lemmas about the operators *)

\* The lesser of two numbers.
LEMMA MinOfTwo ==
    ASSUME NEW a \in Nat, NEW b \in Nat
    PROVE  Min({a, b}) = IF a <= b THEN a ELSE b
<1>1. \E x \in {a, b} : \A y \in {a, b} : x <= y
  OBVIOUS
<1>2. Min({a, b}) \in {a, b} /\ \A y \in {a, b} : Min({a, b}) <= y
  BY <1>1 DEF Min
<1> QED
  BY <1>2

LEMMA MaxOfTwo ==
    ASSUME NEW a \in Nat, NEW b \in Nat
    PROVE  Max({a, b}) = IF a <= b THEN b ELSE a
<1>1. \E x \in {a, b} : \A y \in {a, b} : x >= y
  OBVIOUS
<1>2. Max({a, b}) \in {a, b} /\ \A y \in {a, b} : Max({a, b}) >= y
  BY <1>1 DEF Max
<1> QED
  BY <1>2

\* A set of posts has a last one.
LEMMA LastPost ==
    ASSUME NEW S \in SUBSET Posts, S # {}
    PROVE  \E p \in S : \A q \in S : q <= p
<1> DEFINE R == OpToRel(<, Nat)
           T == {MaxPosts - p : p \in S}
<1>1. T \subseteq Nat /\ T # {}
  <2>1. \A p \in S : MaxPosts - p \in Nat
    BY BoundsAssumption DEF Posts
  <2> QED
    BY <2>1
<1>2. PICK m \in T : \A k \in T : ~(<<k, m>> \in R)
  <2>1. IsWellFoundedOn(R, Nat)
    BY NatLessThanWellFounded
  <2> HIDE DEF R, T
  <2> QED
    BY <2>1, <1>1, WFMin
<1>3. \A k \in T : ~(k < m)
  <2> TAKE k \in T
  <2>1. k \in Nat /\ m \in Nat
    BY <1>1
  <2>2. k < m => <<k, m>> \in R
    BY <2>1 DEF OpToRel
  <2> QED
    BY <2>2, <1>2
<1>4. PICK p \in S : m = MaxPosts - p
  BY <1>2
<1>5. \A q \in S : q <= p
  <2> TAKE q \in S
  <2>1. ~(MaxPosts - q < m)
    BY <1>3
  <2>2. p \in Int /\ q \in Int /\ MaxPosts \in Int
    BY BoundsAssumption DEF Posts
  <2> QED
    BY <2>1, <2>2, <1>4
<1> QED
  BY <1>5

\* The newest timestamp of a list is that of one of its posts, and none is newer.
LEMMA NewestIsLast ==
    ASSUME NEW S \in SUBSET Posts, S # {}
    PROVE  /\ \E p \in S : Newest(S) = TimeOf[p]
           /\ \A p \in S : TimeOf[p] <= Newest(S)
           /\ Newest(S) \in Nat \ {0}
           /\ Newest(S) \in Cursors
<1> DEFINE T == {TimeOf[p] : p \in S}
<1>1. PICK p \in S : \A q \in S : q <= p
  BY LastPost
<1>2. \A q \in S : TimeOf[q] <= TimeOf[p] /\ TimeOf[q] \in Nat \ {0}
  <2> TAKE q \in S
  <2>1. q \in Posts /\ p \in Posts /\ q <= p /\ q \in Int /\ p \in Int
    BY <1>1 DEF Posts
  <2>2. q < p \/ q = p
    BY <2>1
  <2> QED
    BY <2>1, <2>2, TimeAssumption
<1>3. \E x \in T : \A y \in T : x >= y
  <2>1. TimeOf[p] \in T /\ \A y \in T : TimeOf[p] >= y
    BY <1>2
  <2> QED
    BY <2>1
<1>4. Max(T) \in T /\ \A y \in T : Max(T) >= y
  <2> HIDE DEF T
  <2> QED
    BY <1>3 DEF Max
<1>5. Newest(S) = Max(T)
  BY DEF Newest
<1>6. PICK r \in S : Newest(S) = TimeOf[r]
  BY <1>4, <1>5
<1>7. \A q \in S : TimeOf[q] <= Newest(S)
  <2> TAKE q \in S
  <2>1. Newest(S) >= TimeOf[q]
    BY <1>4, <1>5
  <2> QED
    BY <2>1, <1>2, <1>6
<1> QED
  BY <1>2, <1>6, <1>7 DEF Cursors

\* Cursors are seconds, or none.
LEMMA CursorIsTime == Cursors \subseteq Nat \union {None}
BY TimeAssumption DEF Cursors

LEMMA LaterIsCursor ==
    ASSUME NEW a \in Cursors, NEW b \in Cursors
    PROVE  /\ Later(a, b) \in Cursors
           /\ a # None => Later(a, b) # None /\ a <= Later(a, b)
           /\ b # None => Later(a, b) # None /\ b <= Later(a, b)
           /\ Later(a, b) = None => a = None /\ b = None
<1>1. (a \in Nat \/ a = None) /\ (b \in Nat \/ b = None) /\ None \notin Nat
  BY CursorIsTime, NoneAssumption
<1>2. CASE a = None
  BY <1>1, <1>2 DEF Later
<1>3. CASE b = None /\ a # None
  BY <1>1, <1>3 DEF Later
<1>4. CASE a # None /\ b # None
  <2>1. Later(a, b) = IF a <= b THEN b ELSE a
    BY <1>1, <1>4, MaxOfTwo DEF Later
  <2> QED
    BY <2>1, <1>1, <1>4
<1> QED
  BY <1>2, <1>3, <1>4

LEMMA ListedArePosts ==
    ASSUME Types
    PROVE  Listed \subseteq 1..published /\ 1..published \subseteq Posts
BY BoundsAssumption DEF Types, Listed, Posts

------------------------------------------------------------------------------
(* Types *)

\* The parts of what is read and sent.
LEMMA SeenParts ==
    ASSUME NEW t \in Seen
    PROVE  /\ t.group \in Groups /\ t.row \in Row
           /\ t.row.id \in 1..MaxRows /\ t.row.id \in Nat
           /\ t.row.set \in Flags /\ t.row.cursor \in Cursors /\ t.row.wasLive \in BOOLEAN
BY BoundsAssumption DEF Seen, Row

LEMMA ItemParts ==
    ASSUME NEW i \in Item
    PROVE  i.group \in Groups /\ i.id \in 1..MaxRows /\ i.id \in Nat /\ i.content \in Contents
BY BoundsAssumption DEF Item

LEMMA RowParts ==
    ASSUME Types, NEW g \in Groups, rows[g] # None
    PROVE  /\ rows[g] \in Row /\ rows[g].id \in 1..MaxRows /\ rows[g].id \in Nat
           /\ rows[g].set \in Flags /\ rows[g].cursor \in Cursors /\ rows[g].wasLive \in BOOLEAN
<1>1. rows[g] \in Row
  BY DEF Types
<1> QED
  BY <1>1, BoundsAssumption DEF Row

\* A delivery is queued, if there is none.
LEMMA QueuedTypes ==
    ASSUME Types, NEW g \in Groups, NEW c \in Contents
    PROVE  /\ Queued(g, c) \in [Groups -> [Contents -> Delivery \union {None}]]
           /\ Queued(g, c)[g][c] # None
           /\ deliveries[g][c] # None => Queued(g, c) = deliveries
           /\ deliveries[g][c] = None => Queued(g, c)[g][c].status = "pending"
           /\ \A h \in Groups, d \in Contents :
                h # g \/ d # c => Queued(g, c)[h][d] = deliveries[h][d]
<1> DEFINE new == [status |-> "pending", attempts |-> 0]
<1>1. new \in Delivery /\ new # None /\ new.status = "pending"
  BY BoundsAssumption, NoneAssumption DEF Delivery
<1>2. deliveries \in [Groups -> [Contents -> Delivery \union {None}]]
  BY DEF Types
<1>3. Queued(g, c) = IF deliveries[g][c] = None
                     THEN [deliveries EXCEPT ![g] = [deliveries[g] EXCEPT ![c] = new]]
                     ELSE deliveries
  BY DEF Queued
<1> HIDE DEF new
<1> QED
  BY <1>1, <1>2, <1>3

LEMMA NoPollTypes == NoPoll \in Poll
BY NoneAssumption DEF NoPoll, Poll

LEMMA GoLiveTypes ==
    ASSUME poll \in Poll
    PROVE  GoLive \in Poll
BY DEF GoLive, Poll

LEMMA PollStaysPoll ==
    ASSUME Types, PollShape, PollStep
    PROVE  poll' \in Poll /\ PollShape'
<1>0. poll \in Poll
  BY DEF Types
<1> USE <1>0
<1>1. CASE StartPoll
  <2>1. poll' = [NoPoll EXCEPT !.pc = "next", !.queue = Retriable] /\ Retriable \subseteq Item
    BY <1>1 DEF StartPoll, Retriable
  <2> QED
    BY <2>1, NoneAssumption DEF NoPoll, Poll, PollShape, Busy
<1>2. CASE ReadSubscriptions
  <2> DEFINE S == {[group |-> g, row |-> rows[g]] : g \in {h \in Groups : rows[h] # None /\ rows[h].set.enabled}}
  <2>1. S \subseteq Seen
    BY RowParts DEF Seen
  <2>2. poll' = [poll EXCEPT !.pc = "fetch", !.phase = "dynamic", !.targets = S]
        /\ poll.pc = "next" /\ poll.queue = {}
    BY <1>2 DEF ReadSubscriptions
  <2> HIDE DEF S
  <2> QED
    BY <2>1, <2>2 DEF Poll, PollShape, Busy
<1>3. CASE FetchDynamics
  <2>1. Listed \in SUBSET Posts
    BY ListedArePosts
  <2> DEFINE W == {t \in poll.targets : t.row.set.dynamic}
  <2>2. W \subseteq Seen
    BY DEF Poll
  <2>3. \/ poll' = GoLive
        \/ Listed # {} /\ poll' = [poll EXCEPT !.pc = "target", !.left = W, !.list = Listed]
    BY <1>3 DEF FetchDynamics
  <2>4. poll.pc = "fetch" /\ poll.phase = "dynamic"
    BY <1>3 DEF FetchDynamics
  <2> HIDE DEF W
  <2> QED
    BY <2>1, <2>2, <2>3, <2>4 DEF Poll, PollShape, Busy, GoLive
<1>4. CASE NoTargetLeft
  BY <1>4 DEF NoTargetLeft, Poll, PollShape, Busy, GoLive
<1>5. CASE MoveCursor
  BY <1>5 DEF MoveCursor, Poll, PollShape, Busy
<1>6. CASE FetchLive
  <2> DEFINE W == {t \in poll.targets : t.row.set.live}
  <2>1. W \subseteq Seen /\ live \in Nat
    BY DEF Poll, Types
  <2>2. \/ poll' = NoPoll
        \/ poll' = [poll EXCEPT !.pc = "target", !.targets = {}, !.left = W, !.session = live]
    BY <1>6 DEF FetchLive
  <2>3. poll.pc = "fetch" /\ poll.phase = "live"
    BY <1>6 DEF FetchLive
  <2> HIDE DEF W
  <2>4. CASE poll' = NoPoll
    BY <2>4, NoPollTypes DEF NoPoll, PollShape, Busy
  <2>5. CASE poll' # NoPoll
    BY <2>1, <2>2, <2>3, <2>5 DEF Poll, PollShape, Busy
  <2> QED
    BY <2>4, <2>5
<1>7. CASE SetLive
  BY <1>7 DEF SetLive, Poll, PollShape, Busy
<1>8. CASE EndPoll
  BY <1>8, NoPollTypes DEF EndPoll, NoPoll, PollShape, Busy
<1>9. CASE Mark
  <2>1. /\ poll.pc = "marking"
        /\ poll' = [poll EXCEPT !.item = None, !.ok = @ /\ poll.phase = "live",
                        !.pc = CASE poll.phase = "retry" -> "next"
                                 [] poll.phase = "dynamic" -> "item"
                                 [] poll.phase = "live" -> "state"]
    BY <1>9 DEF Mark
  <2>2. poll.phase \in {"retry", "dynamic", "live"} /\ (poll.ok /\ poll.phase = "live") \in BOOLEAN
    BY DEF Poll
  <2> DEFINE pc == CASE poll.phase = "retry" -> "next"
                     [] poll.phase = "dynamic" -> "item"
                     [] poll.phase = "live" -> "state"
             ok == poll.ok /\ poll.phase = "live"
  <2>3. poll' \in Poll
    <3>1. pc \in {"next", "item", "state"} /\ ok \in BOOLEAN
      BY <2>2
    <3>2. poll' = [poll EXCEPT !.item = None, !.ok = ok, !.pc = pc]
      BY <2>1
    <3> HIDE DEF pc, ok
    <3> QED
      BY <3>1, <3>2 DEF Poll
  <2>4. /\ poll'.item = None /\ ~Busy'
        /\ poll.phase = "retry" => poll'.pc = "next"
        /\ poll.phase = "dynamic" => poll'.pc = "item"
        /\ poll.phase = "live" => poll'.pc = "state"
        /\ poll'.phase = poll.phase /\ poll'.targets = poll.targets /\ poll'.left = poll.left
        /\ poll'.queue = poll.queue /\ poll'.current = poll.current
        /\ poll'.todo = poll.todo /\ poll'.list = poll.list
    BY <2>1, <2>2 DEF Poll, Busy
  <2> QED
    BY <2>1, <2>2, <2>3, <2>4 DEF PollShape, Busy
<1>10. CASE \E i \in poll.queue : Retry(i)
  <2> PICK i \in poll.queue : Retry(i)
    BY <1>10
  <2>1. i \in Item /\ i # None
    BY NoneAssumption DEF Poll
  <2> QED
    BY <2>1 DEF Retry, Poll, PollShape, Busy
<1>11. CASE \E t \in poll.left : NextTarget(t) \/ PushLive(t) \/ NothingToPush(t)
  <2> PICK t \in poll.left : NextTarget(t) \/ PushLive(t) \/ NothingToPush(t)
    BY <1>11
  <2>1. t \in Seen /\ t # None
    BY NoneAssumption DEF Poll
  <2>2. CASE NextTarget(t)
    <3>1. Candidates(t, poll.list) \subseteq poll.list /\ poll.list \subseteq Posts
      BY DEF Candidates, Poll
    <3> QED
      BY <2>1, <2>2, <3>1 DEF NextTarget, Poll, PollShape, Busy
  <2>3. CASE NothingToPush(t)
    BY <2>1, <2>3 DEF NothingToPush, Poll, PollShape, Busy
  <2>4. CASE PushLive(t)
    <3>1. CASE poll' = NoPoll
      BY <3>1, NoPollTypes DEF NoPoll, PollShape, Busy
    <3>2. CASE poll' # NoPoll
      <4>1. PICK c \in Pushes :
              poll' = [poll EXCEPT !.pc = "sending", !.current = t, !.left = @ \ {t},
                        !.item = [group |-> t.group, id |-> t.row.id, content |-> c]]
        BY <2>4, <3>2 DEF PushLive
      <4> DEFINE i == [group |-> t.group, id |-> t.row.id, content |-> c]
      <4>2. i \in Item
        BY <2>1, SeenParts DEF Item, Contents
      <4>3. i # None
        BY <4>2, NoneAssumption
      <4>4. poll' = [poll EXCEPT !.pc = "sending", !.current = t, !.left = @ \ {t}, !.item = i]
        BY <4>1
      <4> HIDE DEF i
      <4> QED
        BY <2>1, <2>4, <4>2, <4>3, <4>4 DEF PushLive, Poll, PollShape, Busy
    <3> QED
      BY <3>1, <3>2
  <2> QED
    BY <2>2, <2>3, <2>4
<1>12. CASE \E p \in poll.todo : NextPost(p)
  <2> PICK p \in poll.todo : NextPost(p)
    BY <1>12
  <2>1. CASE poll' = GoLive
    BY <2>1, GoLiveTypes DEF NextPost, GoLive, Poll, PollShape, Busy
  <2>2. CASE QueueAndSend(poll.current, p)
    <3> DEFINE t == poll.current
               i == [group |-> t.group, id |-> t.row.id, content |-> p]
    <3>1. t \in Seen
      BY DEF NextPost, PollShape, Poll
    <3>2. i \in Item
      <4>1. p \in Contents
        BY DEF Contents, Poll
      <4> QED
        BY <3>1, <4>1, SeenParts DEF Item
    <3>3. i # None
      BY <3>2, NoneAssumption
    <3>4. \/ poll' = [poll EXCEPT !.todo = @ \ {p}, !.pc = "item", !.item = None]
          \/ poll' = [poll EXCEPT !.todo = @ \ {p}, !.pc = "sending", !.item = i]
      BY <2>2 DEF QueueAndSend
    <3>5. poll.pc = "item" /\ poll.phase = "dynamic"
      BY DEF NextPost
    <3> HIDE DEF i, t
    <3>6. CASE poll' = [poll EXCEPT !.todo = @ \ {p}, !.pc = "item", !.item = None]
      BY <3>5, <3>6 DEF Poll, PollShape, Busy
    <3>7. CASE poll' = [poll EXCEPT !.todo = @ \ {p}, !.pc = "sending", !.item = i]
      BY <3>2, <3>3, <3>5, <3>7 DEF Poll, PollShape, Busy
    <3> QED
      BY <3>4, <3>6, <3>7
  <2> QED
    BY <2>1, <2>2 DEF NextPost
<1>13. CASE \E ok \in BOOLEAN : Send(ok)
  <2> PICK ok \in BOOLEAN : Send(ok)
    BY <1>13
  <2> QED
    BY DEF Send, Poll, PollShape, Busy
<1> QED
  BY <1>1, <1>2, <1>3, <1>4, <1>5, <1>6, <1>7, <1>8, <1>9, <1>10, <1>11, <1>12, <1>13 DEF PollStep

\* The saves have their types, and only they write the row of a target.
LEMMA SaversStaySavers ==
    ASSUME Types, NEW u \in Savers,
           \/ FetchBaseline(u) \/ ReadAgain(u) \/ WriteRow(u)
           \/ \E g \in Groups, s \in Settings : BeginSave(u, g, s)
    PROVE  /\ saver' \in [Savers -> Save]
           /\ \A v \in Savers : saver'[v].pc # "idle" => saver'[v].group \in Groups /\ saver'[v].set \in Flags
<1> DEFINE Good(f) == f \in Save /\ (f.pc # "idle" => f.group \in Groups /\ f.set \in Flags)
<1>1. /\ saver \in [Savers -> Save] /\ \A v \in Savers : Good(saver[v])
  BY DEF Types
<1>2. Good(NoSave)
  BY DEF NoSave, Save, Cursors
<1>3. PICK f : saver' = [saver EXCEPT ![u] = f] /\ Good(f)
  <2>1. CASE FetchBaseline(u)
    <3>1. PICK b \in {None, IF Listed = {} THEN 0 ELSE Newest(Listed)} :
            saver' = [saver EXCEPT ![u].pc = "reading", ![u].baseline = b]
      BY <2>1 DEF FetchBaseline
    <3>2. b \in Cursors
      BY ListedArePosts, NewestIsLast DEF Cursors
    <3> DEFINE f == [saver[u] EXCEPT !.pc = "reading", !.baseline = b]
    <3>3. saver' = [saver EXCEPT ![u] = f]
      BY <3>1, <1>1 DEF Save
    <3>4. Good(f)
      BY <3>2, <1>1, <2>1 DEF Save, FetchBaseline
    <3> QED
      BY <3>3, <3>4
  <2>2. CASE ReadAgain(u)
    <3> DEFINE f == [saver[u] EXCEPT !.pc = "writing", !.found = rows[saver[u].group]]
    <3>1. saver' = [saver EXCEPT ![u] = f] /\ saver[u].pc = "reading"
      BY <2>2, <1>1 DEF ReadAgain, Save
    <3>2. rows[saver[u].group] \in Row \union {None}
      BY <3>1 DEF Types
    <3>3. Good(f)
      BY <3>1, <3>2, <1>1 DEF Save
    <3> QED
      BY <3>1, <3>3
  <2>3. CASE WriteRow(u)
    BY <2>3, <1>2 DEF WriteRow
  <2>4. CASE \E g \in Groups, s \in Settings : BeginSave(u, g, s)
    <3> PICK g \in Groups, s \in Settings : BeginSave(u, g, s)
      BY <2>4
    <3> DEFINE b == IF rows[g] = None THEN None ELSE rows[g].cursor
               pc == IF rows[g] = None /\ s.dynamic THEN "baseline" ELSE "reading"
               f == [NoSave EXCEPT !.pc = pc, !.group = g, !.set = s, !.baseline = b]
    <3>1. saver' = [saver EXCEPT ![u] = f]
      BY DEF BeginSave
    <3>2. b \in Cursors /\ pc \in {"baseline", "reading"} /\ s \in Flags
      BY RowParts, SettingsAssumption DEF Cursors
    <3> HIDE DEF b, pc
    <3>3. Good(f)
      BY <3>2 DEF NoSave, Save
    <3> QED
      BY <3>1, <3>3
  <2> QED
    BY <2>1, <2>2, <2>3, <2>4
<1>4. saver' \in [Savers -> Save] /\ \A v \in Savers : Good(saver'[v])
  <2> HIDE DEF Good
  <2>1. f \in Save
    BY <1>3 DEF Good
  <2> QED
    BY <1>1, <1>3, <2>1
<1> QED
  BY <1>4

\* What a poll writes has its type.
LEMMA PollWritesTypes ==
    ASSUME Types, PollShape, SentInv, PollStep
    PROVE  /\ rows' \in [Groups -> Row \union {None}]
           /\ deliveries' \in [Groups -> [Contents -> Delivery \union {None}]]
           /\ base' \in [Groups -> Cursors]
           /\ sent' \in [Groups -> [Contents -> 0..2]]
           /\ pushed' \in [Pushes -> Push \union {None}]
<1>0. /\ rows \in [Groups -> Row \union {None}]
      /\ deliveries \in [Groups -> [Contents -> Delivery \union {None}]]
      /\ base \in [Groups -> Cursors]
      /\ sent \in [Groups -> [Contents -> 0..2]]
      /\ pushed \in [Pushes -> Push \union {None}]
      /\ poll \in Poll
  BY DEF Types
<1>1. CASE MoveCursor
  <2> DEFINE t == poll.current
             g == t.group
             k == Newest(poll.list)
  <2>1. UNCHANGED <<deliveries, sent, pushed>> /\ poll.pc = "item" /\ poll.phase = "dynamic"
    BY <1>1 DEF MoveCursor
  <2>2. CASE UNCHANGED <<rows, base>>
    BY <2>1, <2>2, <1>0
  <2>3. CASE Exists(g, t.row.id) /\ poll.list # {}
    <3>1. t \in Seen /\ g \in Groups
      BY <2>1, <1>0, SeenParts DEF PollShape, Poll
    <3>2. k \in Cursors
      BY <1>0, <2>3, NewestIsLast DEF Poll
    <3>3. /\ rows' = [rows EXCEPT ![g].cursor = k]
          /\ base' = base \/ base' = [base EXCEPT ![g] = Later(@, k)]
      BY <1>1, <2>3 DEF MoveCursor
    <3>4. rows[g] \in Row
      BY <1>0, <3>1, <2>3 DEF Exists
    <3>5. [rows[g] EXCEPT !.cursor = k] \in Row
      BY <3>2, <3>4 DEF Row
    <3>6. rows' = [rows EXCEPT ![g] = [rows[g] EXCEPT !.cursor = k]]
      BY <3>3
    <3>7. Later(base[g], k) \in Cursors
      BY <1>0, <3>1, <3>2, LaterIsCursor
    <3> HIDE DEF g, k, t
    <3> QED
      BY <1>0, <2>1, <3>1, <3>3, <3>5, <3>6, <3>7
  <2>4. poll.list # {}
    BY <2>1 DEF PollShape
  <2> QED
    BY <1>1, <2>2, <2>3, <2>4 DEF MoveCursor
<1>2. CASE SetLive
  <2> DEFINE t == poll.current
             g == t.group
             on == poll.session # 0
  <2>1. UNCHANGED <<deliveries, sent, pushed, base>> /\ poll.pc = "state"
    BY <1>2 DEF SetLive
  <2>2. CASE rows' = rows
    BY <2>1, <2>2, <1>0
  <2>3. CASE Exists(g, t.row.id)
    <3>1. t \in Seen /\ g \in Groups
      BY <2>1, <1>0, SeenParts DEF PollShape, Poll
    <3>2. rows' = [rows EXCEPT ![g].wasLive = on]
      BY <1>2, <2>3 DEF SetLive
    <3>3. rows' = [rows EXCEPT ![g] = [rows[g] EXCEPT !.wasLive = on]]
      BY <3>2
    <3>4. rows[g] \in Row
      BY <1>0, <3>1, <2>3 DEF Exists
    <3>5. [rows[g] EXCEPT !.wasLive = on] \in Row
      BY <3>4 DEF Row
    <3> HIDE DEF g, t, on
    <3> QED
      BY <1>0, <2>1, <3>1, <3>3, <3>5
  <2> QED
    BY <1>2, <2>2, <2>3 DEF SetLive
<1>3. CASE Mark
  <2> DEFINE i == poll.item
  <2>1. UNCHANGED <<rows, sent, pushed, base>> /\ Busy /\ i \in Item
    BY <1>0, <1>3 DEF Mark, Busy, PollShape, Poll
  <2>2. CASE deliveries' = deliveries
    BY <2>1, <2>2, <1>0
  <2>3. CASE Exists(i.group, i.id)
    <3> DEFINE d == deliveries[i.group][i.content]
               n == [status |-> IF poll.ok THEN "sent" ELSE "failed",
                     attempts |-> Min({MaxAttempts, d.attempts + 1})]
    <3>1. i.group \in Groups /\ i.content \in Contents
      BY <2>1, ItemParts
    <3>2. d \in Delivery
      BY <2>1, <2>3, <3>1, <1>0 DEF SentInv, Unsent
    <3>3. d.attempts \in Nat
      BY <3>2, BoundsAssumption DEF Delivery
    <3>4. Min({MaxAttempts, d.attempts + 1}) \in 0..MaxAttempts
      BY <3>3, MinOfTwo, BoundsAssumption
    <3>5. n \in Delivery
      BY <3>4 DEF Delivery
    <3>6. deliveries' = [deliveries EXCEPT ![i.group][i.content] = n]
      BY <1>3, <2>3 DEF Mark
    <3> HIDE DEF n, i
    <3> QED
      BY <1>0, <2>1, <3>1, <3>5, <3>6
  <2> QED
    BY <1>3, <2>2, <2>3 DEF Mark
<1>4. CASE \E t \in poll.left : PushLive(t)
  <2> PICK t \in poll.left : PushLive(t)
    BY <1>4
  <2>1. t \in Seen /\ t.group \in Groups /\ t.row.id \in 1..MaxRows
    BY <1>0, SeenParts DEF Poll
  <2>2. UNCHANGED <<rows, sent, base>>
    BY DEF PushLive
  <2>3. CASE UNCHANGED <<deliveries, pushed>>
    BY <1>0, <2>2, <2>3
  <2>4. CASE ~UNCHANGED <<deliveries, pushed>>
    <3>1. PICK c \in Pushes :
            /\ pushed' = [pushed EXCEPT ![c] = [group |-> t.group, id |-> t.row.id, session |-> poll.session]]
            /\ deliveries' = Queued(t.group, c)
      BY <2>4 DEF PushLive
    <3>2. [group |-> t.group, id |-> t.row.id, session |-> poll.session] \in Push
      BY <1>0, <2>1 DEF Push, Poll
    <3>3. c \in Contents
      BY DEF Contents
    <3>4. deliveries' \in [Groups -> [Contents -> Delivery \union {None}]]
      BY <2>1, <3>1, <3>3, QueuedTypes
    <3> QED
      BY <1>0, <2>2, <3>1, <3>2, <3>4
  <2> QED
    BY <2>3, <2>4
<1>5. CASE \E p \in poll.todo : NextPost(p)
  <2> PICK p \in poll.todo : NextPost(p)
    BY <1>5
  <2>1. UNCHANGED <<rows, sent, base, pushed>>
    BY DEF NextPost
  <2>2. poll.current \in Seen /\ poll.current.group \in Groups
    BY <1>0, SeenParts DEF NextPost, PollShape, Poll
  <2>3. p \in Contents
    BY <1>0 DEF Poll, Contents
  <2>4. deliveries' = deliveries \/ deliveries' = Queued(poll.current.group, p)
    BY DEF NextPost, QueueAndSend
  <2> QED
    BY <1>0, <2>1, <2>2, <2>3, <2>4, QueuedTypes
<1>6. CASE \E ok \in BOOLEAN : Send(ok)
  <2> DEFINE i == poll.item
  <2>1. UNCHANGED <<rows, deliveries, base, pushed>> /\ Busy /\ i \in Item
    BY <1>0, <1>6 DEF Send, Busy, PollShape, Poll
  <2>2. i.group \in Groups /\ i.content \in Contents
    BY <2>1, ItemParts
  <2> DEFINE g == i.group
             c == i.content
             k == sent[g][c]
             n == Min({2, k + 1})
  <2>3. n \in 0..2
    <3>1. k \in 0..2
      BY <1>0, <2>2
    <3>2. k \in Nat
      BY <3>1
    <3> HIDE DEF k
    <3> QED
      BY <3>1, <3>2, MinOfTwo
  <2>4. sent' = sent \/ sent' = [sent EXCEPT ![g] = [sent[g] EXCEPT ![c] = n]]
    BY <1>6 DEF Send
  <2> HIDE DEF n, g, c
  <2>5. sent' \in [Groups -> [Contents -> 0..2]]
    <3>1. g \in Groups /\ c \in Contents
      BY <2>2 DEF g, c
    <3>2. [sent[g] EXCEPT ![c] = n] \in [Contents -> 0..2]
      BY <1>0, <2>3, <3>1
    <3> QED
      BY <1>0, <2>4, <3>1, <3>2
  <2> QED
    BY <1>0, <2>1, <2>5
<1>7. CASE UNCHANGED <<rows, deliveries, base, sent, pushed>>
  BY <1>0, <1>7
<1>8. \/ UNCHANGED <<rows, deliveries, base, sent, pushed>>
      \/ MoveCursor \/ SetLive \/ Mark
      \/ \E t \in poll.left : PushLive(t)
      \/ \E p \in poll.todo : NextPost(p)
      \/ \E ok \in BOOLEAN : Send(ok)
  BY DEF PollStep, StartPoll, ReadSubscriptions, FetchDynamics, NoTargetLeft, FetchLive, EndPoll,
         Retry, NextTarget, NothingToPush
<1> QED
  BY <1>1, <1>2, <1>3, <1>4, <1>5, <1>6, <1>7, <1>8

LEMMA TypesKept ==
    ASSUME Types, PollShape, SentInv, [Next]_vars
    PROVE  Types' /\ PollShape'
<1>1. CASE UNCHANGED vars
  <2>1. Types'
    BY <1>1 DEF vars, Types
  <2>2. PollShape'
    BY <1>1 DEF vars, PollShape, Busy
  <2> QED
    BY <2>1, <2>2
<1>2. CASE Publish
  <2>1. /\ UNCHANGED <<rows, deliveries, poll, saver, withdrawn, live, base, sent, pushed, cutOff>>
        /\ budget.posts > 0 /\ published' = published + 1
        /\ budget' = [budget EXCEPT !.posts = @ - 1]
    BY <1>2 DEF Publish
  <2>2. /\ published \in Nat /\ published + budget.posts <= MaxPosts /\ budget.posts \in Nat
        /\ budget \in Left /\ withdrawn \subseteq 1..published
    BY BoundsAssumption DEF Types, Left
  <2>3. budget' \in Left /\ budget'.posts = budget.posts - 1
    <3>1. budget.posts - 1 \in Nat
      BY <2>1, <2>2
    <3> QED
      BY <2>1, <2>2, <3>1 DEF Left
  <2>4. published' \in 0..MaxPosts /\ published' + budget'.posts <= MaxPosts
    BY <2>1, <2>2, <2>3, BoundsAssumption
  <2>5. withdrawn' \subseteq 1..published'
    BY <2>1, <2>2
  <2>6. PollShape'
    BY <2>1 DEF PollShape, Busy
  <2> QED
    BY <2>1, <2>3, <2>4, <2>5, <2>6 DEF Types
<1>3. CASE \E p \in Posts : Withdraw(p)
  BY <1>3 DEF Withdraw, Types, PollShape, Busy, Left
<1>4. CASE Switch
  <2>1. /\ UNCHANGED <<rows, deliveries, poll, saver, published, withdrawn, base, sent, pushed, cutOff>>
        /\ \/ /\ budget.sessions > 0 /\ live' = budget.sessions
              /\ budget' = [budget EXCEPT !.sessions = @ - 1]
           \/ live' = 0 /\ budget' = budget
    BY <1>4 DEF Switch
  <2>2. budget \in Left /\ budget.sessions \in Nat
    BY DEF Types, Left
  <2>3. budget' \in Left /\ budget'.posts = budget.posts /\ live' \in Nat
    <3>1. budget.sessions > 0 => budget.sessions - 1 \in Nat
      BY <2>2
    <3> QED
      BY <2>1, <2>2, <3>1 DEF Left
  <2>4. PollShape'
    BY <2>1 DEF PollShape, Busy
  <2> QED
    BY <2>1, <2>3, <2>4 DEF Types
<1>5. CASE Restart
  <2>1. /\ poll' = NoPoll /\ saver' = [u \in Savers |-> NoSave]
        /\ budget' = [budget EXCEPT !.restarts = @ - 1] /\ budget.restarts > 0
        /\ UNCHANGED <<rows, deliveries, world, base, sent, pushed>>
    BY <1>5 DEF Restart
  <2>2. NoSave \in Save /\ NoSave.pc = "idle"
    BY DEF NoSave, Save, Cursors
  <2>3. PollShape'
    BY <2>1 DEF NoPoll, PollShape, Busy
  <2>4. budget' \in Left /\ budget'.posts = budget.posts
    BY <2>1 DEF Types, Left
  <2>5. saver' \in [Savers -> Save] /\ \A u \in Savers : saver'[u].pc = "idle"
    BY <2>1, <2>2
  <2> QED
    BY <2>1, <2>3, <2>4, <2>5, NoPollTypes DEF Types, world
<1>6. CASE \E u \in Savers : \/ FetchBaseline(u) \/ ReadAgain(u) \/ WriteRow(u)
                             \/ \E g \in Groups, s \in Settings : BeginSave(u, g, s)
  <2> PICK u \in Savers : \/ FetchBaseline(u) \/ ReadAgain(u) \/ WriteRow(u)
                          \/ \E g \in Groups, s \in Settings : BeginSave(u, g, s)
    BY <1>6
  <2>1. /\ saver' \in [Savers -> Save]
        /\ \A v \in Savers : saver'[v].pc # "idle" => saver'[v].group \in Groups /\ saver'[v].set \in Flags
    BY SaversStaySavers
  <2>2. UNCHANGED <<deliveries, poll, published, withdrawn, live, sent, pushed>>
    BY DEF FetchBaseline, ReadAgain, WriteRow, BeginSave, world
  <2>3. PollShape'
    BY <2>2 DEF PollShape, Busy
  <2>4. /\ rows' \in [Groups -> Row \union {None}]
        /\ base' \in [Groups -> Cursors]
        /\ budget' \in Left /\ budget'.posts = budget.posts
    <3>1. CASE FetchBaseline(u) \/ ReadAgain(u)
      BY <3>1 DEF FetchBaseline, ReadAgain, Types
    <3>2. CASE \E g \in Groups, s \in Settings : BeginSave(u, g, s)
      <4>1. /\ UNCHANGED <<rows, base>> /\ budget.saves > 0
            /\ budget' = [budget EXCEPT !.saves = @ - 1]
        BY <3>2 DEF BeginSave
      <4>2. budget \in Left /\ budget.saves - 1 \in Nat
        BY <4>1 DEF Types, Left
      <4>3. budget' \in Left /\ budget'.posts = budget.posts
        BY <4>1, <4>2 DEF Left
      <4> QED
        BY <4>1, <4>3 DEF Types
    <3>3. CASE WriteRow(u)
      <4> DEFINE g == saver[u].group
                 s == saver[u].set
                 b == saver[u].baseline
                 found == saver[u].found
      <4>1. g \in Groups /\ s \in Flags /\ b \in Cursors /\ found \in Row \union {None}
        BY <3>3 DEF WriteRow, Types, Save
      <4>2. \/ rows[g] = None /\ Insert(g, s, b)
            \/ found # None /\ Exists(g, found.id) /\ Update(g, found, s, b)
            \/ UNCHANGED <<rows, base, budget>>
        BY <3>3 DEF WriteRow
      <4>0. budget \in Left /\ rows \in [Groups -> Row \union {None}] /\ base \in [Groups -> Cursors]
        BY DEF Types
      <4> HIDE DEF g, s, b, found
      <4>3. CASE Insert(g, s, b)
        <5> DEFINE r == [id |-> budget.rows[g], set |-> s, cursor |-> b, wasLive |-> FALSE]
        <5>1. budget.rows[g] \in 1..MaxRows
          BY <4>0, <4>1, <4>3, BoundsAssumption DEF Insert, Left
        <5>2. r \in Row
          BY <4>1, <5>1 DEF Row
        <5>3. /\ rows' = [rows EXCEPT ![g] = r] /\ base' = [base EXCEPT ![g] = b]
              /\ budget' = [budget EXCEPT !.rows[g] = @ - 1]
          BY <4>3 DEF Insert
        <5> HIDE DEF r
        <5>4. [budget.rows EXCEPT ![g] = budget.rows[g] - 1] \in [Groups -> 0..MaxRows]
          BY <4>0, <4>1, <5>1, BoundsAssumption DEF Left
        <5>5. budget' \in Left /\ budget'.posts = budget.posts
          BY <5>3, <5>4, <4>0 DEF Left
        <5> QED
          BY <4>0, <4>1, <5>2, <5>3, <5>5
      <4>4. CASE found # None /\ Exists(g, found.id) /\ Update(g, found, s, b)
        <5>1. rows[g] \in Row
          BY <4>0, <4>1, <4>4 DEF Exists
        <5>2. found.cursor \in Cursors
          BY <4>1, <4>4 DEF Row
        <5> DEFINE k == IF found.cursor = None THEN b ELSE found.cursor
                   r == [rows[g] EXCEPT !.set = s, !.cursor = k]
        <5>3. k \in Cursors
          BY <4>1, <5>2
        <5>4. rows' = [rows EXCEPT ![g] = r] /\ budget' = budget
          BY <4>4 DEF Update
        <5>5. r \in Row
          <6> HIDE DEF k
          <6> QED
            BY <5>1, <5>3, <4>1 DEF Row
        <5>6. base' = base \/ base' = [base EXCEPT ![g] = Later(base[g], b)]
          BY <4>4 DEF Update
        <5>7. Later(base[g], b) \in Cursors
          BY <4>0, <4>1, LaterIsCursor
        <5> HIDE DEF r
        <5> QED
          BY <4>0, <4>1, <5>4, <5>5, <5>6, <5>7
      <4> QED
        BY <4>0, <4>2, <4>3, <4>4
    <3> QED
      BY <3>1, <3>2, <3>3
  <2> QED
    BY <2>1, <2>2, <2>3, <2>4 DEF Types
<1>7. CASE \E g \in Groups : Unsubscribe(g)
  <2> PICK g \in Groups : Unsubscribe(g)
    BY <1>7
  <2>1. UNCHANGED <<poll, saver, published, withdrawn, live, budget, pushed, cutOff>>
    BY DEF Unsubscribe, world
  <2>2. rows' \in [Groups -> Row \union {None}]
    BY DEF Unsubscribe, Types
  <2>3. deliveries' \in [Groups -> [Contents -> Delivery \union {None}]]
    <3>1. [c \in Contents |-> None] \in [Contents -> Delivery \union {None}]
      OBVIOUS
    <3> QED
      BY <3>1 DEF Unsubscribe, Types
  <2>4. base' \in [Groups -> Cursors]
    BY DEF Unsubscribe, Types, Cursors
  <2>5. sent' \in [Groups -> [Contents -> 0..2]]
    <3>1. [c \in Contents |-> 0] \in [Contents -> 0..2]
      OBVIOUS
    <3> QED
      BY <3>1 DEF Unsubscribe, Types
  <2>6. PollShape'
    BY <2>1 DEF PollShape, Busy
  <2> QED
    BY <2>1, <2>2, <2>3, <2>4, <2>5, <2>6 DEF Types
<1>8. CASE PollStep
  <2>1. poll' \in Poll /\ PollShape'
    BY <1>8, PollStaysPoll
  <2>2. UNCHANGED <<saver, published, withdrawn, live, budget>>
    BY <1>8 DEF PollStep, StartPoll, ReadSubscriptions, FetchDynamics, NoTargetLeft, MoveCursor,
                FetchLive, SetLive, EndPoll, Mark, Retry, NextTarget, PushLive, NothingToPush,
                NextPost, Send, world
  <2> QED
    BY <1>8, <2>1, <2>2, PollWritesTypes DEF Types
<1> QED
  BY <1>1, <1>2, <1>3, <1>4, <1>5, <1>6, <1>7, <1>8 DEF Next
------------------------------------------------------------------------------
(* Ids *)

\* A row keeps its id for as long as there is one, and one made anew has the next.
LEMMA RowsStep ==
    ASSUME Types, PollShape, [Next]_vars, NEW g \in Groups
    PROVE  /\ budget.rows[g] \in Nat /\ budget'.rows[g] \in Nat
           /\ budget'.rows[g] <= budget.rows[g]
           /\ rows[g] # None /\ rows'[g] # None => rows'[g].id = rows[g].id
           /\ rows[g] = None /\ rows'[g] # None =>
                rows'[g].id = budget.rows[g] /\ budget'.rows[g] < budget.rows[g]
<1>0. /\ rows \in [Groups -> Row \union {None}] /\ budget \in Left
      /\ budget.rows \in [Groups -> 0..MaxRows] /\ budget.rows[g] \in Nat
  BY BoundsAssumption DEF Types, Left
<1>1. CASE rows' = rows /\ budget'.rows = budget.rows
  BY <1>0, <1>1
<1>2. CASE MoveCursor \/ SetLive
  <2> DEFINE h == poll.current.group
  <2>1. budget' = budget
    BY <1>2 DEF MoveCursor, SetLive
  <2>2. PICK k, on : \/ rows' = rows
                     \/ Exists(h, poll.current.row.id) /\ rows' = [rows EXCEPT ![h].cursor = k]
                     \/ Exists(h, poll.current.row.id) /\ rows' = [rows EXCEPT ![h].wasLive = on]
    BY <1>2 DEF MoveCursor, SetLive
  <2>3. CASE Exists(h, poll.current.row.id) /\ (\/ rows' = [rows EXCEPT ![h].cursor = k]
                                                 \/ rows' = [rows EXCEPT ![h].wasLive = on])
    <3>1. h \in Groups /\ rows[h] \in Row
      <4>1. poll.current \in Seen
        BY <1>2 DEF MoveCursor, SetLive, PollShape, Types, Poll
      <4> QED
        BY <4>1, <2>3, SeenParts, <1>0 DEF Exists
    <3> DEFINE a == [rows[h] EXCEPT !.cursor = k]
               b == [rows[h] EXCEPT !.wasLive = on]
    <3>2. a.id = rows[h].id /\ b.id = rows[h].id
      BY <3>1 DEF Row
    <3>3. rows' = [rows EXCEPT ![h] = a] \/ rows' = [rows EXCEPT ![h] = b]
      BY <2>3
    <3>4. rows[h] # None
      BY <2>3 DEF Exists
    <3> HIDE DEF a, b, h
    <3> QED
      BY <1>0, <2>1, <3>1, <3>2, <3>3, <3>4
  <2> QED
    BY <1>0, <2>1, <2>2, <2>3
<1>3. CASE \E u \in Savers : WriteRow(u)
  <2> PICK u \in Savers : WriteRow(u)
    BY <1>3
  <2> DEFINE h == saver[u].group
             s == saver[u].set
             b == saver[u].baseline
             found == saver[u].found
  <2>1. h \in Groups
    BY DEF WriteRow, Types
  <2>2. \/ rows[h] = None /\ Insert(h, s, b)
        \/ Exists(h, found.id) /\ Update(h, found, s, b)
        \/ UNCHANGED <<rows, budget>>
    BY DEF WriteRow
  <2> HIDE DEF h, s, b, found
  <2>3. CASE rows[h] = None /\ Insert(h, s, b)
    <3> DEFINE r == [id |-> budget.rows[h], set |-> s, cursor |-> b, wasLive |-> FALSE]
    <3>1. /\ budget.rows[h] > 0 /\ rows' = [rows EXCEPT ![h] = r] /\ r.id = budget.rows[h]
          /\ budget' = [budget EXCEPT !.rows[h] = @ - 1]
      BY <2>3 DEF Insert
    <3>2. budget'.rows = [budget.rows EXCEPT ![h] = budget.rows[h] - 1]
      BY <3>1, <1>0 DEF Left
    <3>3. budget.rows[h] \in Nat
      BY <1>0, <2>1, BoundsAssumption
    <3> HIDE DEF r
    <3> QED
      BY <1>0, <2>1, <2>3, <3>1, <3>2, <3>3
  <2>4. CASE Exists(h, found.id) /\ Update(h, found, s, b)
    <3> DEFINE k == IF found.cursor = None THEN b ELSE found.cursor
               r == [rows[h] EXCEPT !.set = s, !.cursor = k]
    <3>1. rows[h] \in Row /\ rows[h] # None
      BY <1>0, <2>1, <2>4 DEF Exists
    <3>2. r.id = rows[h].id
      BY <3>1 DEF Row
    <3>3. rows' = [rows EXCEPT ![h] = r] /\ budget' = budget
      BY <2>4 DEF Update
    <3> HIDE DEF r
    <3> QED
      BY <1>0, <2>1, <3>1, <3>2, <3>3
  <2> QED
    BY <1>1, <2>2, <2>3, <2>4
<1>4. CASE \E h \in Groups : Unsubscribe(h)
  <2> PICK h \in Groups : Unsubscribe(h)
    BY <1>4
  <2> QED
    BY <1>0 DEF Unsubscribe
<1>5. CASE rows' = rows /\ \E n : \/ budget' = [budget EXCEPT !.posts = n]
                                  \/ budget' = [budget EXCEPT !.withdrawals = n]
                                  \/ budget' = [budget EXCEPT !.sessions = n]
                                  \/ budget' = [budget EXCEPT !.saves = n]
                                  \/ budget' = [budget EXCEPT !.restarts = n]
  <2>1. budget'.rows = budget.rows
    BY <1>0, <1>5 DEF Left
  <2> QED
    BY <1>1, <1>5, <2>1
<1>6. CASE UNCHANGED vars
  BY <1>1, <1>6 DEF vars
<1>7. CASE Publish \/ Switch \/ Restart \/ \E p \in Posts : Withdraw(p)
  <2>1. rows' = rows
    BY <1>7 DEF Publish, Switch, Restart, Withdraw
  <2>2. \/ budget' = budget
        \/ budget' = [budget EXCEPT !.posts = budget.posts - 1]
        \/ budget' = [budget EXCEPT !.withdrawals = budget.withdrawals - 1]
        \/ budget' = [budget EXCEPT !.sessions = budget.sessions - 1]
        \/ budget' = [budget EXCEPT !.restarts = budget.restarts - 1]
    BY <1>7 DEF Publish, Switch, Restart, Withdraw
  <2> QED
    BY <1>1, <1>5, <2>1, <2>2
<1>8. CASE \E u \in Savers : \/ FetchBaseline(u) \/ ReadAgain(u)
                             \/ \E h \in Groups, s \in Settings : BeginSave(u, h, s)
  <2>1. /\ rows' = rows
        /\ budget' = budget \/ budget' = [budget EXCEPT !.saves = budget.saves - 1]
    BY <1>8 DEF FetchBaseline, ReadAgain, BeginSave
  <2> QED
    BY <1>1, <1>5, <2>1
<1>9. CASE PollStep
  <2>1. MoveCursor \/ SetLive \/ UNCHANGED <<rows, budget>>
    BY <1>9 DEF PollStep, StartPoll, ReadSubscriptions, FetchDynamics, NoTargetLeft, FetchLive,
                EndPoll, Mark, Retry, NextTarget, PushLive, NothingToPush, NextPost, Send
  <2> QED
    BY <1>1, <1>2, <2>1
<1> QED
  BY <1>3, <1>4, <1>6, <1>7, <1>8, <1>9 DEF Next

\* A row whose id is known does not come back.
LEMMA NoRevival ==
    ASSUME Types, PollShape, [Next]_vars, NEW g \in Groups, NEW id \in Nat,
           id > budget.rows[g], Exists(g, id)'
    PROVE  Exists(g, id)
<1>1. rows'[g] # None /\ rows'[g].id = id
  BY DEF Exists
<1>2. rows[g] # None
  BY <1>1, RowsStep
<1> QED
  BY <1>1, <1>2, RowsStep DEF Exists

\* What a poll reads, and what it is about to send, it has from rows or from what it read.
LEMMA PollReads ==
    ASSUME Types, PollShape, PollStep
    PROVE  /\ \A t \in SeenRows' : t \in SeenRows \/ (rows[t.group] # None /\ t.row = rows[t.group])
           /\ \A i \in poll'.queue \union ({poll'.item} \ {None}) :
                \/ i \in poll.queue \union {poll.item} /\ i # None
                \/ Exists(i.group, i.id)
           /\ saver' = saver
           /\ \A c \in Pushes : \/ pushed'[c] = pushed[c]
                                \/ /\ pushed'[c] \in Push
                                   /\ Exists(pushed'[c].group, pushed'[c].id)
<1>0. /\ poll \in Poll /\ poll.left \subseteq Seen /\ poll.queue \subseteq Item
      /\ pushed \in [Pushes -> Push \union {None}]
      /\ (poll.current \in Seen \/ poll.current = None) /\ None \notin Item /\ None \notin Seen
  BY NoneAssumption DEF Types, Poll
<1>00. saver' = saver
  BY DEF PollStep, StartPoll, ReadSubscriptions, FetchDynamics, NoTargetLeft, MoveCursor, FetchLive,
         SetLive, EndPoll, Mark, Retry, NextTarget, PushLive, NothingToPush, NextPost, Send
<1> USE <1>0, <1>00
<1>1. CASE StartPoll
  BY <1>1 DEF StartPoll, NoPoll, SeenRows, Retriable
<1>2. CASE ReadSubscriptions
  <2> DEFINE S == {[group |-> g, row |-> rows[g]] : g \in {g \in Groups : rows[g] # None /\ rows[g].set.enabled}}
  <2>1. \A t \in S : rows[t.group] # None /\ t.row = rows[t.group]
    OBVIOUS
  <2>2. poll' = [poll EXCEPT !.pc = "fetch", !.phase = "dynamic", !.targets = S] /\ pushed' = pushed
    BY <1>2 DEF ReadSubscriptions
  <2> HIDE DEF S
  <2> QED
    BY <2>1, <2>2 DEF Poll, SeenRows
<1>3. CASE UNCHANGED pushed /\ SeenRows' \subseteq SeenRows
           /\ poll'.queue \subseteq poll.queue /\ poll'.item \in poll.queue \union {poll.item, None}
  BY <1>3
<1>4. CASE FetchDynamics \/ NoTargetLeft \/ FetchLive \/ EndPoll
  <2>1. UNCHANGED pushed
    BY <1>4 DEF FetchDynamics, NoTargetLeft, FetchLive, EndPoll
  <2>2. \/ poll' = GoLive \/ poll' = NoPoll
        \/ \E W \in SUBSET poll.targets : \E L : poll' = [poll EXCEPT !.pc = "target", !.left = W, !.list = L]
        \/ \E W \in SUBSET poll.targets : \E s :
                poll' = [poll EXCEPT !.pc = "target", !.targets = {}, !.left = W, !.session = s]
    BY <1>4 DEF FetchDynamics, NoTargetLeft, FetchLive, EndPoll
  <2>3. CASE poll' = GoLive \/ poll' = NoPoll
    <3>1. /\ poll'.queue \subseteq poll.queue /\ poll'.item = None
          /\ poll'.targets \subseteq poll.targets /\ poll'.left = {} /\ poll'.current = None
      <4>1. CASE poll' = GoLive
        BY <4>1 DEF GoLive, Poll
      <4>2. CASE poll' = NoPoll
        BY <4>2 DEF NoPoll
      <4> QED
        BY <2>3, <4>1, <4>2
    <3>2. SeenRows' \subseteq SeenRows
      BY <3>1 DEF SeenRows
    <3> QED
      BY <2>1, <3>1, <3>2, <1>3
  <2>4. CASE \E W \in SUBSET poll.targets : \E L : poll' = [poll EXCEPT !.pc = "target", !.left = W, !.list = L]
    BY <2>1, <2>4 DEF Poll, SeenRows
  <2>5. CASE \E W \in SUBSET poll.targets : \E s :
                poll' = [poll EXCEPT !.pc = "target", !.targets = {}, !.left = W, !.session = s]
    BY <2>1, <2>5 DEF Poll, SeenRows
  <2> QED
    BY <2>2, <2>3, <2>4, <2>5
<1>5. CASE MoveCursor \/ SetLive \/ Mark \/ \E ok \in BOOLEAN : Send(ok)
  <2>1. /\ UNCHANGED pushed /\ poll'.queue = poll.queue /\ poll'.item \in {poll.item, None}
        /\ poll'.targets = poll.targets /\ poll'.left = poll.left /\ poll'.current \in {poll.current, None}
    BY <1>5 DEF MoveCursor, SetLive, Mark, Send, Poll
  <2> QED
    BY <1>3, <2>1 DEF SeenRows
<1>6. CASE \E i \in poll.queue : Retry(i)
  <2>1. PICK i \in poll.queue : Retry(i)
    BY <1>6
  <2>2. /\ UNCHANGED pushed /\ poll'.queue \subseteq poll.queue /\ poll'.item = i
        /\ poll'.targets = poll.targets /\ poll'.left = poll.left /\ poll'.current = poll.current
    BY <2>1 DEF Retry, Poll
  <2> QED
    BY <1>3, <2>2 DEF SeenRows
<1>7. CASE \E t \in poll.left : NextTarget(t) \/ NothingToPush(t)
  <2>1. PICK t \in poll.left : NextTarget(t) \/ NothingToPush(t)
    BY <1>7
  <2>2. /\ UNCHANGED pushed /\ poll'.queue = poll.queue /\ poll'.item = poll.item
        /\ poll'.targets = poll.targets /\ poll'.left \subseteq poll.left /\ poll'.current = t
    <3>1. CASE NextTarget(t)
      BY <3>1 DEF NextTarget, Poll
    <3>2. CASE NothingToPush(t)
      BY <3>2 DEF NothingToPush, Poll
    <3> QED
      BY <2>1, <3>1, <3>2
  <2> QED
    BY <1>3, <2>2 DEF SeenRows
<1>8. CASE \E t \in poll.left : PushLive(t)
  <2> PICK t \in poll.left : PushLive(t)
    BY <1>8
  <2>1. CASE poll' = NoPoll /\ UNCHANGED pushed
    BY <2>1 DEF NoPoll, SeenRows
  <2>2. CASE ~(poll' = NoPoll /\ UNCHANGED pushed)
    <3>1. PICK c \in Pushes :
            /\ Exists(t.group, t.row.id)
            /\ pushed' = [pushed EXCEPT ![c] = [group |-> t.group, id |-> t.row.id, session |-> poll.session]]
            /\ poll' = [poll EXCEPT !.pc = "sending", !.current = t, !.left = @ \ {t},
                        !.item = [group |-> t.group, id |-> t.row.id, content |-> c]]
      BY <2>2 DEF PushLive
    <3> DEFINE i == [group |-> t.group, id |-> t.row.id, content |-> c]
               p == [group |-> t.group, id |-> t.row.id, session |-> poll.session]
    <3>2. p \in Push /\ p.group = t.group /\ p.id = t.row.id
      BY SeenParts DEF Push, Poll
    <3>3. i.group = t.group /\ i.id = t.row.id
      OBVIOUS
    <3>4. /\ pushed' = [pushed EXCEPT ![c] = p]
          /\ poll'.queue = poll.queue /\ poll'.item = i
          /\ poll'.targets = poll.targets /\ poll'.left \subseteq poll.left /\ poll'.current = t
      BY <3>1 DEF Poll
    <3> HIDE DEF i, p
    <3>5. SeenRows' \subseteq SeenRows
      BY <3>4 DEF SeenRows
    <3> QED
      BY <3>1, <3>2, <3>3, <3>4, <3>5
  <2> QED
    BY <2>1, <2>2
<1>9. CASE \E p \in poll.todo : NextPost(p)
  <2> PICK p \in poll.todo : NextPost(p)
    BY <1>9
  <2>1. UNCHANGED pushed
    BY DEF NextPost
  <2>2. CASE poll' = GoLive
    BY <2>1, <2>2 DEF GoLive, Poll, SeenRows
  <2>3. CASE QueueAndSend(poll.current, p)
    <3> DEFINE t == poll.current
               i == [group |-> t.group, id |-> t.row.id, content |-> p]
    <3>1. Exists(i.group, i.id)
      BY <2>3 DEF QueueAndSend
    <3>2. poll'.item \in {i, None} /\ poll'.queue = poll.queue /\ SeenRows' = SeenRows
      BY <2>3 DEF QueueAndSend, Poll, SeenRows
    <3> HIDE DEF i
    <3> QED
      BY <2>1, <3>1, <3>2
  <2> QED
    BY <2>2, <2>3 DEF NextPost
<1> QED
  BY <1>1, <1>2, <1>4, <1>5, <1>6, <1>7, <1>8, <1>9 DEF PollStep

LEMMA FreshKept ==
    ASSUME Types, PollShape, Fresh, Types', [Next]_vars
    PROVE  Fresh'
<1>0. /\ poll \in Poll /\ poll' \in Poll /\ poll.queue \subseteq Item /\ poll'.queue \subseteq Item
      /\ pushed \in [Pushes -> Push \union {None}] /\ pushed' \in [Pushes -> Push \union {None}]
      /\ SeenRows \subseteq Seen /\ SeenRows' \subseteq Seen
      /\ rows \in [Groups -> Row \union {None}]
      /\ poll'.queue \union ({poll'.item} \ {None}) \subseteq Item
  BY DEF Types, Poll, SeenRows
<1>1. \A g \in Groups : rows'[g] # None => rows'[g].id > budget'.rows[g]
  <2> SUFFICES ASSUME NEW g \in Groups, rows'[g] # None PROVE rows'[g].id > budget'.rows[g]
    OBVIOUS
  <2>1. CASE rows[g] = None
    BY <2>1, RowsStep
  <2>2. CASE rows[g] # None
    <3>1. rows[g].id \in Nat /\ rows[g].id > budget.rows[g]
      BY <2>2, RowParts DEF Fresh
    <3> QED
      BY <2>2, <3>1, RowsStep
  <2> QED
    BY <2>1, <2>2
\* An id that was above the bound stays so.
<1>2. \A g \in Groups, id \in Nat : id > budget.rows[g] => id > budget'.rows[g]
  BY RowsStep
<1>3. \A g \in Groups, id \in Nat : Exists(g, id) => id > budget'.rows[g]
  BY <1>2 DEF Fresh, Exists
<1>4. /\ \A t \in SeenRows' : t \in SeenRows \/ Exists(t.group, t.row.id)
      /\ \A i \in poll'.queue \union ({poll'.item} \ {None}) :
                (i \in poll.queue \union {poll.item} /\ i # None) \/ Exists(i.group, i.id)
      /\ \A c \in Pushes : \/ pushed'[c] = pushed[c]
                           \/ pushed'[c] \in Push /\ Exists(pushed'[c].group, pushed'[c].id)
  <2>1. CASE PollStep
    BY <2>1, PollReads DEF Exists
  <2>2. CASE poll' = NoPoll /\ pushed' = pushed
    <3>1. /\ poll'.queue = {} /\ poll'.item = None
          /\ poll'.targets = {} /\ poll'.left = {} /\ poll'.current = None
      BY <2>2 DEF NoPoll
    <3> QED
      BY <2>2, <3>1 DEF SeenRows
  <2>3. CASE poll' = poll /\ pushed' = pushed
    <3>1. SeenRows' = SeenRows
      BY <2>3 DEF SeenRows
    <3> QED
      BY <2>3, <3>1, <1>0, NoneAssumption
  <2> QED
    BY <2>1, <2>2, <2>3 DEF Next, vars, Publish, Switch, Restart, Withdraw, FetchBaseline, ReadAgain,
        WriteRow, BeginSave, Unsubscribe
<1>5. \A t \in SeenRows' : t.row.id > budget'.rows[t.group]
  <2> SUFFICES ASSUME NEW t \in SeenRows' PROVE t.row.id > budget'.rows[t.group]
    OBVIOUS
  <2>1. t.group \in Groups /\ t.row.id \in Nat
    BY <1>0, SeenParts
  <2>2. t \in SeenRows => t.row.id > budget.rows[t.group]
    BY DEF Fresh
  <2> QED
    BY <2>1, <2>2, <1>2, <1>3, <1>4
<1>6. \A i \in poll'.queue \union ({poll'.item} \ {None}) : i.id > budget'.rows[i.group]
  <2> SUFFICES ASSUME NEW i \in poll'.queue \union ({poll'.item} \ {None})
               PROVE  i.id > budget'.rows[i.group]
    OBVIOUS
  <2>1. i.group \in Groups /\ i.id \in Nat
    BY <1>0, ItemParts
  <2>2. i \in poll.queue \union {poll.item} /\ i # None => i.id > budget.rows[i.group]
    BY DEF Fresh
  <2> QED
    BY <2>1, <2>2, <1>2, <1>3, <1>4
<1>7. \A c \in Pushes : pushed'[c] # None => pushed'[c].id > budget'.rows[pushed'[c].group]
  <2> SUFFICES ASSUME NEW c \in Pushes, pushed'[c] # None
               PROVE  pushed'[c].id > budget'.rows[pushed'[c].group]
    OBVIOUS
  <2>1. pushed'[c].group \in Groups /\ pushed'[c].id \in Nat
    BY <1>0, BoundsAssumption DEF Push
  <2>2. pushed'[c] = pushed[c] => pushed'[c].id > budget.rows[pushed'[c].group]
    BY DEF Fresh
  <2> QED
    BY <2>1, <2>2, <1>2, <1>3, <1>4
<1>8. \A u \in Savers : saver'[u].pc = "writing" /\ saver'[u].found # None =>
            saver'[u].found.id > budget'.rows[saver'[u].group]
  <2> SUFFICES ASSUME NEW u \in Savers, saver'[u].pc = "writing", saver'[u].found # None
               PROVE  saver'[u].found.id > budget'.rows[saver'[u].group]
    OBVIOUS
  <2>0. saver \in [Savers -> Save] /\ saver' \in [Savers -> Save]
    BY DEF Types
  <2>1. saver'[u].group \in Groups /\ saver'[u].found.id \in Nat
    BY <2>0, BoundsAssumption DEF Types, Save, Row
  <2>2. CASE saver'[u] = saver[u]
    BY <2>1, <2>2, <1>2 DEF Fresh
  <2>3. CASE ReadAgain(u)
    <3>1. saver'[u].group = saver[u].group /\ saver'[u].found = rows[saver[u].group]
      BY <2>0, <2>3 DEF ReadAgain, Save
    <3> QED
      BY <2>1, <3>1, <1>3 DEF Exists
  <2>4. saver'[u] = saver[u] \/ ReadAgain(u)
    <3>1. CASE \E v \in Savers : FetchBaseline(v) \/ WriteRow(v)
                                 \/ \E h \in Groups, s \in Settings : BeginSave(v, h, s)
      <4>1. PICK v \in Savers : FetchBaseline(v) \/ WriteRow(v)
                                 \/ \E h \in Groups, s \in Settings : BeginSave(v, h, s)
        BY <3>1
      <4>2. PICK f : saver' = [saver EXCEPT ![v] = f] /\ f.pc # "writing"
        <5>1. CASE FetchBaseline(v)
          <6>1. PICK b : saver' = [saver EXCEPT ![v].pc = "reading", ![v].baseline = b]
            BY <5>1 DEF FetchBaseline
          <6> DEFINE f == [saver[v] EXCEPT !.pc = "reading", !.baseline = b]
          <6>2. saver' = [saver EXCEPT ![v] = f] /\ f.pc = "reading"
            BY <6>1, <2>0 DEF Save
          <6> QED
            BY <6>2
        <5>2. CASE WriteRow(v)
          <6>1. saver' = [saver EXCEPT ![v] = NoSave] /\ NoSave.pc # "writing"
            BY <5>2 DEF WriteRow, NoSave
          <6> HIDE DEF NoSave
          <6> QED
            BY <6>1
        <5>3. CASE \E h \in Groups, s \in Settings : BeginSave(v, h, s)
          <6> PICK h \in Groups, s \in Settings : BeginSave(v, h, s)
            BY <5>3
          <6> DEFINE pc == IF rows[h] = None /\ s.dynamic THEN "baseline" ELSE "reading"
                     f == [NoSave EXCEPT !.pc = pc, !.group = h, !.set = s,
                              !.baseline = IF rows[h] = None THEN None ELSE rows[h].cursor]
          <6>1. saver' = [saver EXCEPT ![v] = f]
            BY DEF BeginSave
          <6>2. f.pc = pc /\ pc # "writing"
            BY DEF NoSave
          <6> HIDE DEF f, pc
          <6> QED
            BY <6>1, <6>2
        <5> QED
          BY <4>1, <5>1, <5>2, <5>3
      <4> QED
        BY <4>2, <2>0
    <3>2. CASE \E v \in Savers : ReadAgain(v)
      BY <3>2, <2>0 DEF ReadAgain
    <3>3. CASE saver' = saver
      BY <3>3
    <3>4. CASE Restart
      BY <3>4 DEF Restart, NoSave
    <3>5. PollStep => saver' = saver
      BY PollReads
    <3> QED
      BY <3>1, <3>2, <3>3, <3>4, <3>5 DEF Next, vars, Publish, Switch, Withdraw, Unsubscribe
  <2> QED
    BY <2>2, <2>3, <2>4
<1> QED
  BY <1>1, <1>5, <1>6, <1>7, <1>8 DEF Fresh

------------------------------------------------------------------------------
(* What was sent *)

\* The rows stay, or are made anew for targets that had none: nothing that was recorded
\* of what was sent changes, and what was unsent is so still.
Quiet ==
    /\ UNCHANGED <<sent, cutOff>>
    /\ \A g \in Groups : rows'[g] = None => rows[g] = None
    /\ poll.pc # "marking" \/ poll' = poll

\* A delivery is queued, with nothing marked that was not.
Queues ==
    \A g \in Groups, c \in Contents :
        \/ deliveries'[g][c] = deliveries[g][c]
        \/ /\ deliveries[g][c] = None /\ rows[g] # None
           /\ deliveries'[g][c] # None /\ deliveries'[g][c].status # "sent"

LEMMA SentStays ==
    ASSUME Types, PollShape, SentInv, [Next]_vars, Quiet, Queues
    PROVE  /\ \A g \in Groups, c \in Contents :
                rows'[g] = None => deliveries'[g][c] = None /\ sent'[g][c] = 0
           /\ Recorded' /\ NothingTwice'
           /\ \A i \in Item : i.id > budget.rows[i.group] /\ Unsent(i) => Unsent(i)'
<1>1. \A g \in Groups, c \in Contents :
                rows'[g] = None => deliveries'[g][c] = None /\ sent'[g][c] = 0
  BY DEF SentInv, Quiet, Queues
<1>2. \A g \in Groups, c \in Contents : sent[g][c] > 0 =>
            rows[g] # None /\ rows'[g] # None /\ rows'[g].id = rows[g].id /\ ItemOf(g, c)' = ItemOf(g, c)
  <2> SUFFICES ASSUME NEW g \in Groups, NEW c \in Contents, sent[g][c] > 0
               PROVE  rows[g] # None /\ rows'[g] # None /\ rows'[g].id = rows[g].id
    BY DEF ItemOf
  <2>1. rows[g] # None
    BY DEF SentInv
  <2> QED
    BY <2>1, RowsStep DEF Quiet
<1>3. Recorded'
  <2> SUFFICES ASSUME NEW g \in Groups, NEW c \in Contents, sent'[g][c] > 0
               PROVE  \/ deliveries'[g][c] # None /\ deliveries'[g][c].status = "sent"
                      \/ poll'.pc = "marking" /\ poll'.ok /\ poll'.item = ItemOf(g, c)'
                      \/ ItemOf(g, c)' \in cutOff'
    BY DEF Recorded
  <2>1. /\ sent[g][c] > 0 /\ cutOff' = cutOff /\ ItemOf(g, c)' = ItemOf(g, c)
        /\ poll.pc = "marking" => poll' = poll
    BY <1>2 DEF Quiet
  <2>2. \/ deliveries[g][c] # None /\ deliveries[g][c].status = "sent"
        \/ poll.pc = "marking" /\ poll.ok /\ poll.item = ItemOf(g, c)
        \/ ItemOf(g, c) \in cutOff
    BY <2>1 DEF SentInv, Recorded
  <2>3. deliveries[g][c] # None => deliveries'[g][c] = deliveries[g][c]
    BY DEF Queues
  <2> QED
    BY <2>1, <2>2, <2>3
<1>4. NothingTwice'
  <2> SUFFICES ASSUME NEW g \in Groups, NEW c \in Contents, sent'[g][c] > 1
               PROVE  ItemOf(g, c)' \in cutOff'
    BY DEF NothingTwice, ItemOf
  <2>1. sent'[g][c] = sent[g][c] /\ cutOff' = cutOff /\ sent[g][c] \in 0..2
    BY DEF Quiet, Types
  <2>2. sent[g][c] > 0
    BY <2>1
  <2>3. ItemOf(g, c) \in cutOff
    BY <2>1 DEF SentInv, NothingTwice, ItemOf
  <2> QED
    BY <1>2, <2>1, <2>2, <2>3
<1>5. \A i \in Item : i.id > budget.rows[i.group] /\ Unsent(i) => Unsent(i)'
  <2> SUFFICES ASSUME NEW i \in Item, i.id > budget.rows[i.group], Unsent(i), Exists(i.group, i.id)'
               PROVE  /\ deliveries'[i.group][i.content] # None
                      /\ deliveries'[i.group][i.content].status # "sent"
    BY DEF Unsent
  <2>1. i.group \in Groups /\ i.id \in Nat /\ i.content \in Contents
    BY ItemParts
  <2>2. Exists(i.group, i.id)
    BY <2>1, NoRevival
  <2> QED
    BY <2>1, <2>2 DEF Unsent, Queues
<1> QED
  BY <1>1, <1>3, <1>4, <1>5

LEMMA ItemUnsent ==
    ASSUME \A i : i = poll'.item => Unsent(i)'
    PROVE  Unsent(poll.item)'
BY DEF Unsent, Exists

\* A subscription that is deleted takes with it what was recorded of it.
LEMMA SentDropped ==
    ASSUME Types, PollShape, Fresh, SentInv, Next, NEW h \in Groups, Unsubscribe(h)
    PROVE  SentInv'
<1>1. /\ UNCHANGED <<poll, pushed, cutOff, budget>>
      /\ rows' = [rows EXCEPT ![h] = None]
      /\ deliveries' = [deliveries EXCEPT ![h] = [c \in Contents |-> None]]
      /\ sent' = [sent EXCEPT ![h] = [c \in Contents |-> 0]]
  BY DEF Unsubscribe
<1>2. /\ rows \in [Groups -> Row \union {None}]
      /\ deliveries \in [Groups -> [Contents -> Delivery \union {None}]]
      /\ sent \in [Groups -> [Contents -> 0..2]] /\ poll \in Poll
  BY DEF Types
<1>3. /\ rows'[h] = None /\ \A c \in Contents : deliveries'[h][c] = None /\ sent'[h][c] = 0
      /\ \A g \in Groups : g # h => /\ rows'[g] = rows[g]
                                    /\ deliveries'[g] = deliveries[g] /\ sent'[g] = sent[g]
  BY <1>1, <1>2
<1>4. \A g \in Groups, c \in Contents :
                rows'[g] = None => deliveries'[g][c] = None /\ sent'[g][c] = 0
  BY <1>3 DEF SentInv
<1>5. \A g \in Groups, c \in Contents : g # h => ItemOf(g, c)' = ItemOf(g, c)
  BY <1>3 DEF ItemOf
<1>6. Recorded'
  <2> SUFFICES ASSUME NEW g \in Groups, NEW c \in Contents, sent'[g][c] > 0
               PROVE  \/ deliveries'[g][c] # None /\ deliveries'[g][c].status = "sent"
                      \/ poll'.pc = "marking" /\ poll'.ok /\ poll'.item = ItemOf(g, c)'
                      \/ ItemOf(g, c)' \in cutOff'
    BY DEF Recorded
  <2>1. g # h
    BY <1>3
  <2> QED
    BY <1>1, <1>3, <1>5, <2>1 DEF SentInv, Recorded
<1>7. NothingTwice'
  <2> SUFFICES ASSUME NEW g \in Groups, NEW c \in Contents, sent'[g][c] > 1
               PROVE  ItemOf(g, c)' \in cutOff'
    BY DEF NothingTwice, ItemOf
  <2>1. g # h
    BY <1>3
  <2>2. ItemOf(g, c) \in cutOff
    BY <1>3, <2>1 DEF SentInv, NothingTwice, ItemOf
  <2> QED
    BY <1>1, <1>5, <2>1, <2>2
<1>8. \A i \in Item : Unsent(i) => Unsent(i)'
  <2> SUFFICES ASSUME NEW i \in Item, Unsent(i), Exists(i.group, i.id)'
               PROVE  /\ deliveries'[i.group][i.content] # None
                      /\ deliveries'[i.group][i.content].status # "sent"
    BY DEF Unsent
  <2>1. i.group \in Groups /\ i.group # h
    BY <1>3, ItemParts DEF Exists
  <2> QED
    BY <1>3, <2>1 DEF Unsent, Exists
<1>9. /\ \A i \in poll'.queue : Unsent(i)'
      /\ Busy' => Unsent(poll.item)' /\ poll'.item \notin poll'.queue
  <2>1. poll.queue \subseteq Item /\ (Busy => poll.item \in Item) /\ poll' = poll
    BY <1>1, <1>2 DEF Poll, PollShape
  <2>2. \A i \in poll.queue : Unsent(i)'
    BY <2>1, <1>8 DEF SentInv
  <2>3. Busy => poll.item \notin poll.queue /\ \A i : i = poll'.item => Unsent(i)'
    BY <2>1, <1>8 DEF SentInv
  <2> QED
    BY <2>1, <2>2, <2>3, ItemUnsent DEF Busy
<1>10. \A c \in Pushes : pushed'[c] = None => \A g \in Groups : deliveries'[g][c] = None
  <2>1. Pushes \subseteq Contents
    BY DEF Contents
  <2> QED
    BY <2>1, <1>1, <1>3 DEF SentInv
<1> QED
  BY <1>4, <1>6, <1>7, <1>9, <1>10 DEF SentInv

\* What is due stays unsent if what is due was known and the records of it have grown.
LEMMA DueStays ==
    ASSUME Types, PollShape, Fresh, SentInv, [Next]_vars, Quiet, Queues,
           poll'.queue \subseteq poll.queue,
           Busy' => /\ poll'.item \in Item /\ poll'.item \notin poll'.queue
                    /\ \/ poll'.item \in poll.queue
                       \/ Busy /\ poll'.item = poll.item
    PROVE  /\ \A i \in poll'.queue : Unsent(i)'
           /\ Busy' => Unsent(poll.item)' /\ poll'.item \notin poll'.queue
<1>1. poll.queue \subseteq Item
  BY DEF Types, Poll
<1>2. \A i \in poll.queue \union ({poll.item} \ {None}) : i.id > budget.rows[i.group]
  BY DEF Fresh
<1>3. \A i \in poll.queue : Unsent(i)'
  BY <1>1, <1>2, SentStays DEF SentInv
<1>4. Busy' => \A i : i = poll'.item => Unsent(i)'
  <2> SUFFICES ASSUME Busy' PROVE \A i : i = poll'.item => Unsent(i)'
    OBVIOUS
  <2>1. CASE poll'.item \in poll.queue
    BY <1>3, <2>1
  <2>2. CASE Busy /\ poll'.item = poll.item
    <3>1. poll.item \in Item /\ poll.item # None
      BY <2>2 DEF PollShape
    <3> QED
      BY <1>2, <2>2, <3>1, SentStays DEF SentInv
  <2> QED
    BY <2>1, <2>2
<1> QED
  BY <1>3, <1>4, ItemUnsent

\* A post is queued or not, and then it is sent if it has not been.
LEMMA SentNextPost ==
    ASSUME Types, PollShape, Fresh, SentInv, Next, NEW p \in poll.todo, NextPost(p)
    PROVE  SentInv'
<1> DEFINE t == poll.current
           g == t.group
           m == [group |-> t.group, id |-> t.row.id, content |-> p]
<1>1. /\ UNCHANGED <<rows, sent, pushed, cutOff>> /\ poll.pc = "item" /\ poll.phase = "dynamic"
      /\ poll.queue = {}
  BY DEF NextPost, PollShape
<1>2. t \in Seen /\ g \in Groups /\ p \in Posts /\ p \in Contents /\ m \in Item
  <2>1. t \in Seen /\ g \in Groups /\ t.row.id \in 1..MaxRows
    BY <1>1, SeenParts DEF PollShape, Types, Poll
  <2>2. p \in Posts /\ p \in Contents
    BY DEF Types, Poll, Contents
  <2> QED
    BY <2>1, <2>2 DEF Item
<1>20. LET new == Queued(g, p) IN
       /\ new[g][p] # None
       /\ \A h \in Groups, d \in Contents :
            \/ new[h][d] = deliveries[h][d]
            \/ h = g /\ d = p /\ deliveries[h][d] = None /\ new[h][d].status = "pending"
  BY <1>2, QueuedTypes
<1>3. \/ deliveries' = deliveries /\ ~Busy' /\ poll'.queue = {}
      \/ /\ Exists(g, t.row.id) /\ deliveries' = Queued(g, p) /\ poll'.queue = {}
         /\ \/ ~Busy'
            \/ poll'.item = m /\ ~(deliveries[g][p] # None /\ deliveries[g][p].status = "sent")
  <2>1. CASE poll' = GoLive /\ UNCHANGED deliveries
    BY <1>1, <2>1 DEF GoLive, Types, Poll, Busy
  <2>2. CASE QueueAndSend(t, p)
    <3> HIDE DEF m
    <3>1. /\ Exists(g, t.row.id) /\ deliveries' = Queued(g, p)
          /\ \/ poll' = [poll EXCEPT !.todo = @ \ {p}, !.pc = "item", !.item = None]
             \/ /\ ~(deliveries[g][p] # None /\ deliveries[g][p].status = "sent")
                /\ poll' = [poll EXCEPT !.todo = @ \ {p}, !.pc = "sending", !.item = m]
      BY <2>2 DEF QueueAndSend, m
    <3> QED
      BY <1>1, <3>1 DEF Types, Poll, Busy
  <2> QED
    BY <2>1, <2>2 DEF NextPost
<1>4. /\ Quiet
      /\ Queues
      /\ p \notin Pushes
  <2>1. Quiet
    BY <1>1 DEF Quiet
  <2>2. p \notin Pushes
    BY <1>2, BoundsAssumption DEF Posts, Pushes
  <2>3. Queues
    <3>1. CASE deliveries' = deliveries
      BY <3>1 DEF Queues
    <3>2. CASE Exists(g, t.row.id) /\ deliveries' = Queued(g, p)
      BY <1>2, <1>20, <3>2 DEF Queues, Exists
    <3> QED
      BY <1>3, <3>1, <3>2
  <2> QED
    BY <2>1, <2>2, <2>3
<1>5. \A c \in Pushes : pushed'[c] = None => \A h \in Groups : deliveries'[h][c] = None
  <2>1. \A c \in Pushes, h \in Groups : deliveries'[h][c] = deliveries[h][c]
    <3>1. Pushes \subseteq Contents
      BY DEF Contents
    <3> QED
      BY <1>2, <1>3, <1>4, <1>20, <3>1
  <2> QED
    BY <1>1, <2>1 DEF SentInv
<1>6. Busy' => \A i : i = poll'.item => Unsent(i)'
  <2> SUFFICES ASSUME Busy', NEW i, i = poll'.item PROVE Unsent(i)'
    OBVIOUS
  <2>1. deliveries'[g][p] # None /\ deliveries'[g][p].status # "sent"
    BY <1>2, <1>3, <1>20
  <2>2. i.group = g /\ i.content = p
    BY <1>3
  <2> QED
    BY <2>1, <2>2 DEF Unsent
<1>7. \A i \in poll'.queue : Unsent(i)'
  BY <1>3
<1>8. Busy' => poll'.item \notin poll'.queue
  BY <1>3
<1> QED
  BY <1>4, <1>5, <1>6, <1>7, <1>8, SentStays, ItemUnsent DEF SentInv

\* The content of a push is new.
LEMMA SentPushLive ==
    ASSUME Types, PollShape, Fresh, SentInv, Next, NEW t \in poll.left, PushLive(t)
    PROVE  SentInv'
<1> DEFINE g == t.group
<1>1. /\ UNCHANGED <<rows, sent, cutOff>> /\ poll.pc = "target" /\ poll.phase = "live"
      /\ poll.queue = {}
  BY DEF PushLive, PollShape
<1>2. t \in Seen /\ g \in Groups /\ t.row.id \in 1..MaxRows
  BY SeenParts DEF Types, Poll
<1>3. CASE poll' = NoPoll /\ UNCHANGED <<deliveries, pushed>>
  <2>1. Quiet /\ Queues
    BY <1>1, <1>3 DEF Quiet, Queues
  <2>2. ~Busy' /\ poll'.queue = {}
    BY <1>3 DEF NoPoll, Busy
  <2>3. \A c \in Pushes : pushed'[c] = None => \A h \in Groups : deliveries'[h][c] = None
    BY <1>3 DEF SentInv
  <2> QED
    BY <2>1, <2>2, <2>3, SentStays DEF SentInv
<1>4. CASE ~(poll' = NoPoll /\ UNCHANGED <<deliveries, pushed>>)
  <2>1. PICK c \in Pushes :
            /\ Exists(g, t.row.id)
            /\ pushed[c] = None
            /\ pushed' = [pushed EXCEPT ![c] = [group |-> g, id |-> t.row.id, session |-> poll.session]]
            /\ deliveries' = Queued(g, c)
            /\ poll' = [poll EXCEPT !.pc = "sending", !.current = t, !.left = @ \ {t},
                        !.item = [group |-> g, id |-> t.row.id, content |-> c]]
    BY <1>4 DEF PushLive
  <2> DEFINE m == [group |-> g, id |-> t.row.id, content |-> c]
             q == [group |-> g, id |-> t.row.id, session |-> poll.session]
  <2>2. c \in Contents /\ deliveries[g][c] = None
    BY <1>2, <2>1 DEF Contents, SentInv
  <2>3. q # None
    BY <1>2, NoneAssumption DEF Push, Types, Poll
  <2>4. m.group = g /\ m.content = c
    OBVIOUS
  <2>5. poll'.queue = {} /\ poll'.item = m /\ pushed' = [pushed EXCEPT ![c] = q]
    BY <1>1, <2>1 DEF Types, Poll
  <2> HIDE DEF m, q
  <2>6. /\ deliveries'[g][c] # None /\ deliveries'[g][c].status = "pending"
        /\ \A h \in Groups, d \in Contents : h # g \/ d # c => deliveries'[h][d] = deliveries[h][d]
    BY <1>2, <2>1, <2>2, QueuedTypes
  <2>7. Quiet /\ Queues
    BY <1>1, <2>1, <2>2, <2>6 DEF Quiet, Queues, Exists
  <2>8. \A d \in Pushes : pushed'[d] = None => \A h \in Groups : deliveries'[h][d] = None
    <3>1. Pushes \subseteq Contents /\ pushed \in [Pushes -> Push \union {None}]
      BY DEF Contents, Types
    <3>2. \A d \in Pushes : pushed'[d] = None => d # c /\ pushed[d] = None
      BY <2>3, <2>5, <3>1
    <3> QED
      BY <2>6, <3>1, <3>2 DEF SentInv
  <2>9. \A i : i = poll'.item => Unsent(i)'
    BY <2>4, <2>5, <2>6 DEF Unsent
  <2> QED
    BY <2>5, <2>7, <2>8, <2>9, SentStays, ItemUnsent DEF SentInv
<1> QED
  BY <1>3, <1>4

\* A message goes out.
LEMMA SentSend ==
    ASSUME Types, PollShape, Fresh, SentInv, Next, NEW ok \in BOOLEAN, Send(ok)
    PROVE  SentInv'
<1> DEFINE i == poll.item
           g == i.group
           d == i.content
<1>1. /\ UNCHANGED <<rows, deliveries, pushed, cutOff>> /\ poll.pc = "sending" /\ Busy /\ Busy'
      /\ poll'.pc = "marking" /\ poll'.ok = ok /\ poll'.item = i /\ poll'.queue = poll.queue
  BY DEF Send, Busy, Types, Poll
<1>2. i \in Item /\ g \in Groups /\ d \in Contents /\ Unsent(i) /\ i \notin poll.queue
  BY <1>1, ItemParts DEF PollShape, Types, Poll, SentInv
<1>3. /\ \A h \in Groups, c \in Contents : ItemOf(h, c)' = ItemOf(h, c)
      /\ \A j : Unsent(j)' <=> Unsent(j)
  BY <1>1 DEF ItemOf, Unsent, Exists
<1>4. sent \in [Groups -> [Contents -> 0..2]]
  BY DEF Types
<1>5. CASE ok /\ Exists(g, i.id)
  <2> DEFINE n == Min({2, sent[g][d] + 1})
  <2>1. sent' = [sent EXCEPT ![g] = [sent[g] EXCEPT ![d] = n]]
    BY <1>5 DEF Send
  <2> HIDE DEF n
  <2>2. /\ sent'[g][d] = n
        /\ \A h \in Groups, c \in Contents : h # g \/ c # d => sent'[h][c] = sent[h][c]
    BY <1>2, <1>4, <2>1
  <2>3. n > 1 => sent[g][d] > 0
    <3>1. sent[g][d] \in Nat
      BY <1>2, <1>4
    <3> QED
      BY <3>1, MinOfTwo DEF n
  <2>4. ItemOf(g, d) = i
    BY <1>2, <1>5 DEF ItemOf, Exists, Item
  <2>5. \A h \in Groups, c \in Contents :
                rows'[h] = None => deliveries'[h][c] = None /\ sent'[h][c] = 0
    BY <1>1, <1>5, <2>2 DEF SentInv, Exists
  <2>6. Recorded'
    <3> SUFFICES ASSUME NEW h \in Groups, NEW c \in Contents, sent'[h][c] > 0
                 PROVE  \/ deliveries'[h][c] # None /\ deliveries'[h][c].status = "sent"
                        \/ poll'.pc = "marking" /\ poll'.ok /\ poll'.item = ItemOf(h, c)'
                        \/ ItemOf(h, c)' \in cutOff'
      BY DEF Recorded
    <3>1. CASE h = g /\ c = d
      BY <1>1, <1>3, <1>5, <2>4, <3>1
    <3>2. CASE h # g \/ c # d
      BY <1>1, <1>3, <2>2, <3>2 DEF SentInv, Recorded
    <3> QED
      BY <3>1, <3>2
  <2>7. NothingTwice'
    <3> SUFFICES ASSUME NEW h \in Groups, NEW c \in Contents, sent'[h][c] > 1
                 PROVE  ItemOf(h, c)' \in cutOff'
      BY DEF NothingTwice, ItemOf
    <3>1. CASE h = g /\ c = d
      <4>1. sent[h][c] > 0
        BY <2>2, <2>3, <3>1
      <4>2. ~(deliveries[h][c] # None /\ deliveries[h][c].status = "sent")
        BY <1>2, <1>5, <3>1 DEF Unsent
      <4> QED
        BY <1>1, <1>3, <4>1, <4>2 DEF SentInv, Recorded
    <3>2. CASE h # g \/ c # d
      BY <1>1, <1>3, <2>2, <3>2 DEF SentInv, NothingTwice, ItemOf
    <3> QED
      BY <3>1, <3>2
  <2>8. /\ \A j \in poll'.queue : Unsent(j)'
        /\ \A j : j = poll'.item => Unsent(j)'
        /\ poll'.item \notin poll'.queue
    BY <1>1, <1>2, <1>3 DEF SentInv
  <2>9. \A c \in Pushes : pushed'[c] = None => \A h \in Groups : deliveries'[h][c] = None
    BY <1>1 DEF SentInv
  <2> QED
    BY <2>5, <2>6, <2>7, <2>8, <2>9, ItemUnsent DEF SentInv
<1>6. CASE ~(ok /\ Exists(g, i.id))
  <2>1. sent' = sent
    BY <1>6 DEF Send
  <2>2. Quiet /\ Queues
    BY <1>1, <2>1 DEF Quiet, Queues
  <2>3. \A c \in Pushes : pushed'[c] = None => \A h \in Groups : deliveries'[h][c] = None
    BY <1>1 DEF SentInv
  <2>4. /\ \A j \in poll'.queue : Unsent(j)'
        /\ Busy' => Unsent(poll.item)' /\ poll'.item \notin poll'.queue
    BY <1>1, <1>2, <2>2, DueStays
  <2> QED
    BY <2>2, <2>3, <2>4, SentStays DEF SentInv
<1> QED
  BY <1>5, <1>6

\* Its outcome is recorded.
LEMMA SentMark ==
    ASSUME Types, PollShape, Fresh, SentInv, Next, Mark
    PROVE  SentInv'
<1> DEFINE i == poll.item
           g == i.group
           d == i.content
<1>1. /\ UNCHANGED <<rows, sent, pushed, cutOff>> /\ poll.pc = "marking" /\ Busy
      /\ poll'.queue = poll.queue
  BY DEF Mark, Busy, Types, Poll
<1>2. ~Busy'
  <2>1. poll'.pc \in {"next", "item", "state"}
    BY DEF Mark, Types, Poll
  <2> QED
    BY <2>1 DEF Busy
<1>3. i \in Item /\ g \in Groups /\ d \in Contents /\ Unsent(i) /\ i \notin poll.queue
  BY <1>1, ItemParts DEF PollShape, Types, Poll, SentInv
<1>4. \A h \in Groups, c \in Contents : ItemOf(h, c)' = ItemOf(h, c)
  BY <1>1 DEF ItemOf
<1>5. deliveries \in [Groups -> [Contents -> Delivery \union {None}]] /\ poll.queue \subseteq Item
  BY DEF Types, Poll
<1>6. /\ \A h \in Groups, c \in Contents :
            h # g \/ c # d \/ ~Exists(g, i.id) => deliveries'[h][c] = deliveries[h][c]
      /\ Exists(g, i.id) =>
            /\ deliveries'[g][d] # None
            /\ poll.ok => deliveries'[g][d].status = "sent"
  <2>1. CASE ~Exists(g, i.id)
    BY <2>1 DEF Mark
  <2>2. CASE Exists(g, i.id)
    <3> DEFINE a == Min({MaxAttempts, deliveries[g][d].attempts + 1})
               n == [status |-> IF poll.ok THEN "sent" ELSE "failed", attempts |-> a]
    <3>1. deliveries' = [deliveries EXCEPT ![g] = [deliveries[g] EXCEPT ![d] = n]]
      BY <2>2 DEF Mark
    <3>2. poll.ok => n.status = "sent"
      OBVIOUS
    <3>3. n # None
      <4>1. deliveries[g][d] \in Delivery
        BY <1>3, <1>5, <2>2 DEF Unsent
      <4>2. deliveries[g][d].attempts \in Nat
        BY <4>1, BoundsAssumption DEF Delivery
      <4>3. a \in 0..MaxAttempts
        BY <4>2, MinOfTwo, BoundsAssumption
      <4> HIDE DEF a
      <4>4. n \in Delivery
        BY <4>3 DEF Delivery
      <4> QED
        BY <4>4, NoneAssumption
    <3> HIDE DEF n
    <3> QED
      BY <1>3, <1>5, <2>2, <3>1, <3>2, <3>3
  <2> QED
    BY <2>1, <2>2
<1>7. \A h \in Groups, c \in Contents :
                rows'[h] = None => deliveries'[h][c] = None /\ sent'[h][c] = 0
  BY <1>1, <1>6 DEF SentInv, Exists
<1>8. Recorded'
  <2> SUFFICES ASSUME NEW h \in Groups, NEW c \in Contents, sent'[h][c] > 0
               PROVE  \/ deliveries'[h][c] # None /\ deliveries'[h][c].status = "sent"
                      \/ ItemOf(h, c)' \in cutOff'
    BY DEF Recorded
  <2>1. /\ rows[h] # None
        /\ \/ deliveries[h][c] # None /\ deliveries[h][c].status = "sent"
           \/ poll.ok /\ i = ItemOf(h, c)
           \/ ItemOf(h, c) \in cutOff
    BY <1>1 DEF SentInv, Recorded
  <2>2. CASE i = ItemOf(h, c)
    <3>1. h = g /\ c = d /\ Exists(g, i.id)
      BY <2>1, <2>2 DEF ItemOf, Exists
    <3> QED
      BY <1>1, <1>3, <1>4, <1>6, <2>1, <3>1 DEF Unsent
  <2>3. CASE i # ItemOf(h, c)
    <3>1. h # g \/ c # d \/ ~Exists(g, i.id)
      BY <1>3, <2>3 DEF ItemOf, Exists, Item
    <3> QED
      BY <1>1, <1>4, <1>6, <2>1, <2>3, <3>1
  <2> QED
    BY <2>2, <2>3
<1>9. NothingTwice'
  <2> SUFFICES ASSUME NEW h \in Groups, NEW c \in Contents, sent'[h][c] > 1
               PROVE  ItemOf(h, c)' \in cutOff'
    BY DEF NothingTwice, ItemOf
  <2> QED
    BY <1>1, <1>4 DEF SentInv, NothingTwice, ItemOf
<1>10. \A j \in poll'.queue : Unsent(j)'
  <2> SUFFICES ASSUME NEW j \in poll.queue, Exists(j.group, j.id)
               PROVE  /\ deliveries'[j.group][j.content] # None
                      /\ deliveries'[j.group][j.content].status # "sent"
    BY <1>1 DEF Unsent, Exists
  <2>1. j \in Item /\ j # i /\ Unsent(j) /\ j.group \in Groups /\ j.content \in Contents
    BY <1>3, <1>5, ItemParts DEF SentInv
  <2>2. j.group # g \/ j.content # d \/ ~Exists(g, i.id)
    BY <1>3, <2>1 DEF Item, Exists
  <2> QED
    BY <1>6, <2>1, <2>2 DEF Unsent
<1>11. \A c \in Pushes : pushed'[c] = None => \A h \in Groups : deliveries'[h][c] = None
  <2> SUFFICES ASSUME NEW c \in Pushes, pushed[c] = None, NEW h \in Groups
               PROVE  deliveries'[h][c] = None
    BY <1>1
  <2>1. deliveries[h][c] = None /\ c \in Contents
    BY DEF SentInv, Contents
  <2> QED
    BY <1>3, <1>6, <2>1 DEF Unsent
<1> QED
  BY <1>2, <1>7, <1>8, <1>9, <1>10, <1>11 DEF SentInv

\* A restart notes the confirmation whose record it cuts off.
LEMMA SentRestart ==
    ASSUME Types, PollShape, Fresh, SentInv, Next, Restart
    PROVE  SentInv'
<1>1. /\ UNCHANGED <<rows, deliveries, sent, pushed>> /\ poll' = NoPoll
      /\ cutOff' = cutOff \union Unrecorded
  BY DEF Restart
<1>2. \A h \in Groups, c \in Contents : ItemOf(h, c)' = ItemOf(h, c)
  BY <1>1 DEF ItemOf
<1>3. poll.pc = "marking" /\ poll.ok => poll.item \in Unrecorded
  BY DEF Unrecorded
<1>4. Recorded'
  BY <1>1, <1>2, <1>3 DEF SentInv, Recorded
<1>5. NothingTwice'
  BY <1>1 DEF SentInv, NothingTwice
<1>6. poll'.queue = {} /\ ~Busy'
  BY <1>1 DEF NoPoll, Busy
<1> QED
  BY <1>1, <1>4, <1>5, <1>6 DEF SentInv

\* Only Unsubscribe leaves a target without the row it had.
LEMMA RowsStay ==
    ASSUME Types, PollShape,
           MoveCursor \/ SetLive \/ (\E u \in Savers : WriteRow(u)),
           NEW g \in Groups, rows'[g] = None
    PROVE  rows[g] = None
<1>0. rows \in [Groups -> Row \union {None}] /\ None \notin Row /\ poll \in Poll
  BY NoneAssumption DEF Types
<1>1. SUFFICES \/ rows' = rows
               \/ \E h \in Groups, r \in Row : rows' = [rows EXCEPT ![h] = r]
  BY <1>0
<1>2. CASE MoveCursor
  <2> DEFINE t == poll.current
             h == t.group
             k == Newest(poll.list)
  <2>1. /\ poll.pc = "item" /\ poll.phase = "dynamic"
        /\ rows' = rows \/ (Exists(h, t.row.id) /\ rows' = [rows EXCEPT ![h].cursor = k])
    BY <1>2 DEF MoveCursor
  <2>2. h \in Groups /\ k \in Cursors
    BY <1>0, <2>1, SeenParts, NewestIsLast DEF PollShape, Poll
  <2> DEFINE r == [rows[h] EXCEPT !.cursor = k]
  <2>3. CASE Exists(h, t.row.id) /\ rows' = [rows EXCEPT ![h].cursor = k]
    <3>1. rows[h] \in Row /\ rows' = [rows EXCEPT ![h] = r]
      BY <1>0, <2>2, <2>3 DEF Exists
    <3>2. r \in Row
      <4> HIDE DEF k
      <4> QED
        BY <2>2, <3>1 DEF Row
    <3> QED
      BY <2>2, <3>1, <3>2
  <2> QED
    BY <2>1, <2>3
<1>3. CASE SetLive
  <2> DEFINE t == poll.current
             h == t.group
             on == poll.session # 0
  <2>1. /\ poll.pc = "state"
        /\ rows' = rows \/ (Exists(h, t.row.id) /\ rows' = [rows EXCEPT ![h].wasLive = on])
    BY <1>3 DEF SetLive
  <2>2. h \in Groups
    BY <1>0, <2>1, SeenParts DEF PollShape, Poll
  <2> DEFINE r == [rows[h] EXCEPT !.wasLive = on]
  <2>3. CASE Exists(h, t.row.id) /\ rows' = [rows EXCEPT ![h].wasLive = on]
    <3>1. rows[h] \in Row /\ rows' = [rows EXCEPT ![h] = r]
      BY <1>0, <2>2, <2>3 DEF Exists
    <3>2. r \in Row
      BY <3>1 DEF Row
    <3> QED
      BY <2>2, <3>1, <3>2
  <2> QED
    BY <2>1, <2>3
<1>4. CASE \E u \in Savers : WriteRow(u)
  <2> PICK u \in Savers : WriteRow(u)
    BY <1>4
  <2> DEFINE h == saver[u].group
             s == saver[u].set
             b == saver[u].baseline
             found == saver[u].found
  <2>1. h \in Groups /\ s \in Flags /\ b \in Cursors /\ found \in Row \union {None}
    BY DEF WriteRow, Types, Save
  <2>2. \/ Insert(h, s, b)
        \/ found # None /\ Exists(h, found.id) /\ Update(h, found, s, b)
        \/ rows' = rows
    BY DEF WriteRow
  <2> HIDE DEF h, s, b, found
  <2>3. CASE Insert(h, s, b)
    <3> DEFINE r == [id |-> budget.rows[h], set |-> s, cursor |-> b, wasLive |-> FALSE]
    <3>1. budget.rows[h] \in 1..MaxRows
      BY <2>1, <2>3, BoundsAssumption DEF Insert, Types, Left
    <3>2. r \in Row
      BY <2>1, <3>1 DEF Row
    <3>3. rows' = [rows EXCEPT ![h] = r]
      BY <2>3 DEF Insert
    <3> QED
      BY <2>1, <3>2, <3>3
  <2>4. CASE found # None /\ Exists(h, found.id) /\ Update(h, found, s, b)
    <3> DEFINE k == IF found.cursor = None THEN b ELSE found.cursor
               r == [rows[h] EXCEPT !.set = s, !.cursor = k]
    <3>1. rows[h] \in Row /\ k \in Cursors
      BY <1>0, <2>1, <2>4 DEF Exists, Row
    <3>2. rows' = [rows EXCEPT ![h] = r]
      BY <2>4 DEF Update
    <3>3. r \in Row
      <4> HIDE DEF k
      <4> QED
        BY <2>1, <3>1 DEF Row
    <3> QED
      BY <2>1, <3>2, <3>3
  <2> QED
    BY <2>2, <2>3, <2>4
<1> QED
  BY <1>2, <1>3, <1>4

LEMMA SentKept ==
    ASSUME Types, PollShape, Fresh, SentInv, [Next]_vars
    PROVE  SentInv'
\* Steps that leave what was sent and what is due, and lose no row.
<1>1. CASE /\ UNCHANGED <<deliveries, sent, pushed, cutOff>>
           /\ \A g \in Groups : rows'[g] = None => rows[g] = None
           /\ \/ poll' = poll
              \/ poll.pc # "marking" /\ poll'.queue \subseteq poll.queue /\ ~Busy'
  <2>1. Quiet /\ Queues
    BY <1>1 DEF Quiet, Queues
  <2>2. \A c \in Pushes : pushed'[c] = None => \A g \in Groups : deliveries'[g][c] = None
    BY <1>1 DEF SentInv
  <2>3. Busy => poll.item \in Item /\ poll.item \notin poll.queue
    BY DEF SentInv, PollShape, Types, Poll
  <2>4. /\ \A i \in poll'.queue : Unsent(i)'
        /\ Busy' => Unsent(poll.item)' /\ poll'.item \notin poll'.queue
    BY <1>1, <2>1, <2>3, DueStays DEF Busy
  <2> QED
    BY <2>1, <2>2, <2>4, SentStays DEF SentInv
<1>2. CASE rows' = rows \/ MoveCursor \/ SetLive \/ (\E u \in Savers : WriteRow(u))
  <2>1. \A g \in Groups : rows'[g] = None => rows[g] = None
    BY <1>2, RowsStay
  <2>2. CASE \/ UNCHANGED vars \/ Publish \/ Switch \/ (\E p \in Posts : Withdraw(p))
             \/ \E u \in Savers : \/ FetchBaseline(u) \/ ReadAgain(u) \/ WriteRow(u)
                                  \/ \E g \in Groups, s \in Settings : BeginSave(u, g, s)
    <3>1. UNCHANGED <<deliveries, poll, sent, pushed, cutOff>>
      BY <2>2 DEF vars, Publish, Switch, Withdraw, FetchBaseline, ReadAgain, WriteRow, BeginSave
    <3> QED
      BY <1>1, <2>1, <3>1
  <2>3. CASE ReadSubscriptions \/ FetchDynamics \/ NoTargetLeft \/ MoveCursor
             \/ FetchLive \/ SetLive \/ EndPoll
             \/ \E t \in poll.left : NextTarget(t) \/ NothingToPush(t)
    <3>1. UNCHANGED <<deliveries, sent, pushed, cutOff>> /\ poll.pc # "marking"
      BY <2>3 DEF ReadSubscriptions, FetchDynamics, NoTargetLeft, MoveCursor, FetchLive, SetLive,
             EndPoll, NextTarget, NothingToPush
    <3>2. poll'.queue \subseteq poll.queue /\ poll'.pc \notin {"sending", "marking"}
      <4>1. CASE FetchDynamics \/ NoTargetLeft \/ FetchLive \/ EndPoll
        <5>1. \/ poll' = GoLive
              \/ poll' = NoPoll
              \/ poll'.pc = "target" /\ poll'.queue = poll.queue
          BY <4>1 DEF FetchDynamics, NoTargetLeft, FetchLive, EndPoll, Types, Poll
        <5>2. GoLive.queue = poll.queue /\ GoLive.pc = "fetch"
          BY DEF GoLive, Types, Poll
        <5>3. NoPoll.queue = {} /\ NoPoll.pc = "idle"
          BY DEF NoPoll
        <5> QED
          BY <5>1, <5>2, <5>3
      <4>2. CASE ReadSubscriptions \/ MoveCursor \/ SetLive
        BY <4>2 DEF ReadSubscriptions, MoveCursor, SetLive, Types, Poll
      <4>3. CASE \E t \in poll.left : NextTarget(t) \/ NothingToPush(t)
        <5>1. PICK t \in poll.left : NextTarget(t) \/ NothingToPush(t)
          BY <4>3
        <5>2. CASE NextTarget(t)
          BY <5>2 DEF NextTarget, Types, Poll
        <5>3. CASE NothingToPush(t)
          BY <5>3 DEF NothingToPush, Types, Poll
        <5> QED
          BY <5>1, <5>2, <5>3
      <4> QED
        BY <2>3, <4>1, <4>2, <4>3
    <3> QED
      BY <1>1, <2>1, <3>1, <3>2 DEF Busy
  <2>4. CASE StartPoll
    <3>1. /\ UNCHANGED <<rows, deliveries, sent, pushed, cutOff>> /\ poll.pc = "idle"
          /\ poll'.queue = Retriable /\ ~Busy'
      BY <2>4 DEF StartPoll, NoPoll, Busy
    <3>2. Quiet /\ Queues
      BY <3>1 DEF Quiet, Queues
    <3>3. \A i \in Retriable : Unsent(i)
      BY DEF Retriable, Unsent
    <3>4. \A i \in poll'.queue : Unsent(i)'
      BY <3>1, <3>3 DEF Unsent, Exists
    <3>5. \A c \in Pushes : pushed'[c] = None => \A g \in Groups : deliveries'[g][c] = None
      BY <3>1 DEF SentInv
    <3> QED
      BY <3>1, <3>2, <3>4, <3>5, SentStays DEF SentInv
  <2>5. CASE \E i \in poll.queue : Retry(i)
    <3>1. PICK i \in poll.queue : Retry(i)
      BY <2>5
    <3>2. /\ UNCHANGED <<rows, deliveries, sent, pushed, cutOff>> /\ poll.pc = "next"
          /\ poll'.queue \subseteq poll.queue /\ poll'.item = i /\ i \notin poll'.queue /\ i \in Item
      BY <3>1 DEF Retry, Types, Poll
    <3>3. Quiet /\ Queues
      BY <3>2 DEF Quiet, Queues
    <3>4. \A c \in Pushes : pushed'[c] = None => \A g \in Groups : deliveries'[g][c] = None
      BY <3>2 DEF SentInv
    <3>5. /\ \A j \in poll'.queue : Unsent(j)'
          /\ Busy' => Unsent(poll.item)' /\ poll'.item \notin poll'.queue
      BY <3>2, <3>3, DueStays
    <3> QED
      BY <3>3, <3>4, <3>5, SentStays DEF SentInv
  <2>6. CASE \/ Mark \/ (\E ok \in BOOLEAN : Send(ok))
             \/ (\E p \in poll.todo : NextPost(p)) \/ (\E t \in poll.left : PushLive(t))
    <3>1. Next
      BY <2>6 DEF Next, PollStep
    <3> QED
      BY <2>6, <3>1, SentMark, SentSend, SentNextPost, SentPushLive
  <2>7. CASE Restart
    BY <2>7, SentRestart DEF Next
  <2>8. CASE \E g \in Groups : Unsubscribe(g)
    BY <2>8, SentDropped DEF Next
  <2> QED
    BY <2>2, <2>3, <2>4, <2>5, <2>6, <2>7, <2>8 DEF Next, PollStep
<1>3. CASE \E g \in Groups : Unsubscribe(g)
  BY <1>3, SentDropped DEF Next
<1>4. CASE Restart
  BY <1>4, SentRestart DEF Next
<1>5. \/ rows' = rows \/ MoveCursor \/ SetLive \/ (\E u \in Savers : WriteRow(u))
      \/ Restart \/ (\E g \in Groups : Unsubscribe(g))
  BY DEF Next, PollStep, vars, Publish, Switch, Withdraw, FetchBaseline, ReadAgain, BeginSave,
         StartPoll, ReadSubscriptions, FetchDynamics, NoTargetLeft, FetchLive, EndPoll, Mark,
         Retry, NextTarget, PushLive, NothingToPush, NextPost, Send
<1> QED
  BY <1>2, <1>3, <1>4, <1>5

------------------------------------------------------------------------------
(* Who was told of which session *)

\* Steps that begin no session and announce none.
LEMMA SessionsKept ==
    ASSUME Types, PollShape, Sessions, [Next]_vars
    PROVE  Sessions'
<1>0. budget \in Left /\ budget.sessions \in Nat /\ poll \in Poll /\ live \in Nat /\ poll.session \in Nat
  BY DEF Types, Left, Poll
<1>1. CASE /\ UNCHANGED <<live, pushed>> /\ budget'.sessions = budget.sessions
           /\ poll'.session \in {0, poll.session, live}
  BY <1>0, <1>1 DEF Sessions
<1>2. CASE Switch
  <2>1. /\ UNCHANGED <<poll, pushed>>
        /\ \/ live' = budget.sessions /\ budget.sessions > 0 /\ budget'.sessions = budget.sessions - 1
           \/ live' = 0 /\ budget' = budget
    BY <1>0, <1>2 DEF Switch, Left
  <2>2. \A c \in Pushes : pushed[c] # None => pushed[c].session \in Nat
    BY DEF Types, Push
  <2> QED
    BY <1>0, <2>1, <2>2 DEF Sessions
<1>3. CASE \E t \in poll.left : PushLive(t)
  <2> PICK t \in poll.left : PushLive(t)
    BY <1>3
  <2>1. UNCHANGED <<live, budget>> /\ poll.session # 0 /\ poll'.session \in {0, poll.session}
    <3>1. \/ poll' = NoPoll
          \/ \E i : poll' = [poll EXCEPT !.pc = "sending", !.current = t, !.left = @ \ {t}, !.item = i]
      BY DEF PushLive
    <3>2. UNCHANGED <<live, budget>> /\ poll.session # 0
      BY DEF PushLive, world
    <3>3. NoPoll.session = 0
      BY DEF NoPoll
    <3>4. poll' # NoPoll => poll'.session = poll.session
      BY <1>0, <3>1 DEF Poll
    <3> QED
      BY <3>2, <3>3, <3>4
  <2>2. pushed' = pushed \/ \E c \in Pushes :
            pushed' = [pushed EXCEPT ![c] = [group |-> t.group, id |-> t.row.id, session |-> poll.session]]
    BY DEF PushLive
  <2>3. \A c \in Pushes : pushed'[c] = pushed[c] \/ pushed'[c].session = poll.session
    BY <2>2 DEF Types
  <2> QED
    BY <1>0, <2>1, <2>3 DEF Sessions
<1>4. CASE Publish \/ Restart \/ (\E p \in Posts : Withdraw(p))
           \/ \E u \in Savers, g \in Groups, s \in Settings : BeginSave(u, g, s)
  <2>1. /\ UNCHANGED <<live, pushed>>
        /\ \/ budget' = [budget EXCEPT !.posts = budget.posts - 1]
           \/ budget' = [budget EXCEPT !.withdrawals = budget.withdrawals - 1]
           \/ budget' = [budget EXCEPT !.saves = budget.saves - 1]
           \/ budget' = [budget EXCEPT !.restarts = budget.restarts - 1]
        /\ (poll' = poll \/ poll' = NoPoll)
    BY <1>4 DEF Publish, Restart, Withdraw, BeginSave, world
  <2>2. budget'.sessions = budget.sessions
    BY <1>0, <2>1 DEF Left
  <2> QED
    BY <1>1, <2>1, <2>2 DEF NoPoll
<1>5. CASE \E u \in Savers : FetchBaseline(u) \/ ReadAgain(u) \/ WriteRow(u)
  <2>1. UNCHANGED <<live, pushed, poll>>
    BY <1>5 DEF FetchBaseline, ReadAgain, WriteRow, world
  <2>2. budget' = budget \/ \E h, n : budget' = [budget EXCEPT !.rows[h] = n]
    BY <1>5 DEF FetchBaseline, ReadAgain, WriteRow, Insert, Update
  <2>3. budget'.sessions = budget.sessions
    BY <1>0, <2>2 DEF Left
  <2> QED
    BY <1>1, <2>1, <2>3
<1>6. CASE UNCHANGED vars \/ \E g \in Groups : Unsubscribe(g)
  BY <1>1, <1>6 DEF vars, Unsubscribe, world
<1>7. CASE PollStep /\ ~\E t \in poll.left : PushLive(t)
  <2>1. UNCHANGED <<live, pushed, budget>>
    BY <1>7 DEF PollStep, StartPoll, ReadSubscriptions, FetchDynamics, NoTargetLeft, MoveCursor,
           FetchLive, SetLive, EndPoll, Mark, Retry, NextTarget, NothingToPush, NextPost, Send, world
  <2>2. poll'.session \in {0, poll.session, live}
    <3>1. CASE StartPoll \/ FetchDynamics \/ NoTargetLeft \/ FetchLive \/ EndPoll
      <4>1. \/ poll' = GoLive \/ poll' = NoPoll
            \/ poll' = [NoPoll EXCEPT !.pc = "next", !.queue = Retriable]
            \/ \E W, L : poll' = [poll EXCEPT !.pc = "target", !.left = W, !.list = L]
            \/ \E W : poll' = [poll EXCEPT !.pc = "target", !.targets = {}, !.left = W, !.session = live]
        BY <3>1 DEF StartPoll, FetchDynamics, NoTargetLeft, FetchLive, EndPoll
      <4>2. GoLive.session = poll.session /\ NoPoll.session = 0
        BY <1>0 DEF GoLive, NoPoll, Poll
      <4>3. CASE poll' = [NoPoll EXCEPT !.pc = "next", !.queue = Retriable]
        BY <4>3 DEF NoPoll
      <4>4. CASE \/ \E W, L : poll' = [poll EXCEPT !.pc = "target", !.left = W, !.list = L]
                 \/ \E W : poll' = [poll EXCEPT !.pc = "target", !.targets = {}, !.left = W, !.session = live]
        BY <1>0, <4>4 DEF Poll
      <4> QED
        BY <4>1, <4>2, <4>3, <4>4
    <3>2. CASE ReadSubscriptions \/ MoveCursor \/ SetLive \/ Mark \/ (\E ok \in BOOLEAN : Send(ok))
               \/ \E i \in poll.queue : Retry(i)
      BY <1>0, <3>2 DEF ReadSubscriptions, MoveCursor, SetLive, Mark, Send, Retry, Poll
    <3>3. CASE \E t \in poll.left : NextTarget(t) \/ NothingToPush(t)
      BY <1>0, <3>3 DEF NextTarget, NothingToPush, Poll
    <3>4. CASE \E p \in poll.todo : NextPost(p)
      <4>1. PICK p \in poll.todo : NextPost(p)
        BY <3>4
      <4>2. poll' = GoLive \/ \E pc, i : poll' = [poll EXCEPT !.todo = @ \ {p}, !.pc = pc, !.item = i]
        BY <4>1 DEF NextPost, QueueAndSend
      <4> QED
        BY <1>0, <4>2 DEF GoLive, Poll
    <3> QED
      BY <1>7, <3>1, <3>2, <3>3, <3>4 DEF PollStep
  <2> QED
    BY <1>1, <2>1, <2>2
<1> QED
  BY <1>2, <1>3, <1>4, <1>5, <1>6, <1>7 DEF Next

\* Only update_live_state writes wasLive of a row that stays.
LEMMA WasLiveStep ==
    ASSUME Types, PollShape, [Next]_vars, NEW g \in Groups, rows[g] # None, rows'[g] # None
    PROVE  \/ rows'[g].wasLive = rows[g].wasLive
           \/ /\ SetLive /\ poll.current.group = g /\ poll.current.row.id = rows[g].id
              /\ rows'[g].wasLive = (poll.session # 0)
<1>0. /\ rows \in [Groups -> Row \union {None}] /\ rows[g] \in Row /\ poll \in Poll
  BY DEF Types
<1>1. CASE SetLive
  <2> DEFINE t == poll.current
             on == poll.session # 0
             r == [rows[t.group] EXCEPT !.wasLive = on]
  <2>1. rows' = IF Exists(t.group, t.row.id) THEN [rows EXCEPT ![t.group] = r] ELSE rows
    BY <1>1 DEF SetLive
  <2>2. CASE Exists(t.group, t.row.id) /\ t.group = g
    <3>1. rows'[g] = r /\ r.wasLive = on
      BY <1>0, <2>1, <2>2 DEF Row
    <3> QED
      BY <1>1, <2>2, <3>1 DEF Exists
  <2>3. CASE ~(Exists(t.group, t.row.id) /\ t.group = g)
    <3> HIDE DEF r, t
    <3> QED
      BY <1>0, <2>1, <2>3
  <2> QED
    BY <2>2, <2>3
<1>2. CASE MoveCursor
  <2> DEFINE t == poll.current
             k == Newest(poll.list)
             r == [rows[t.group] EXCEPT !.cursor = k]
  <2>1. rows' = rows \/ rows' = [rows EXCEPT ![t.group] = r]
    BY <1>2 DEF MoveCursor
  <2>2. t.group = g => r.wasLive = rows[g].wasLive
    BY <1>0 DEF Row
  <2> HIDE DEF r, t
  <2> QED
    BY <1>0, <2>1, <2>2
<1>3. CASE \E u \in Savers : WriteRow(u)
  <2> PICK u \in Savers : WriteRow(u)
    BY <1>3
  <2> DEFINE h == saver[u].group
             s == saver[u].set
             k == IF saver[u].found.cursor = None THEN saver[u].baseline ELSE saver[u].found.cursor
             r == [rows[h] EXCEPT !.set = s, !.cursor = k]
  <2>1. \/ rows' = rows
        \/ rows[h] = None /\ \E n : rows' = [rows EXCEPT ![h] = n]
        \/ rows' = [rows EXCEPT ![h] = r]
    BY DEF WriteRow, Insert, Update
  <2>2. h = g => r.wasLive = rows[g].wasLive
    BY <1>0 DEF Row
  <2> HIDE DEF r, h
  <2> QED
    BY <1>0, <2>1, <2>2
<1>4. CASE \E h \in Groups : Unsubscribe(h)
  BY <1>0, <1>4 DEF Unsubscribe
<1>5. CASE rows' = rows
  BY <1>5
<1>6. \/ rows' = rows \/ MoveCursor \/ SetLive \/ (\E u \in Savers : WriteRow(u))
      \/ (\E h \in Groups : Unsubscribe(h))
  BY DEF Next, PollStep, vars, Publish, Switch, Withdraw, FetchBaseline, ReadAgain, BeginSave,
         StartPoll, ReadSubscriptions, FetchDynamics, NoTargetLeft, FetchLive, EndPoll, Mark,
         Retry, NextTarget, PushLive, NothingToPush, NextPost, Send, Restart
<1> QED
  BY <1>1, <1>2, <1>3, <1>4, <1>5, <1>6

\* What a step does to the rows that the poll works on.
Shrinks ==
    /\ poll'.targets \subseteq poll.targets /\ poll'.left \subseteq poll.left
    /\ poll'.current \in {poll.current, None}
Takes(t) ==
    /\ poll'.targets = poll.targets /\ poll'.left = poll.left \ {t}
    /\ poll'.current = t
Splits ==
    /\ poll'.targets \subseteq poll.targets /\ poll'.left \subseteq poll.targets
    /\ poll'.current = None
\* A look at whether the creator is live goes on with the same session, or has begun.
LooksOn ==
    Looking' =>
        \/ /\ FetchLive /\ poll'.session = live /\ poll'.targets = {}
           /\ poll'.left \subseteq poll.targets /\ poll'.pc = "target"
        \/ /\ Looking /\ poll'.session = poll.session
           /\ poll'.targets = poll.targets /\ poll'.left \subseteq poll.left
\* And somebody who is being told stays so until it is recorded.
TellsOn ==
    poll.phase = "live" /\ poll.pc \in {"sending", "marking", "state"} =>
        \/ SetLive
        \/ /\ poll'.phase = "live" /\ poll'.pc \in {"sending", "marking", "state"}
           /\ poll'.current = poll.current /\ poll'.session = poll.session

LEMMA PollTargets ==
    ASSUME Types, PollShape, PollStep
    PROVE  /\ LooksOn /\ TellsOn
           /\ \/ Shrinks
              \/ Splits
              \/ \E t \in poll.left : Takes(t)
              \/ ReadSubscriptions
<1>0. poll \in Poll /\ poll.left \subseteq Seen
  BY DEF Types, Poll
<1>1. CASE StartPoll
  <2>1. poll' = [NoPoll EXCEPT !.pc = "next", !.queue = Retriable] /\ poll.pc = "idle"
    BY <1>1 DEF StartPoll
  <2>2. /\ poll'.phase = "retry" /\ poll'.targets = {} /\ poll'.left = {} /\ poll'.current = None
    BY <2>1 DEF NoPoll
  <2> QED
    BY <2>1, <2>2 DEF Shrinks, LooksOn, TellsOn, Looking
<1>2. CASE ReadSubscriptions
  <2>1. poll'.pc = "fetch" /\ poll.pc = "next"
    BY <1>0, <1>2 DEF ReadSubscriptions, Poll
  <2> QED
    BY <1>2, <2>1 DEF LooksOn, TellsOn, Looking
<1>3. CASE poll' = GoLive /\ poll.pc \in {"fetch", "target", "item"} /\ poll.phase = "dynamic"
  <2>1. /\ poll'.pc = "fetch" /\ poll'.left = {} /\ poll'.current = None /\ poll'.targets = poll.targets
    BY <1>0, <1>3 DEF GoLive, Poll
  <2> QED
    BY <1>3, <2>1 DEF Shrinks, LooksOn, TellsOn, Looking
<1>4. CASE poll' = NoPoll /\ poll.pc \in {"fetch", "target"}
  <2>1. /\ poll'.pc = "idle" /\ poll'.left = {} /\ poll'.current = None /\ poll'.targets = {}
    BY <1>4 DEF NoPoll
  <2> QED
    BY <1>4, <2>1 DEF Shrinks, LooksOn, TellsOn, Looking
<1>5. CASE FetchDynamics /\ poll' # GoLive
  <2> DEFINE W == {t \in poll.targets : t.row.set.dynamic}
  <2>1. poll' = [poll EXCEPT !.pc = "target", !.left = W, !.list = Listed] /\ W \subseteq poll.targets
        /\ poll.pc = "fetch" /\ poll.phase = "dynamic"
    BY <1>5 DEF FetchDynamics
  <2> HIDE DEF W
  <2>2. /\ poll'.pc = "target" /\ poll'.left = W /\ poll'.current = None /\ poll'.targets = poll.targets
        /\ poll'.phase = "dynamic"
    BY <1>0, <2>1 DEF Poll, PollShape
  <2> QED
    BY <2>1, <2>2 DEF Splits, LooksOn, TellsOn, Looking
<1>6. CASE FetchLive /\ poll' # NoPoll
  <2> DEFINE W == {t \in poll.targets : t.row.set.live}
  <2>1. poll' = [poll EXCEPT !.pc = "target", !.targets = {}, !.left = W, !.session = live]
        /\ W \subseteq poll.targets /\ poll.pc = "fetch" /\ poll.phase = "live"
    BY <1>6 DEF FetchLive
  <2> HIDE DEF W
  <2>2. /\ poll'.pc = "target" /\ poll'.left = W /\ poll'.current = None /\ poll'.targets = {}
        /\ poll'.session = live
    BY <1>0, <2>1 DEF Poll, PollShape
  <2> QED
    BY <1>6, <2>1, <2>2 DEF Splits, LooksOn, TellsOn, Looking
<1>7. CASE MoveCursor
  <2>1. /\ poll'.pc = "target" /\ poll'.phase = "dynamic" /\ poll.phase = "dynamic"
        /\ poll'.targets = poll.targets /\ poll'.left = poll.left /\ poll'.current = None
    BY <1>0, <1>7 DEF MoveCursor, Poll
  <2> QED
    BY <2>1 DEF Shrinks, LooksOn, TellsOn, Looking
<1>8. CASE SetLive
  <2>1. /\ poll.pc = "state" /\ poll.phase = "live" /\ poll'.session = poll.session
        /\ poll'.targets = poll.targets /\ poll'.left = poll.left /\ poll'.current = None
    BY <1>0, <1>8 DEF SetLive, Poll, PollShape
  <2> QED
    BY <1>8, <2>1 DEF Shrinks, LooksOn, TellsOn, Looking
<1>9. CASE Mark
  <2>1. /\ poll.pc = "marking" /\ poll'.session = poll.session
        /\ poll'.targets = poll.targets /\ poll'.left = poll.left /\ poll'.current = poll.current
        /\ poll'.phase = poll.phase
    BY <1>0, <1>9 DEF Mark, Poll
  <2>2. poll.phase = "live" => poll'.pc = "state"
    BY <1>0, <1>9 DEF Mark, Poll
  <2> QED
    BY <2>1, <2>2 DEF Shrinks, LooksOn, TellsOn, Looking
<1>10. CASE \E ok \in BOOLEAN : Send(ok)
  <2>1. /\ poll.pc = "sending" /\ poll'.pc = "marking" /\ poll'.session = poll.session
        /\ poll'.targets = poll.targets /\ poll'.left = poll.left /\ poll'.current = poll.current
        /\ poll'.phase = poll.phase
    BY <1>0, <1>10 DEF Send, Poll
  <2> QED
    BY <2>1 DEF Shrinks, LooksOn, TellsOn, Looking
<1>11. CASE \E i \in poll.queue : Retry(i)
  <2>1. /\ poll.pc = "next" /\ poll.phase = "retry"
        /\ poll'.targets = poll.targets /\ poll'.left = poll.left /\ poll'.current = poll.current
        /\ poll'.phase = poll.phase
    BY <1>0, <1>11 DEF Retry, Poll, PollShape
  <2> QED
    BY <2>1 DEF Shrinks, LooksOn, TellsOn, Looking
<1>12. CASE \E t \in poll.left : NextTarget(t)
  <2> PICK t \in poll.left : NextTarget(t)
    BY <1>12
  <2>1. /\ poll.phase = "dynamic" /\ poll'.phase = "dynamic" /\ Takes(t)
    BY <1>0 DEF NextTarget, Poll, Takes
  <2> QED
    BY <2>1 DEF LooksOn, TellsOn, Looking
<1>13. CASE \E t \in poll.left : NothingToPush(t)
  <2> PICK t \in poll.left : NothingToPush(t)
    BY <1>13
  <2>1. /\ poll.phase = "live" /\ poll.pc = "target" /\ Takes(t) /\ poll'.session = poll.session
    BY <1>0 DEF NothingToPush, Poll, Takes
  <2> QED
    BY <2>1 DEF LooksOn, TellsOn, Looking, Takes
<1>14. CASE \E t \in poll.left : PushLive(t) /\ poll' # NoPoll
  <2> PICK t \in poll.left : PushLive(t) /\ poll' # NoPoll
    BY <1>14
  <2>1. PICK i : poll' = [poll EXCEPT !.pc = "sending", !.current = t, !.left = @ \ {t}, !.item = i]
    BY DEF PushLive
  <2>2. /\ poll.phase = "live" /\ poll.pc = "target" /\ Takes(t) /\ poll'.session = poll.session
    BY <1>0, <2>1 DEF PushLive, Poll, Takes
  <2> QED
    BY <2>2 DEF LooksOn, TellsOn, Looking, Takes
<1>15. CASE \E p \in poll.todo : NextPost(p) /\ poll' # GoLive
  <2> PICK p \in poll.todo : NextPost(p) /\ poll' # GoLive
    BY <1>15
  <2>1. PICK pc, i : poll' = [poll EXCEPT !.todo = @ \ {p}, !.pc = pc, !.item = i]
    BY DEF NextPost, QueueAndSend
  <2>2. /\ poll.phase = "dynamic" /\ poll'.phase = "dynamic"
        /\ poll'.targets = poll.targets /\ poll'.left = poll.left /\ poll'.current = poll.current
    BY <1>0, <2>1 DEF NextPost, Poll
  <2> QED
    BY <2>2 DEF Shrinks, LooksOn, TellsOn, Looking
<1>16. \/ poll' = GoLive /\ poll.pc \in {"fetch", "target", "item"} /\ poll.phase = "dynamic"
       \/ poll' = NoPoll /\ poll.pc \in {"fetch", "target"}
       \/ StartPoll \/ ReadSubscriptions \/ (FetchDynamics /\ poll' # GoLive)
       \/ (FetchLive /\ poll' # NoPoll) \/ MoveCursor \/ SetLive \/ Mark
       \/ (\E ok \in BOOLEAN : Send(ok)) \/ (\E i \in poll.queue : Retry(i))
       \/ (\E t \in poll.left : NextTarget(t)) \/ (\E t \in poll.left : NothingToPush(t))
       \/ (\E t \in poll.left : PushLive(t) /\ poll' # NoPoll)
       \/ (\E p \in poll.todo : NextPost(p) /\ poll' # GoLive)
  BY DEF PollStep, FetchDynamics, NoTargetLeft, FetchLive, EndPoll, PushLive, NextPost
<1> QED
  BY <1>1, <1>2, <1>3, <1>4, <1>5, <1>6, <1>7, <1>8, <1>9, <1>10, <1>11, <1>12, <1>13, <1>14,
     <1>15, <1>16

\* A row that the poll has read, or that was told of a session, has not come back.
LEMMA KnownRows ==
    ASSUME Types, PollShape, Fresh, [Next]_vars
    PROVE  /\ \A t \in SeenRows : /\ t \in Seen
                                  /\ Exists(t.group, t.row.id)' => Exists(t.group, t.row.id)
           /\ \A c \in Pushes : pushed[c] # None => pushed[c] \in Push
           /\ \A q \in Push : (\E c \in Pushes : pushed[c] = q) =>
                q.group \in Groups /\ (Exists(q.group, q.id)' => Exists(q.group, q.id))
<1>1. ASSUME NEW t \in SeenRows
      PROVE  t \in Seen /\ (Exists(t.group, t.row.id)' => Exists(t.group, t.row.id))
  <2>1. t \in Seen
    BY DEF Types, Poll, SeenRows
  <2>2. t.group \in Groups /\ t.row.id \in Nat /\ t.row.id > budget.rows[t.group]
    BY <2>1, SeenParts DEF Fresh
  <2> QED
    BY <2>1, <2>2, NoRevival
<1>2. \A c \in Pushes : pushed[c] # None => pushed[c] \in Push
  BY DEF Types
<1>3. ASSUME NEW q \in Push, \E c \in Pushes : pushed[c] = q
      PROVE  q.group \in Groups /\ (Exists(q.group, q.id)' => Exists(q.group, q.id))
  <2>1. q # None
    BY NoneAssumption
  <2>2. q.group \in Groups /\ q.id \in Nat /\ q.id > budget.rows[q.group]
    BY <1>3, <2>1, BoundsAssumption DEF Fresh, Push
  <2> QED
    BY <2>2, NoRevival
<1> QED
  BY <1>1, <1>2, <1>3

\* The steps of everybody else leave the poll alone, or end it.
LEMMA OthersLeavePoll ==
    ASSUME [Next]_vars, ~PollStep
    PROVE  \/ poll' = poll /\ pushed' = pushed /\ cutOff' = cutOff
           \/ /\ poll' = NoPoll /\ pushed' = pushed /\ cutOff' = cutOff \union Unrecorded
              /\ UNCHANGED <<rows, live>>
BY DEF Next, vars, world, Publish, Switch, Restart, Withdraw, FetchBaseline, ReadAgain, WriteRow, BeginSave,
       Unsubscribe

LEMMA OneRowEachKept ==
    ASSUME Types, PollShape, Fresh, OneRowEach, [Next]_vars
    PROVE  OneRowEach'
<1>0. poll \in Poll /\ poll.targets \subseteq Seen /\ poll.left \subseteq Seen
  BY DEF Types, Poll
\* Of the rows that the poll had read, those that are still there have their wasLive.
<1>1. \A t \in poll.targets \union poll.left :
            ~(SetLive /\ t.group = poll.current.group) /\ Exists(t.group, t.row.id)'
            => rows'[t.group].wasLive = t.row.wasLive
  <2> SUFFICES ASSUME NEW t \in poll.targets \union poll.left,
                      ~(SetLive /\ t.group = poll.current.group), Exists(t.group, t.row.id)'
               PROVE  rows'[t.group].wasLive = t.row.wasLive
    OBVIOUS
  <2>1. t \in SeenRows /\ t.group \in Groups
    BY <1>0, SeenParts DEF SeenRows
  <2>2. Exists(t.group, t.row.id) /\ rows'[t.group] # None
    BY <2>1, KnownRows DEF Exists
  <2>3. rows'[t.group].wasLive = rows[t.group].wasLive
    BY <2>1, <2>2, WasLiveStep DEF Exists
  <2> QED
    BY <2>2, <2>3 DEF OneRowEach
<1>2. SetLive => poll.targets = {} /\ \A t \in poll.left : t.group # poll.current.group
  BY DEF SetLive, OneRowEach, Looking, PollShape
<1>3. CASE ~PollStep
  <2>1. CASE poll' = poll
    <3>1. \A t \in poll.targets \union poll.left :
            Exists(t.group, t.row.id)' => rows'[t.group].wasLive = t.row.wasLive
      BY <1>1, <1>3 DEF PollStep
    <3> QED
      BY <2>1, <3>1 DEF OneRowEach, Looking, Exists
  <2>2. CASE poll' = NoPoll
    <3>1. poll'.targets = {} /\ poll'.left = {} /\ ~Looking'
      BY <2>2 DEF NoPoll, Looking
    <3> QED
      BY <3>1 DEF OneRowEach
  <2> QED
    BY <1>3, <2>1, <2>2, OthersLeavePoll
<1>4. CASE PollStep /\ ~ReadSubscriptions
  <2>1. \A t \in poll.targets \union poll.left :
            Exists(t.group, t.row.id)' => rows'[t.group].wasLive = t.row.wasLive
    BY <1>1, <1>2
  <2>2. Looking' => poll'.targets = {}
    BY <1>4, PollTargets DEF LooksOn, OneRowEach
  <2>3. poll'.targets \subseteq poll.targets /\ poll'.left \subseteq poll.targets \union poll.left
    BY <1>4, PollTargets DEF Shrinks, Splits, Takes
  <2>4. \A t \in poll'.targets \union poll'.left :
            Exists(t.group, t.row.id)' => rows'[t.group].wasLive = t.row.wasLive
    BY <2>1, <2>3
  <2>5. /\ \A t, u \in poll'.targets : t.group = u.group => t = u
        /\ \A t, u \in poll'.left : t.group = u.group => t = u
        /\ \A t \in poll'.left : poll'.current # None => t.group # poll'.current.group
    BY <1>4, PollTargets DEF Shrinks, Splits, Takes, OneRowEach
  <2> QED
    BY <2>2, <2>4, <2>5 DEF OneRowEach, Exists
<1>5. CASE ReadSubscriptions
  <2> DEFINE S == {[group |-> g, row |-> rows[g]] : g \in {g \in Groups : rows[g] # None /\ rows[g].set.enabled}}
  <2>1. /\ \A t \in S : t.row = rows[t.group]
        /\ \A t, u \in S : t.group = u.group => t = u
    OBVIOUS
  <2>2. poll' = [poll EXCEPT !.pc = "fetch", !.phase = "dynamic", !.targets = S] /\ rows' = rows
        /\ poll.pc = "next"
    BY <1>5 DEF ReadSubscriptions
  <2> HIDE DEF S
  <2>3. poll'.targets = S /\ poll'.left = {} /\ poll'.current = None /\ poll'.phase = "dynamic"
    BY <1>0, <2>2 DEF PollShape, Poll
  <2> QED
    BY <2>1, <2>2, <2>3 DEF OneRowEach, Looking
<1> QED
  BY <1>3, <1>4, <1>5

\* Who announces what.
LEMMA PushLivePushes ==
    ASSUME Types, PollShape, NEW t \in poll.left, PushLive(t), pushed' # pushed
    PROVE  /\ Exists(t.group, t.row.id) /\ UNCHANGED <<rows, live, cutOff>> /\ ~t.row.wasLive
           /\ poll.session # 0 /\ Looking
           /\ \E c \in Pushes :
                /\ pushed[c] = None /\ pushed'[c] = PushOf(t.group, t.row.id, poll.session)
                /\ \A d \in Pushes : d # c => pushed'[d] = pushed[d]
           /\ poll'.phase = "live" /\ poll'.pc = "sending" /\ poll'.current = t
           /\ poll'.session = poll.session
<1>0. poll \in Poll
  BY DEF Types
<1>1. PICK c \in Pushes :
        /\ pushed[c] = None
        /\ pushed' = [pushed EXCEPT ![c] = [group |-> t.group, id |-> t.row.id, session |-> poll.session]]
        /\ poll' = [poll EXCEPT !.pc = "sending", !.current = t, !.left = @ \ {t},
                        !.item = [group |-> t.group, id |-> t.row.id, content |-> c]]
  BY DEF PushLive
<1>2. /\ pushed'[c] = PushOf(t.group, t.row.id, poll.session)
      /\ \A d \in Pushes : d # c => pushed'[d] = pushed[d]
  BY <1>1 DEF Types, PushOf
<1>3. poll'.phase = "live" /\ poll'.pc = "sending" /\ poll'.current = t /\ poll'.session = poll.session
  BY <1>0, <1>1 DEF PushLive, Poll
<1>4. Exists(t.group, t.row.id) /\ UNCHANGED <<rows, live, cutOff>> /\ ~t.row.wasLive
      /\ poll.session # 0 /\ Looking
  BY DEF PushLive, world, Looking
<1> QED
  BY <1>1, <1>2, <1>3, <1>4

LEMMA OnlyPushLivePushes ==
    ASSUME [Next]_vars, pushed' # pushed
    PROVE  \E t \in poll.left : PushLive(t)
BY DEF Next, PollStep, vars, world, Publish, Switch, Restart, Withdraw, FetchBaseline, ReadAgain,
       WriteRow, BeginSave, Unsubscribe, StartPoll, ReadSubscriptions, FetchDynamics, NoTargetLeft,
       MoveCursor, FetchLive, SetLive, EndPoll, Mark, Retry, NextTarget, NothingToPush, NextPost, Send

\* A new session is not one that was pushed.
LEMMA LiveStep ==
    ASSUME Types, Sessions, [Next]_vars, NEW c \in Pushes, pushed[c] # None, pushed[c].session # live
    PROVE  pushed[c].session # live'
<1>1. pushed[c].session \in Nat /\ pushed[c].session > budget.sessions /\ budget.sessions \in Nat
  BY DEF Types, Push, Left, Sessions
<1>2. \/ live' = live \/ live' = 0 \/ live' = budget.sessions
  BY DEF Next, PollStep, vars, world, Publish, Switch, Restart, Withdraw, FetchBaseline, ReadAgain,
         WriteRow, BeginSave, Unsubscribe, StartPoll, ReadSubscriptions, FetchDynamics, NoTargetLeft,
         MoveCursor, FetchLive, SetLive, EndPoll, Mark, Retry, NextTarget, PushLive, NothingToPush,
         NextPost, Send
<1> QED
  BY <1>1, <1>2

LEMMA CutOffGrows ==
    ASSUME [Next]_vars
    PROVE  cutOff \subseteq cutOff'
BY DEF Next, PollStep, vars, Publish, Switch, Restart, Withdraw, FetchBaseline, ReadAgain,
       WriteRow, BeginSave, Unsubscribe, StartPoll, ReadSubscriptions, FetchDynamics, NoTargetLeft,
       MoveCursor, FetchLive, SetLive, EndPoll, Mark, Retry, NextTarget, PushLive, NothingToPush,
       NextPost, Send

\* update_live_state remembers the session.
LEMMA SetLiveRemembers ==
    ASSUME Types, PollShape, SetLive, Exists(poll.current.group, poll.current.row.id)
    PROVE  rows'[poll.current.group].wasLive = (poll.session # 0)
<1> DEFINE t == poll.current
           on == poll.session # 0
           r == [rows[t.group] EXCEPT !.wasLive = on]
<1>1. t \in Seen /\ t.group \in Groups
  BY SeenParts DEF SetLive, PollShape, Types, Poll
<1>2. rows[t.group] \in Row
  BY <1>1 DEF Types, Exists
<1>3. rows' = [rows EXCEPT ![t.group] = r] /\ r.wasLive = on
  BY <1>2 DEF SetLive, Row
<1> HIDE DEF r
<1> QED
  BY <1>1, <1>3 DEF Types

LEMMA RememberedKept ==
    ASSUME Types, PollShape, Fresh, OnceInv, Types', [Next]_vars
    PROVE  Remembered'
<1> SUFFICES ASSUME NEW c \in Pushes, pushed'[c] # None, NEW q \in Push, q = pushed'[c],
                    Exists(q.group, q.id)', ~rows'[q.group].wasLive, q.session = live', q \notin cutOff'
             PROVE  /\ poll'.phase = "live" /\ poll'.pc \in {"sending", "marking", "state"}
                    /\ poll'.current.group = q.group /\ poll'.current.row.id = rows'[q.group].id
                    /\ poll'.session = q.session
  <2>1. \A c \in Pushes : pushed'[c] # None => pushed'[c] \in Push
    BY DEF Types
  <2> QED
    BY <2>1 DEF Remembered, Telling, Exists
<1> DEFINE g == q.group
<1>0. g \in Groups /\ q.session \in Nat /\ rows'[g] # None /\ rows'[g].id = q.id
  BY DEF Push, Exists
<1>1. CASE pushed'[c] = pushed[c]
  <2>1. Exists(g, q.id)
    BY <1>1, KnownRows
  <2>2. q.session = live
    BY <1>1, LiveStep DEF OnceInv
  <2>3. q \notin cutOff
    BY CutOffGrows
  <2>4. ~rows[g].wasLive
    <3>1. CASE SetLive /\ ~(poll.session # 0)
      <4>1. Looking
        BY <3>1 DEF SetLive, PollShape, Looking
      <4> QED
        BY <1>1, <2>2, <3>1, <4>1 DEF OnceInv, Untold
    <3>2. CASE ~(SetLive /\ ~(poll.session # 0))
      <4>1. rows[g] # None
        BY <2>1 DEF Exists
      <4> QED
        BY <1>0, <3>2, <4>1, WasLiveStep
    <3> QED
      BY <3>1, <3>2
  <2>5. Telling(g) /\ poll.session = q.session
    BY <1>1, <2>1, <2>2, <2>3, <2>4 DEF OnceInv, Remembered
  <2>6. poll.session # 0
    <3>1. budget.sessions \in Nat /\ q.session > budget.sessions
      BY <1>1 DEF OnceInv, Sessions, Types, Left
    <3> QED
      BY <1>0, <2>5, <3>1
  <2>7. rows'[g].id = rows[g].id
    BY <1>0, <2>1 DEF Exists
  <2>8. ~SetLive
    <3> SUFFICES ASSUME SetLive PROVE FALSE
      OBVIOUS
    <3>1. Exists(poll.current.group, poll.current.row.id) /\ poll.current.group = g
      BY <2>1, <2>5 DEF Telling, Exists
    <3> QED
      BY <2>6, <3>1, SetLiveRemembers
  <2>9. CASE PollStep
    BY <2>5, <2>7, <2>8, <2>9, PollTargets DEF TellsOn, Telling
  <2>10. CASE poll' = poll
    BY <2>5, <2>7, <2>10 DEF Telling
  <2>11. CASE cutOff' = cutOff \union Unrecorded
    <3>1. poll.current # None /\ poll.phase = "live" /\ poll.current.group = g /\ poll.current.row.id = q.id
      BY <2>1, <2>5 DEF Telling, PollShape, Busy, Exists
    <3>2. PushOf(g, q.id, q.session) \in Unrecorded
      BY <2>5, <2>6, <3>1 DEF Unrecorded, PushOf
    <3>3. PushOf(g, q.id, q.session) = q
      BY DEF PushOf, Push
    <3> QED
      BY <2>11, <3>2, <3>3
  <2> QED
    BY <2>9, <2>10, <2>11, OthersLeavePoll
<1>2. CASE pushed'[c] # pushed[c]
  <2>1. PICK t \in poll.left : PushLive(t)
    BY <1>2, OnlyPushLivePushes
  <2>2. q = PushOf(t.group, t.row.id, poll.session)
    BY <1>2, <2>1, PushLivePushes
  <2>3. g = t.group /\ q.id = t.row.id /\ q.session = poll.session
    BY <2>2 DEF PushOf
  <2> QED
    BY <1>0, <1>2, <2>1, <2>3, PushLivePushes
<1> QED
  BY <1>1, <1>2

LEMMA UntoldKept ==
    ASSUME Types, PollShape, Fresh, OnceInv, OneRowEach', Types', [Next]_vars
    PROVE  Untold'
<1>1. ASSUME Looking', NEW t \in poll'.left, NEW c \in Pushes, ~t.row.wasLive,
             pushed'[c] = PushOf(t.group, t.row.id, poll'.session), Exists(t.group, t.row.id)'
      PROVE  pushed'[c] \in cutOff'
  <2> DEFINE q == PushOf(t.group, t.row.id, poll'.session)
  <2>0. q.group = t.group /\ q.id = t.row.id /\ q.session = poll'.session
    BY DEF PushOf
  <2>00. pushed'[c] # None
    <3>1. t \in Seen /\ poll'.session \in Nat
      BY DEF Types, Poll
    <3>2. q \in Push
      BY <3>1, SeenParts DEF PushOf, Push
    <3> QED
      BY <1>1, <3>2, NoneAssumption
  <2>1. CASE pushed'[c] # pushed[c]
    <3>1. PICK u \in poll.left : PushLive(u)
      BY <2>1, OnlyPushLivePushes
    <3>2. pushed'[c] = PushOf(u.group, u.row.id, poll.session) /\ poll'.current = u
      BY <2>1, <3>1, PushLivePushes
    <3>3. t.group = u.group
      BY <1>1, <3>2 DEF PushOf
    <3>4. u # None
      BY NoneAssumption DEF Types, Poll
    <3> QED
      BY <1>1, <3>2, <3>3, <3>4 DEF OneRowEach
  <2>2. CASE pushed'[c] = pushed[c]
    <3>1. ASSUME t \in poll.left \union poll.targets PROVE t \in SeenRows /\ Exists(t.group, t.row.id)
      BY <1>1, <3>1, KnownRows DEF SeenRows
    <3>2. CASE FetchLive
      <4>1. /\ poll'.session = live /\ t \in poll.targets /\ poll.pc = "fetch"
        <5>1. PollStep /\ poll.pc = "fetch"
          BY <3>2 DEF PollStep, FetchLive
        <5> QED
          BY <1>1, <5>1, PollTargets DEF LooksOn, Looking
      <4>2. rows[t.group].wasLive = t.row.wasLive /\ Exists(t.group, t.row.id)
        BY <3>1, <4>1 DEF OnceInv, OneRowEach
      <4>3. pushed[c].group = t.group /\ pushed[c].id = t.row.id /\ pushed[c].session = live /\ pushed[c] # None
        BY <1>1, <2>0, <2>00, <2>2, <4>1
      <4>4. pushed[c] \in cutOff
        BY <1>1, <4>1, <4>2, <4>3 DEF OnceInv, Remembered, Telling
      <4> QED
        BY <2>2, <4>4, CutOffGrows
    <3>3. CASE Looking /\ poll'.session = poll.session /\ t \in poll.left
      <4>1. pushed[c] \in cutOff
        BY <1>1, <2>2, <3>1, <3>3 DEF OnceInv, Untold
      <4> QED
        BY <2>2, <4>1, CutOffGrows
    <3>4. CASE PollStep
      BY <1>1, <3>2, <3>3, <3>4, PollTargets DEF LooksOn
    <3>5. CASE ~PollStep
      <4>1. poll' # NoPoll
        BY <1>1 DEF NoPoll, Looking
      <4>2. poll' = poll
        BY <3>5, <4>1, OthersLeavePoll
      <4> QED
        BY <1>1, <3>3, <4>2 DEF Looking
    <3> QED
      BY <3>4, <3>5
  <2> QED
    BY <2>1, <2>2
<1>2. ASSUME Looking', poll'.session = 0, NEW c \in Pushes, pushed'[c] # None
      PROVE  pushed'[c].session # live'
  <2>1. pushed'[c] = pushed[c]
    <3> SUFFICES ASSUME pushed'[c] # pushed[c] PROVE FALSE
      OBVIOUS
    <3>1. PICK u \in poll.left : PushLive(u)
      BY OnlyPushLivePushes
    <3> QED
      BY <1>2, <3>1, PushLivePushes
  <2>2. pushed[c].session > budget.sessions /\ budget.sessions \in Nat /\ pushed[c].session \in Nat
    BY <1>2, <2>1 DEF OnceInv, Sessions, Types, Left, Push
  <2>3. pushed[c].session # live
    <3>1. CASE Looking /\ poll.session = 0
      BY <1>2, <2>1, <3>1 DEF OnceInv, Untold
    <3>2. CASE poll'.session = live
      BY <1>2, <2>2, <3>2
    <3>3. CASE PollStep
      BY <1>2, <3>1, <3>2, <3>3, PollTargets DEF LooksOn
    <3>4. CASE ~PollStep
      <4>1. poll' # NoPoll
        BY <1>2 DEF NoPoll, Looking
      <4>2. poll' = poll
        BY <3>4, <4>1, OthersLeavePoll
      <4> QED
        BY <1>2, <3>1, <4>2 DEF Looking
    <3> QED
      BY <3>3, <3>4
  <2> QED
    BY <1>2, <2>1, <2>3, LiveStep DEF OnceInv
<1> QED
  BY <1>1, <1>2 DEF Untold, Looking, PushOf, Exists

LEMMA OnceKept ==
    ASSUME Types, PollShape, Fresh, OnceInv, Types', [Next]_vars
    PROVE  OnceInv'
<1>1. OncePerSession'
  <2> SUFFICES ASSUME NEW c \in Pushes, NEW d \in Pushes, c # d, pushed'[c] # None,
                      pushed'[c] = pushed'[d]
               PROVE  pushed'[c] \in cutOff'
    BY DEF OncePerSession
  <2>1. CASE pushed' = pushed
    BY <2>1, CutOffGrows DEF OnceInv, OncePerSession
  <2>2. CASE pushed' # pushed
    <3>1. PICK t \in poll.left : PushLive(t)
      BY <2>2, OnlyPushLivePushes
    <3>2. PICK e \in Pushes :
            /\ pushed[e] = None /\ pushed'[e] = PushOf(t.group, t.row.id, poll.session)
            /\ \A f \in Pushes : f # e => pushed'[f] = pushed[f]
      BY <2>2, <3>1, PushLivePushes
    <3>3. Exists(t.group, t.row.id) /\ ~t.row.wasLive /\ Looking /\ cutOff' = cutOff
      BY <2>2, <3>1, PushLivePushes
    <3>4. \A f \in Pushes : pushed[f] = PushOf(t.group, t.row.id, poll.session) => pushed[f] \in cutOff
      BY <3>3 DEF OnceInv, Untold
    <3> QED
      BY <3>2, <3>3, <3>4 DEF OnceInv, OncePerSession
  <2> QED
    BY <2>1, <2>2
<1>2. Sessions' /\ OneRowEach'
  BY SessionsKept, OneRowEachKept DEF OnceInv
<1>3. Remembered' /\ Untold'
  BY <1>2, RememberedKept, UntoldKept
<1> QED
  BY <1>1, <1>2, <1>3 DEF OnceInv

------------------------------------------------------------------------------
(* What no cursor passes over *)

\* As long as a row stays, its deliveries do.
LEMMA DeliveriesStay ==
    ASSUME Types, PollShape, SentInv, [Next]_vars, NEW g \in Groups, rows'[g] # None,
           NEW c \in Contents, deliveries[g][c] # None
    PROVE  deliveries'[g][c] # None
<1>0. /\ deliveries \in [Groups -> [Contents -> Delivery \union {None}]] /\ poll \in Poll
  BY DEF Types
<1>1. CASE deliveries' = deliveries
  BY <1>1
<1>2. CASE \E h \in Groups : Unsubscribe(h)
  <2>1. PICK h \in Groups : Unsubscribe(h)
    BY <1>2
  <2>2. h # g
    BY <2>1 DEF Unsubscribe, Types
  <2> QED
    BY <1>0, <2>1, <2>2 DEF Unsubscribe
<1>3. CASE Mark
  <2> DEFINE i == poll.item
             a == Min({MaxAttempts, deliveries[i.group][i.content].attempts + 1})
             n == [status |-> IF poll.ok THEN "sent" ELSE "failed", attempts |-> a]
  <2>1. CASE ~Exists(i.group, i.id)
    BY <1>3, <2>1 DEF Mark
  <2>2. CASE Exists(i.group, i.id)
    <3>1. i \in Item /\ i.group \in Groups /\ i.content \in Contents /\ Unsent(i)
      BY <1>0, <1>3, ItemParts DEF Mark, Busy, PollShape, Poll, SentInv
    <3>2. deliveries[i.group][i.content] \in Delivery
      BY <1>0, <2>2, <3>1 DEF Unsent
    <3>3. deliveries[i.group][i.content].attempts \in Nat
      BY <3>2, BoundsAssumption DEF Delivery
    <3>4. a \in 0..MaxAttempts
      BY <3>3, MinOfTwo, BoundsAssumption
    <3>5. n \in Delivery /\ n # None
      <4> HIDE DEF a
      <4> QED
        BY <3>4, NoneAssumption DEF Delivery
    <3>6. deliveries' = [deliveries EXCEPT ![i.group] = [deliveries[i.group] EXCEPT ![i.content] = n]]
      BY <1>3, <2>2 DEF Mark
    <3> HIDE DEF n, i
    <3> QED
      BY <1>0, <3>1, <3>5, <3>6
  <2> QED
    BY <2>1, <2>2
<1>4. ASSUME NEW h \in Groups, NEW d \in Contents, deliveries' = Queued(h, d)
      PROVE  deliveries'[g][c] # None
  <2>1. CASE deliveries[h][d] = None
    <3>1. h # g \/ d # c
      BY <2>1
    <3>2. Queued(h, d)[g][c] = deliveries[g][c]
      BY <3>1, QueuedTypes
    <3> QED
      BY <1>4, <3>2
  <2>2. CASE deliveries[h][d] # None
    BY <1>4, <2>2 DEF Queued
  <2> QED
    BY <2>1, <2>2
<1>5. CASE \E p \in poll.todo : NextPost(p)
  <2>1. PICK p \in poll.todo : NextPost(p)
    BY <1>5
  <2>2. p \in Contents /\ poll.current.group \in Groups
    BY <1>0, <2>1, SeenParts DEF NextPost, PollShape, Poll, Contents
  <2>3. deliveries' = deliveries \/ deliveries' = Queued(poll.current.group, p)
    BY <2>1 DEF NextPost, QueueAndSend
  <2> QED
    BY <1>4, <2>2, <2>3
<1>6. CASE \E t \in poll.left : PushLive(t)
  <2>1. PICK t \in poll.left : PushLive(t)
    BY <1>6
  <2>2. t.group \in Groups
    BY <1>0, SeenParts DEF Poll
  <2>3. deliveries' = deliveries \/ \E d \in Pushes : deliveries' = Queued(t.group, d)
    BY <2>1 DEF PushLive
  <2>4. Pushes \subseteq Contents
    BY DEF Contents
  <2> QED
    BY <1>4, <2>2, <2>3, <2>4
<1>7. \/ deliveries' = deliveries \/ (\E h \in Groups : Unsubscribe(h)) \/ Mark
      \/ (\E p \in poll.todo : NextPost(p)) \/ (\E t \in poll.left : PushLive(t))
  BY DEF Next, PollStep, vars, Publish, Switch, Restart, Withdraw, FetchBaseline, ReadAgain,
         WriteRow, BeginSave, StartPoll, ReadSubscriptions, FetchDynamics, NoTargetLeft, MoveCursor,
         FetchLive, SetLive, EndPoll, Retry, NextTarget, NothingToPush, Send
<1> QED
  BY <1>1, <1>2, <1>3, <1>5, <1>6, <1>7

\* What the two writes of a save, and the end of a target's posts, do to one row.
LEMMA InsertRow ==
    ASSUME Types, NEW h \in Groups, NEW s \in Flags, NEW b \in Cursors, Insert(h, s, b)
    PROVE  /\ rows'[h] \in Row /\ rows'[h].cursor = b /\ base'[h] = b
           /\ \A g \in Groups : g # h => rows'[g] = rows[g] /\ base'[g] = base[g]
<1> DEFINE r == [id |-> budget.rows[h], set |-> s, cursor |-> b, wasLive |-> FALSE]
<1>1. budget.rows[h] \in 1..MaxRows
  BY BoundsAssumption DEF Insert, Types, Left
<1>2. r \in Row /\ r.cursor = b
  BY <1>1 DEF Row
<1>3. rows' = [rows EXCEPT ![h] = r] /\ base' = [base EXCEPT ![h] = b]
  BY DEF Insert
<1> HIDE DEF r
<1> QED
  BY <1>2, <1>3 DEF Types

LEMMA UpdateRow ==
    ASSUME Types, NEW h \in Groups, NEW found \in Row, NEW s \in Flags, NEW b \in Cursors,
           rows[h] # None, Update(h, found, s, b)
    PROVE  /\ rows'[h] \in Row
           /\ found.cursor # None => rows'[h].cursor = found.cursor /\ base'[h] = base[h]
           /\ found.cursor = None => rows'[h].cursor = b /\ base'[h] = Later(base[h], b)
           /\ \A g \in Groups : g # h => rows'[g] = rows[g] /\ base'[g] = base[g]
<1> DEFINE k == IF found.cursor = None THEN b ELSE found.cursor
           r == [rows[h] EXCEPT !.set = s, !.cursor = k]
<1>1. rows[h] \in Row /\ k \in Cursors
  BY DEF Types, Row
<1>2. r \in Row /\ r.cursor = k
  <2> HIDE DEF k
  <2> QED
    BY <1>1 DEF Row
<1>3. /\ rows' = [rows EXCEPT ![h] = r]
      /\ base' = IF found.cursor = None THEN [base EXCEPT ![h] = Later(base[h], b)] ELSE base
  BY DEF Update
<1>4. rows'[h] = r /\ \A g \in Groups : g # h => rows'[g] = rows[g]
  <2> HIDE DEF r
  <2> QED
    BY <1>3 DEF Types
<1>5. /\ base'[h] = IF found.cursor = None THEN Later(base[h], b) ELSE base[h]
      /\ \A g \in Groups : g # h => base'[g] = base[g]
  BY <1>3 DEF Types
<1> QED
  BY <1>2, <1>4, <1>5

LEMMA MoveCursorRow ==
    ASSUME Types, PollShape, MoveCursor, Exists(poll.current.group, poll.current.row.id),
           NEW h \in Groups, h = poll.current.group, NEW k, k = Newest(poll.list)
    PROVE  /\ k \in Cursors \ {None} /\ rows'[h] \in Row /\ rows'[h].cursor = k
           /\ poll.current.row.cursor = None => base'[h] = Later(base[h], k)
           /\ poll.current.row.cursor # None => base'[h] = base[h]
           /\ \A g \in Groups : g # h => rows'[g] = rows[g] /\ base'[g] = base[g]
<1> DEFINE r == [rows[h] EXCEPT !.cursor = k]
<1>1. k \in Cursors \ {None}
  BY NewestIsLast, NoneAssumption DEF MoveCursor, PollShape, Types, Poll
<1>2. rows[h] \in Row
  BY DEF Types, Exists
<1>3. r \in Row /\ r.cursor = k
  BY <1>1, <1>2 DEF Row
<1>4. /\ rows' = [rows EXCEPT ![h] = r]
      /\ base' = IF poll.current.row.cursor = None THEN [base EXCEPT ![h] = Later(base[h], k)] ELSE base
  BY DEF MoveCursor
<1>5. rows'[h] = r /\ \A g \in Groups : g # h => rows'[g] = rows[g]
  <2> HIDE DEF r
  <2> QED
    BY <1>4 DEF Types
<1>6. /\ base'[h] = IF poll.current.row.cursor = None THEN Later(base[h], k) ELSE base[h]
      /\ \A g \in Groups : g # h => base'[g] = base[g]
  BY <1>4 DEF Types
<1> QED
  BY <1>1, <1>3, <1>5, <1>6

\* The ways in which a cursor, or what it is counted from, changes.
Inserts(g) ==
    \E u \in Savers :
        /\ saver[u].pc = "writing" /\ rows[g] = None /\ saver[u].baseline \in Cursors
        /\ rows'[g] # None /\ rows'[g].cursor = saver[u].baseline /\ base'[g] = saver[u].baseline
Updates(g) ==
    \E u \in Savers :
        LET found == saver[u].found
            b == saver[u].baseline
        IN  /\ saver[u].pc = "writing" /\ saver[u].group = g /\ found \in Row
            /\ Exists(g, found.id) /\ b \in Cursors /\ rows'[g] # None
            /\ found.cursor # None => rows'[g].cursor = found.cursor /\ base'[g] = base[g]
            /\ found.cursor = None => rows'[g].cursor = b /\ base'[g] = Later(base[g], b)
Moves(g) ==
    LET t == poll.current
        k == Newest(poll.list)
    IN  /\ MoveCursor /\ t \in Seen /\ t.group = g /\ Exists(g, t.row.id) /\ k \in Cursors \ {None}
        /\ rows'[g] # None /\ rows'[g].cursor = k
        /\ t.row.cursor = None => base'[g] = Later(base[g], k)
        /\ t.row.cursor # None => base'[g] = base[g]

LEMMA CursorStep ==
    ASSUME Types, PollShape, [Next]_vars, NEW g \in Groups
    PROVE  \/ /\ base'[g] = base[g]
              /\ rows[g] = None <=> rows'[g] = None
              /\ rows[g] # None => rows'[g].cursor = rows[g].cursor
           \/ rows'[g] = None /\ base'[g] = None
           \/ Inserts(g)
           \/ Updates(g)
           \/ Moves(g)
<1>0. /\ rows \in [Groups -> Row \union {None}] /\ base \in [Groups -> Cursors] /\ poll \in Poll
      /\ None \notin Row
  BY NoneAssumption DEF Types
<1>1. CASE UNCHANGED <<rows, base>>
  BY <1>1
<1>2. CASE \E h \in Groups : Unsubscribe(h)
  <2> PICK h \in Groups : Unsubscribe(h)
    BY <1>2
  <2> QED
    BY <1>0 DEF Unsubscribe
<1>3. CASE SetLive
  <2> DEFINE t == poll.current
             on == poll.session # 0
             r == [rows[t.group] EXCEPT !.wasLive = on]
  <2>1. CASE Exists(t.group, t.row.id)
    <3>1. t.group \in Groups
      BY <1>0, <1>3, SeenParts DEF SetLive, PollShape, Poll
    <3>2. rows[t.group] \in Row
      BY <1>0, <2>1, <3>1 DEF Exists
    <3>3. r \in Row /\ r.cursor = rows[t.group].cursor
      BY <3>2 DEF Row
    <3>4. rows' = [rows EXCEPT ![t.group] = r] /\ base' = base
      BY <1>3, <2>1 DEF SetLive
    <3> HIDE DEF r, t
    <3> QED
      BY <1>0, <3>1, <3>2, <3>3, <3>4
  <2> QED
    BY <1>1, <1>3, <2>1 DEF SetLive
<1>4. CASE MoveCursor
  <2>1. CASE Exists(poll.current.group, poll.current.row.id)
    <3>1. PICK h \in Groups : h = poll.current.group
      BY <1>0, <1>4, SeenParts DEF MoveCursor, PollShape, Poll
    <3>2. poll.current \in Seen
      BY <1>0, <1>4 DEF MoveCursor, PollShape, Poll
    <3>3. PICK k : k = Newest(poll.list)
      OBVIOUS
    <3>4. /\ k \in Cursors \ {None} /\ rows'[h] \in Row /\ rows'[h].cursor = k
          /\ poll.current.row.cursor = None => base'[h] = Later(base[h], k)
          /\ poll.current.row.cursor # None => base'[h] = base[h]
          /\ \A f \in Groups : f # h => rows'[f] = rows[f] /\ base'[f] = base[f]
      BY <1>4, <2>1, <3>1, <3>3, MoveCursorRow
    <3>5. CASE g = h
      <4>1. Moves(g)
        BY <1>0, <1>4, <2>1, <3>1, <3>2, <3>3, <3>4, <3>5 DEF Moves
      <4> QED
        BY <4>1
    <3> QED
      BY <3>4, <3>5
  <2> QED
    BY <1>1, <1>4, <2>1 DEF MoveCursor
<1>5. CASE \E u \in Savers : WriteRow(u)
  <2> PICK u \in Savers : WriteRow(u)
    BY <1>5
  <2>1. PICK h \in Groups, s \in Flags, b \in Cursors, found \in Row \union {None} :
            /\ h = saver[u].group /\ s = saver[u].set /\ b = saver[u].baseline /\ found = saver[u].found
            /\ saver[u].pc = "writing"
    BY DEF WriteRow, Types, Save
  <2>2. CASE rows[h] = None /\ Insert(h, s, b)
    <3>1. /\ rows'[h] \in Row /\ rows'[h].cursor = b /\ base'[h] = b
          /\ \A f \in Groups : f # h => rows'[f] = rows[f] /\ base'[f] = base[f]
      BY <2>2, InsertRow
    <3>2. g = h => Inserts(g)
      BY <1>0, <2>1, <2>2, <3>1 DEF Inserts
    <3> QED
      BY <3>1, <3>2
  <2>3. CASE found # None /\ Exists(h, found.id) /\ Update(h, found, s, b)
    <3>1. /\ rows'[h] \in Row
          /\ found.cursor # None => rows'[h].cursor = found.cursor /\ base'[h] = base[h]
          /\ found.cursor = None => rows'[h].cursor = b /\ base'[h] = Later(base[h], b)
          /\ \A f \in Groups : f # h => rows'[f] = rows[f] /\ base'[f] = base[f]
      BY <2>3, UpdateRow DEF Exists
    <3>2. g = h => Updates(g)
      BY <1>0, <2>1, <2>3, <3>1 DEF Updates
    <3> QED
      BY <3>1, <3>2
  <2> QED
    BY <1>1, <2>1, <2>2, <2>3 DEF WriteRow
<1>6. \/ UNCHANGED <<rows, base>> \/ MoveCursor \/ SetLive \/ (\E u \in Savers : WriteRow(u))
      \/ (\E h \in Groups : Unsubscribe(h))
  BY DEF Next, PollStep, vars, Publish, Switch, Withdraw, FetchBaseline, ReadAgain, BeginSave,
         StartPoll, ReadSubscriptions, FetchDynamics, NoTargetLeft, FetchLive, EndPoll, Mark,
         Retry, NextTarget, PushLive, NothingToPush, NextPost, Send, Restart
<1> QED
  BY <1>1, <1>2, <1>3, <1>4, <1>5, <1>6

\* As long as a row stays, it counts from where it did, or later.
LEMMA BaseStays ==
    ASSUME Types, PollShape, [Next]_vars, NEW g \in Groups,
           rows[g] # None, rows'[g] # None, base[g] # None
    PROVE  base'[g] # None /\ base[g] <= base'[g]
<1>0. base[g] \in Cursors /\ base[g] \in Nat
  BY CursorIsTime DEF Types
<1>1. CASE base'[g] = base[g]
  BY <1>0, <1>1
<1>2. ASSUME NEW k \in Cursors, base'[g] = Later(base[g], k)
      PROVE  base'[g] # None /\ base[g] <= base'[g]
  BY <1>0, <1>2, LaterIsCursor
<1>3. CASE Updates(g)
  <2>1. base'[g] = base[g] \/ \E k \in Cursors : base'[g] = Later(base[g], k)
    BY <1>3 DEF Updates
  <2> QED
    BY <1>1, <1>2, <2>1
<1>4. CASE Moves(g)
  <2>1. base'[g] = base[g] \/ \E k \in Cursors : base'[g] = Later(base[g], k)
    BY <1>4 DEF Moves
  <2> QED
    BY <1>1, <1>2, <2>1
<1> QED
  BY <1>1, <1>3, <1>4, CursorStep DEF Inserts

\* Posts come one at a time.
LEMMA PublishedStep ==
    ASSUME Types, [Next]_vars
    PROVE  /\ published \in Nat /\ published' \in Nat /\ published <= published'
           /\ Listed' \subseteq Listed \union {published + 1}
           /\ published + 1 \in Listed' => Publish
<1>0. published \in Nat
  BY BoundsAssumption DEF Types
<1>1. CASE Publish
  <2>1. published' = published + 1 /\ withdrawn' = withdrawn
    BY <1>1 DEF Publish
  <2> QED
    BY <1>0, <1>1, <2>1 DEF Listed
<1>2. CASE ~Publish
  <2>1. published' = published /\ withdrawn \subseteq withdrawn'
    BY <1>2 DEF Next, PollStep, vars, world, Switch, Restart, Withdraw, FetchBaseline, ReadAgain,
         WriteRow, BeginSave, Unsubscribe, StartPoll, ReadSubscriptions, FetchDynamics, NoTargetLeft,
         MoveCursor, FetchLive, SetLive, EndPoll, Mark, Retry, NextTarget, PushLive, NothingToPush,
         NextPost, Send
  <2> QED
    BY <1>0, <2>1 DEF Listed
<1> QED
  BY <1>1, <1>2

LEMMA PastStays ==
    ASSUME Types, [Next]_vars, NEW v, Past(v)
    PROVE  Past(v)'
BY PublishedStep DEF Past

\* A new post is later than a cursor, or of the same second as an older post.
LEMMA NewPost ==
    ASSUME Types, Types', [Next]_vars, NEW v \in Cursors, v # None, Past(v),
           NEW p \in Listed', p \notin Listed, First(p)
    PROVE  ~(TimeOf[p] <= v)
<1>1. p = published + 1 /\ p \in Posts /\ published \in Nat /\ v \in Nat
  BY PublishedStep, CursorIsTime, BoundsAssumption DEF Listed, Types, Posts
<1>2. TimeOf[p] \in Nat \ {0}
  BY <1>1, TimeAssumption
<1>3. CASE v = 0
  BY <1>2, <1>3
<1>4. CASE \E q \in 1..published : v <= TimeOf[q]
  <2>1. PICK q \in 1..published : v <= TimeOf[q]
    BY <1>4
  <2>2. q \in 1..(p - 1) /\ q \in Posts
    BY <1>1, BoundsAssumption DEF Posts
  <2>3. TimeOf[q] < TimeOf[p] /\ TimeOf[q] \in Nat
    BY <2>2, TimeAssumption DEF First
  <2> QED
    BY <1>1, <1>2, <2>1, <2>3
<1> QED
  BY <1>3, <1>4 DEF Past

\* A cursor that a row has had stays good for as long as the row.
LEMMA CursorStays ==
    ASSUME Types, Types', PollShape, SentInv, [Next]_vars, NEW g \in Groups,
           rows[g] # None, rows'[g] # None, NEW v \in Cursors, CursorOK(g, v)
    PROVE  CursorOK(g, v)'
<1>1. Past(v)'
  BY PastStays DEF CursorOK
<1>2. base'[g] = None => v = None
  BY BaseStays DEF CursorOK
<1>3. ASSUME base'[g] # None, v # None, NEW p \in Listed', base'[g] < TimeOf[p], TimeOf[p] <= v, First(p)
      PROVE  deliveries'[g][p] # None
  <2>1. base[g] # None /\ base[g] <= base'[g]
    BY <1>3, BaseStays DEF CursorOK
  <2>2. p \in Listed
    BY <1>3, NewPost DEF CursorOK
  <2>3. p \in Posts /\ p \in Contents /\ TimeOf[p] \in Nat
    BY <2>2, ListedArePosts, TimeAssumption DEF Contents
  <2>4. base[g] \in Nat /\ base'[g] \in Nat
    BY <1>3, <2>1, CursorIsTime DEF Types
  <2>5. base[g] < TimeOf[p]
    BY <1>3, <2>1, <2>3, <2>4
  <2>6. deliveries[g][p] # None
    BY <1>3, <2>1, <2>2, <2>5 DEF CursorOK, Covered
  <2> QED
    BY <2>3, <2>6, DeliveriesStay
<1> QED
  BY <1>1, <1>2, <1>3 DEF CursorOK, Covered

\* A row counts from a cursor that is no earlier than the one it is given.
LEMMA CountsFrom ==
    ASSUME Types', NEW g \in Groups, NEW v \in Cursors,
           v # None => base'[g] # None /\ v <= base'[g],
           base'[g] = None => v = None, Past(v)'
    PROVE  CursorOK(g, v)'
<1>1. ASSUME base'[g] # None, v # None, NEW p \in Listed', base'[g] < TimeOf[p], TimeOf[p] <= v
      PROVE  FALSE
  <2>1. p \in Posts
    BY BoundsAssumption DEF Types, Listed, Posts
  <2>2. TimeOf[p] \in Nat /\ v \in Nat /\ base'[g] \in Nat
    BY <1>1, <2>1, CursorIsTime, TimeAssumption DEF Types
  <2> QED
    BY <1>1, <2>2
<1> QED
  BY <1>1 DEF CursorOK, Covered

\* The posts of a target are done with: all that its new cursor covers have deliveries.
LEMMA MovedCursor ==
    ASSUME Types, Types', PollShape, SentInv, SkipInv, [Next]_vars, NEW g \in Groups, Moves(g)
    PROVE  \A v : v = rows'[g].cursor => CursorOK(g, v)'
<1> DEFINE t == poll.current
<1>1. PICK k \in Cursors \ {None} : k = Newest(poll.list)
  BY DEF Moves
<1>2. /\ MoveCursor /\ t \in Seen /\ t.group = g /\ Exists(g, t.row.id)
      /\ rows[g] # None /\ rows'[g] # None /\ rows'[g].cursor = k
      /\ t.row.cursor = None => base'[g] = Later(base[g], k)
      /\ t.row.cursor # None => base'[g] = base[g]
  BY <1>1 DEF Moves, Exists
<1>3. /\ poll.pc = "item" /\ poll.phase = "dynamic" /\ poll.todo = {} /\ Reading
      /\ UNCHANGED <<published, withdrawn, deliveries>>
  BY <1>2 DEF MoveCursor, Reading, world
<1>4. /\ poll.list # {} /\ poll.list \subseteq 1..published /\ poll.list \in SUBSET Posts
      /\ \A p \in Listed \ poll.list : \A q \in poll.list : q < p
  BY <1>3 DEF SkipInv, ListOK, Types, Poll
<1>5. PICK r \in poll.list : k = TimeOf[r]
  BY <1>1, <1>4, NewestIsLast
<1>6. Past(k) /\ Past(k)'
  <2>1. k \in Nat
    BY <1>1, CursorIsTime
  <2>2. Past(k)
    BY <1>4, <1>5, <2>1 DEF Past
  <2> QED
    BY <2>2, PastStays
<1>7. CASE t.row.cursor = None
  <2>1. base'[g] # None /\ k <= base'[g]
    BY <1>1, <1>2, <1>7, LaterIsCursor DEF Types
  <2>2. CursorOK(g, k)'
    BY <1>1, <1>6, <2>1, CountsFrom
  <2> QED
    BY <1>2, <2>2
<1>8. CASE t.row.cursor # None
  <2> DEFINE v == t.row.cursor
  <2>1. CursorOK(g, v) /\ v \in Nat
    <3>1. t \in SeenRows
      BY <1>2, NoneAssumption DEF SeenRows
    <3>2. t.row.cursor \in Cursors
      BY <1>2, SeenParts
    <3> QED
      BY <1>2, <1>8, <3>1, <3>2, CursorIsTime DEF SkipInv, Cursored
  <2>2. base[g] # None /\ base'[g] = base[g]
    BY <1>2, <1>8, <2>1 DEF CursorOK
  <2>3. ASSUME NEW p \in Listed, base[g] < TimeOf[p], TimeOf[p] <= k, First(p)
        PROVE  deliveries[g][p] # None
    <3>1. p \in Posts /\ TimeOf[p] \in Nat /\ k \in Nat
      BY <1>1, CursorIsTime, ListedArePosts, TimeAssumption
    <3>2. CASE TimeOf[p] <= v
      BY <1>8, <2>1, <2>2, <2>3, <3>2 DEF CursorOK, Covered
    <3>3. CASE TimeOf[p] > v /\ p \in poll.list
      <4>1. p \in Candidates(poll.current, poll.list) \ poll.todo
        BY <1>3, <1>8, <3>3 DEF Candidates
      <4> QED
        BY <1>2, <1>3, <4>1 DEF SkipInv, DoneOK
    <3>4. CASE p \notin poll.list
      <4>1. r < p /\ r \in Nat /\ p \in Nat /\ r # 0
        BY <1>4, <2>3, <3>1, <3>4 DEF Posts
      <4>2. r \in 1..(p - 1) /\ TimeOf[r] \in Nat
        BY <1>4, <3>1, <4>1, TimeAssumption DEF Posts
      <4>3. TimeOf[r] < TimeOf[p]
        BY <2>3, <4>2 DEF First
      <4> QED
        BY <1>5, <2>3, <3>1, <4>2, <4>3
    <3> QED
      BY <2>1, <3>1, <3>2, <3>3, <3>4
  <2>4. CursorOK(g, k)'
    BY <1>3, <1>6, <2>2, <2>3 DEF CursorOK, Covered, Listed
  <2> QED
    BY <1>2, <2>4
<1> QED
  BY <1>7, <1>8

\* What a save knows, and from where.
LEMMA SaverStep ==
    ASSUME Types, [Next]_vars, NEW u \in Savers
    PROVE  \/ saver'[u] = saver[u]
           \/ saver'[u].pc = "idle"
           \/ /\ saver'[u].pc # "writing"
              /\ LET b == saver'[u].baseline
                 IN  \/ b = None \/ b = 0 \/ (\E p \in Listed : b = TimeOf[p])
                     \/ \E g \in Groups : rows[g] # None /\ b = rows[g].cursor
           \/ /\ saver[u].pc # "idle" /\ saver'[u].baseline = saver[u].baseline
              /\ saver'[u].group = saver[u].group /\ saver'[u].found = rows[saver[u].group]
<1>0. saver \in [Savers -> Save]
  BY DEF Types
<1>1. CASE saver' = saver
  BY <1>1
<1>2. CASE Restart
  BY <1>2 DEF Restart, NoSave
<1>3. ASSUME NEW v \in Savers, WriteRow(v)
      PROVE  saver'[u] = saver[u] \/ saver'[u].pc = "idle"
  <2>1. saver' = [saver EXCEPT ![v] = NoSave] /\ NoSave.pc = "idle"
    BY <1>3 DEF WriteRow, NoSave
  <2> QED
    BY <1>0, <2>1
<1>4. ASSUME NEW v \in Savers, ReadAgain(v)
      PROVE  \/ saver'[u] = saver[u]
             \/ /\ saver[u].pc # "idle" /\ saver'[u].baseline = saver[u].baseline
                /\ saver'[u].group = saver[u].group /\ saver'[u].found = rows[saver[u].group]
  <2> DEFINE f == [saver[v] EXCEPT !.pc = "writing", !.found = rows[saver[v].group]]
  <2>1. saver' = [saver EXCEPT ![v] = f] /\ saver[v].pc = "reading"
    BY <1>0, <1>4 DEF ReadAgain, Save
  <2>2. f.baseline = saver[v].baseline /\ f.group = saver[v].group /\ f.found = rows[saver[v].group]
    BY <1>0 DEF Save
  <2> HIDE DEF f
  <2> QED
    BY <1>0, <2>1, <2>2
<1>5. ASSUME NEW v \in Savers, FetchBaseline(v)
      PROVE  \/ saver'[u] = saver[u]
             \/ /\ saver'[u].pc # "writing"
                /\ LET b == saver'[u].baseline IN b = None \/ b = 0 \/ \E p \in Listed : b = TimeOf[p]
  <2>1. PICK b \in {None, IF Listed = {} THEN 0 ELSE Newest(Listed)} :
            saver' = [saver EXCEPT ![v].pc = "reading", ![v].baseline = b]
    BY <1>5 DEF FetchBaseline
  <2>2. b = None \/ b = 0 \/ \E p \in Listed : b = TimeOf[p]
    BY ListedArePosts, NewestIsLast
  <2> DEFINE f == [saver[v] EXCEPT !.pc = "reading", !.baseline = b]
  <2>3. saver' = [saver EXCEPT ![v] = f]
    BY <1>0, <2>1 DEF Save
  <2>4. f.pc = "reading" /\ f.baseline = b
    BY <1>0 DEF Save
  <2> HIDE DEF f
  <2> QED
    BY <1>0, <2>2, <2>3, <2>4
<1>6. ASSUME NEW v \in Savers, NEW h \in Groups, NEW s \in Settings, BeginSave(v, h, s)
      PROVE  \/ saver'[u] = saver[u]
             \/ /\ saver'[u].pc # "writing"
                /\ LET b == saver'[u].baseline
                   IN  b = None \/ \E g \in Groups : rows[g] # None /\ b = rows[g].cursor
  <2> DEFINE b == IF rows[h] = None THEN None ELSE rows[h].cursor
             pc == IF rows[h] = None /\ s.dynamic THEN "baseline" ELSE "reading"
             f == [NoSave EXCEPT !.pc = pc, !.group = h, !.set = s, !.baseline = b]
  <2>1. saver' = [saver EXCEPT ![v] = f]
    BY <1>6 DEF BeginSave
  <2>2. f.pc # "writing" /\ f.baseline = b
    BY DEF NoSave
  <2>3. b = None \/ \E g \in Groups : rows[g] # None /\ b = rows[g].cursor
    OBVIOUS
  <2> HIDE DEF f, b
  <2> QED
    BY <1>0, <2>1, <2>2, <2>3
<1>7. \/ saver' = saver \/ Restart
      \/ \E v \in Savers : \/ FetchBaseline(v) \/ ReadAgain(v) \/ WriteRow(v)
                           \/ \E h \in Groups, s \in Settings : BeginSave(v, h, s)
  BY DEF Next, PollStep, vars, Publish, Switch, Withdraw, Unsubscribe, StartPoll, ReadSubscriptions,
         FetchDynamics, NoTargetLeft, MoveCursor, FetchLive, SetLive, EndPoll, Mark, Retry, NextTarget,
         PushLive, NothingToPush, NextPost, Send
<1> QED
  BY <1>1, <1>2, <1>3, <1>4, <1>5, <1>6, <1>7

LEMMA CursoredKept ==
    ASSUME Types, Types', PollShape, Fresh, SentInv, SkipInv, [Next]_vars
    PROVE  Cursored'
<1>0. /\ \A g \in Groups : rows[g] # None => CursorOK(g, rows[g].cursor) /\ rows[g].cursor \in Cursors
      /\ \A g \in Groups : rows[g] = None => base[g] = None
      /\ \A u \in Savers : saver[u].pc # "idle" => Past(saver[u].baseline)
  BY RowParts DEF SkipInv, Cursored
<1>1. ASSUME NEW g \in Groups, rows'[g] # None, NEW v, v = rows'[g].cursor
      PROVE  CursorOK(g, v)'
  <2>1. v \in Cursors
    BY <1>1 DEF Types, Row
  <2>2. CASE rows[g] # None /\ v = rows[g].cursor
    BY <1>0, <1>1, <2>1, <2>2, CursorStays
  <2>3. CASE Inserts(g)
    <3>1. PICK u \in Savers : saver[u].pc = "writing" /\ v = saver[u].baseline /\ base'[g] = v
      BY <1>1, <2>3 DEF Inserts
    <3>2. Past(v)
      BY <1>0, <3>1
    <3>3. Past(v)'
      BY <3>2, PastStays
    <3>4. v # None => base'[g] # None /\ v <= base'[g]
      BY <2>1, <3>1, CursorIsTime
    <3> QED
      BY <2>1, <3>1, <3>3, <3>4, CountsFrom
  <2>4. CASE Updates(g)
    <3>1. PICK u \in Savers, found \in Row, b \in Cursors :
            /\ found = saver[u].found /\ b = saver[u].baseline
            /\ saver[u].pc = "writing" /\ saver[u].group = g
            /\ Exists(g, found.id)
            /\ found.cursor # None => v = found.cursor /\ base'[g] = base[g]
            /\ found.cursor = None => v = b /\ base'[g] = Later(base[g], b)
      BY <1>1, <2>4 DEF Updates
    <3>2. CASE found.cursor # None
      <4>1. found # None
        BY NoneAssumption
      <4>2. CursorOK(g, v)
        BY <3>1, <3>2, <4>1 DEF SkipInv, Cursored
      <4>3. rows[g] # None
        BY <3>1 DEF Exists
      <4> QED
        BY <1>1, <2>1, <4>2, <4>3, CursorStays
    <3>3. CASE found.cursor = None
      <4>1. v = b /\ base'[g] = Later(base[g], v) /\ base[g] \in Cursors
        BY <3>1, <3>3 DEF Types
      <4>2. /\ v # None => base'[g] # None /\ v <= base'[g]
            /\ base'[g] = None => v = None
        BY <2>1, <4>1, LaterIsCursor
      <4>3. Past(v)
        BY <1>0, <3>1, <4>1
      <4>4. Past(v)'
        BY <4>3, PastStays
      <4> QED
        BY <2>1, <4>2, <4>4, CountsFrom
    <3> QED
      BY <3>2, <3>3
  <2>5. CASE Moves(g)
    BY <1>1, <2>5, MovedCursor
  <2> QED
    BY <1>1, <2>2, <2>3, <2>4, <2>5, CursorStep
<1>2. ASSUME NEW g \in Groups, rows'[g] = None PROVE base'[g] = None
  BY <1>0, <1>2, CursorStep DEF Inserts, Updates, Moves
<1>3. ASSUME NEW t \in SeenRows', Exists(t.group, t.row.id)'
      PROVE  CursorOK(t.group, t.row.cursor)'
  <2>1. t \in Seen /\ t.group \in Groups /\ t.row.cursor \in Cursors
    <3>1. t \in Seen
      BY DEF Types, Poll, SeenRows
    <3> QED
      BY <3>1, SeenParts
  <2>2. t \in SeenRows \/ (rows[t.group] # None /\ t.row = rows[t.group])
    <3>1. CASE PollStep
      BY <3>1, PollReads
    <3>2. CASE poll' = poll
      BY <3>2 DEF SeenRows
    <3>3. CASE poll' = NoPoll
      <4>1. poll'.targets = {} /\ poll'.left = {} /\ poll'.current = None
        BY <3>3 DEF NoPoll
      <4> QED
        BY <1>3, <4>1 DEF SeenRows
    <3> QED
      BY <3>1, <3>2, <3>3, OthersLeavePoll
  <2>3. rows[t.group] # None /\ CursorOK(t.group, t.row.cursor)
    <3>1. CASE t \in SeenRows
      <4>1. Exists(t.group, t.row.id)
        BY <1>3, <3>1, KnownRows
      <4> QED
        BY <3>1, <4>1 DEF SkipInv, Cursored, Exists
    <3>2. CASE rows[t.group] # None /\ t.row = rows[t.group]
      BY <1>0, <2>1, <3>2
    <3> QED
      BY <2>2, <3>1, <3>2
  <2>4. rows'[t.group] # None
    BY <1>3 DEF Exists
  <2> QED
    BY <2>1, <2>3, <2>4, CursorStays
<1>4. ASSUME NEW u \in Savers, saver'[u].pc = "writing", NEW found \in Row, found = saver'[u].found,
             NEW g \in Groups, g = saver'[u].group, Exists(g, found.id)'
      PROVE  CursorOK(g, found.cursor)'
  <2>1. found.cursor \in Cursors /\ found.id \in Nat /\ found # None /\ rows'[g] # None
    BY <1>4, BoundsAssumption, NoneAssumption DEF Row, Exists
  <2>2. rows[g] # None /\ CursorOK(g, found.cursor)
    <3>1. CASE saver'[u] = saver[u]
      <4>1. found.id > budget.rows[g]
        BY <1>4, <2>1, <3>1 DEF Fresh
      <4>2. Exists(g, found.id)
        BY <1>4, <2>1, <4>1, NoRevival
      <4> QED
        BY <1>4, <2>1, <3>1, <4>2 DEF SkipInv, Cursored, Exists
    <3>2. CASE saver'[u].group = saver[u].group /\ saver'[u].found = rows[saver[u].group]
      BY <1>0, <1>4, <2>1, <3>2
    <3> QED
      BY <1>4, <3>1, <3>2, SaverStep
  <2> QED
    BY <2>1, <2>2, CursorStays
<1>5. ASSUME NEW u \in Savers, saver'[u].pc # "idle", NEW b, b = saver'[u].baseline
      PROVE  Past(b)'
  <2>1. Past(b)
    <3>1. CASE saver'[u] = saver[u]
      BY <1>0, <1>5, <3>1
    <3>2. CASE saver[u].pc # "idle" /\ saver'[u].baseline = saver[u].baseline
      BY <1>0, <1>5, <3>2
    <3>3. CASE b = None \/ b = 0
      BY <3>3 DEF Past
    <3>4. CASE \E p \in Listed : b = TimeOf[p]
      <4>1. PICK p \in 1..published : p \in Posts /\ b = TimeOf[p]
        BY <3>4, ListedArePosts
      <4>2. TimeOf[p] \in Nat
        BY <4>1, TimeAssumption
      <4> QED
        BY <4>1, <4>2 DEF Past
    <3>5. CASE \E g \in Groups : rows[g] # None /\ b = rows[g].cursor
      BY <1>0, <3>5 DEF CursorOK
    <3> QED
      BY <1>5, <3>1, <3>2, <3>3, <3>4, <3>5, SaverStep
  <2> QED
    BY <2>1, PastStays
<1>6. \A u \in Savers : saver'[u].pc = "writing" /\ saver'[u].found # None =>
            saver'[u].found \in Row /\ saver'[u].group \in Groups
  BY DEF Types, Save
<1>7. \A g \in Groups : rows'[g] # None => CursorOK(g, rows[g].cursor)'
  BY <1>1 DEF CursorOK, Covered, Past
<1>8. \A u \in Savers :
            saver'[u].pc = "writing" /\ saver'[u].found # None
                /\ Exists(saver[u].group, saver[u].found.id)'
            => CursorOK(saver[u].group, saver[u].found.cursor)'
  BY <1>4, <1>6 DEF CursorOK, Covered, Past, Exists
<1>9. \A u \in Savers : saver'[u].pc # "idle" => Past(saver[u].baseline)'
  BY <1>5 DEF Past
<1> QED
  BY <1>2, <1>3, <1>7, <1>8, <1>9 DEF Cursored

\* How a poll reads posts: a list is fetched, and of one target after the other the posts
\* that it lists are done.
LEMMA ReadStep ==
    ASSUME Types, PollShape, PollStep, Reading'
    PROVE  \/ /\ poll'.list = Listed /\ Listed # {} /\ poll'.pc = "target"
           \/ /\ Reading /\ poll'.list = poll.list
              /\ \/ poll'.pc = "target"
                 \/ /\ poll.pc # "target" /\ poll'.current = poll.current /\ poll'.todo = poll.todo
                 \/ poll'.todo = Candidates(poll'.current, poll'.list)
                 \/ /\ poll.pc = "item" /\ poll'.current = poll.current
                    /\ \E p \in poll.todo : /\ QueueAndSend(poll.current, p)
                                            /\ poll'.todo = poll.todo \ {p}
<1>0. poll \in Poll
  BY DEF Types
<1>1. poll' # NoPoll /\ poll' # GoLive /\ poll'.phase = "dynamic"
  <2>1. NoPoll.phase = "retry"
    BY DEF NoPoll
  <2>2. GoLive.phase = "live"
    BY <1>0 DEF GoLive, Poll
  <2> QED
    BY <2>1, <2>2 DEF Reading
<1>2. ~StartPoll
  BY <1>1 DEF StartPoll, NoPoll
<1>3. ~ReadSubscriptions
  <2>1. ReadSubscriptions => poll'.pc = "fetch"
    BY <1>0 DEF ReadSubscriptions, Poll
  <2> QED
    BY <2>1 DEF Reading
<1>4. CASE FetchDynamics
  <2>1. PICK W : poll' = [poll EXCEPT !.pc = "target", !.left = W, !.list = Listed] /\ Listed # {}
    BY <1>1, <1>4 DEF FetchDynamics
  <2> QED
    BY <1>0, <2>1 DEF Poll
<1>5. CASE MoveCursor
  BY <1>0, <1>5 DEF MoveCursor, Poll, Reading
<1>6. CASE FetchLive
  <2>1. PICK W : poll' = [poll EXCEPT !.pc = "target", !.targets = {}, !.left = W, !.session = live]
    BY <1>1, <1>6 DEF FetchLive
  <2> QED
    BY <1>0, <1>1, <1>6, <2>1 DEF FetchLive, Poll
<1>7. ~SetLive
  BY <1>0, <1>1 DEF SetLive, Poll, PollShape
<1>8. CASE Mark
  <2>1. poll.phase = "dynamic" /\ poll.pc = "marking" /\ poll'.list = poll.list
        /\ poll'.current = poll.current /\ poll'.todo = poll.todo
    BY <1>0, <1>1, <1>8 DEF Mark, Poll
  <2> QED
    BY <2>1 DEF Reading
<1>9. CASE \E ok \in BOOLEAN : Send(ok)
  <2>1. poll.phase = "dynamic" /\ poll.pc = "sending" /\ poll'.list = poll.list
        /\ poll'.current = poll.current /\ poll'.todo = poll.todo
    BY <1>0, <1>1, <1>9 DEF Send, Poll
  <2> QED
    BY <2>1 DEF Reading
<1>10. ~\E i \in poll.queue : Retry(i)
  <2>1. (\E i \in poll.queue : Retry(i)) => poll'.phase = poll.phase /\ poll.phase = "retry"
    BY <1>0 DEF Retry, Poll, PollShape
  <2> QED
    BY <1>1, <2>1
<1>11. CASE \E t \in poll.left : NextTarget(t)
  <2>1. PICK t \in poll.left : NextTarget(t)
    BY <1>11
  <2>2. poll.phase = "dynamic" /\ poll.pc = "target" /\ poll'.list = poll.list
        /\ poll'.current = t /\ poll'.todo = Candidates(t, poll.list)
    BY <1>0, <2>1 DEF NextTarget, Poll
  <2>3. poll'.todo = Candidates(poll'.current, poll'.list)
    BY <2>2
  <2> QED
    BY <2>2, <2>3 DEF Reading
<1>12. ~\E t \in poll.left : PushLive(t) \/ NothingToPush(t)
  <2> SUFFICES ASSUME NEW t \in poll.left, PushLive(t) \/ NothingToPush(t) PROVE FALSE
    OBVIOUS
  <2>1. \/ poll' = NoPoll
        \/ \E i : poll' = [poll EXCEPT !.pc = "sending", !.current = t, !.left = @ \ {t}, !.item = i]
        \/ poll' = [poll EXCEPT !.pc = "state", !.current = t, !.left = @ \ {t}]
    BY DEF PushLive, NothingToPush
  <2>2. poll.phase = "live"
    BY DEF PushLive, NothingToPush
  <2> QED
    BY <1>0, <1>1, <2>1, <2>2 DEF Poll
<1>13. CASE \E p \in poll.todo : NextPost(p)
  <2>1. PICK p \in poll.todo : NextPost(p)
    BY <1>13
  <2>2. QueueAndSend(poll.current, p) /\ poll.pc = "item" /\ poll.phase = "dynamic"
    BY <1>1, <2>1 DEF NextPost
  <2>3. PICK pc, i : poll' = [poll EXCEPT !.todo = @ \ {p}, !.pc = pc, !.item = i]
    BY <2>2 DEF QueueAndSend
  <2>4. poll'.list = poll.list /\ poll'.current = poll.current /\ poll'.todo = poll.todo \ {p}
    BY <1>0, <2>3 DEF Poll
  <2> QED
    BY <2>2, <2>4 DEF Reading
<1> QED
  BY <1>1, <1>2, <1>3, <1>4, <1>5, <1>6, <1>7, <1>8, <1>9, <1>10, <1>11, <1>12, <1>13
     DEF PollStep, NoTargetLeft, EndPoll

LEMMA ListKept ==
    ASSUME Types, PollShape, SkipInv, [Next]_vars
    PROVE  ListOK'
<1> SUFFICES ASSUME Reading'
             PROVE  /\ poll'.list # {} /\ poll'.list \subseteq 1..published'
                    /\ \A p \in Listed' \ poll'.list : \A q \in poll'.list : q < p
  BY DEF ListOK
<1>1. CASE poll'.list = Listed /\ Listed # {} /\ PollStep
  <2>1. Listed' = Listed /\ published' = published
    BY <1>1 DEF PollStep, world, Listed, StartPoll, ReadSubscriptions, FetchDynamics, NoTargetLeft,
         MoveCursor, FetchLive, SetLive, EndPoll, Mark, Retry, NextTarget, PushLive, NothingToPush,
         NextPost, Send
  <2> QED
    BY <1>1, <2>1 DEF Listed
<1>2. CASE Reading /\ poll'.list = poll.list
  <2>1. /\ poll.list # {} /\ poll.list \subseteq 1..published
        /\ \A p \in Listed \ poll.list : \A q \in poll.list : q < p
    BY <1>2 DEF SkipInv, ListOK
  <2>2. published \in Nat /\ published' \in Nat /\ published <= published'
        /\ Listed' \subseteq Listed \union {published + 1}
    BY PublishedStep
  <2>3. \A q \in poll.list : q < published + 1
    BY <2>1, <2>2
  <2>4. \A p \in Listed' \ poll.list : \A q \in poll.list : q < p
    BY <2>1, <2>2, <2>3
  <2> QED
    BY <1>2, <2>1, <2>2, <2>4
<1>3. CASE PollStep
  BY <1>1, <1>2, <1>3, ReadStep
<1>4. CASE ~PollStep
  <2>1. NoPoll.phase = "retry"
    BY DEF NoPoll
  <2>2. poll' = poll
    BY <1>4, <2>1, OthersLeavePoll DEF Reading
  <2> QED
    BY <1>2, <2>2 DEF Reading
<1> QED
  BY <1>3, <1>4

LEMMA DoneKept ==
    ASSUME Types, Types', PollShape, Fresh, SentInv, SkipInv, [Next]_vars
    PROVE  DoneOK'
<1> SUFFICES ASSUME Reading', poll'.pc # "target", NEW t, t = poll'.current,
                    Exists(t.group, t.row.id)',
                    NEW p \in Candidates(t, poll'.list), p \notin poll'.todo
             PROVE  deliveries'[t.group][p] # None
  BY DEF DoneOK, Candidates, Exists
<1>0. poll.current # None => poll.current \in SeenRows /\ poll.current \in Seen
  BY DEF SeenRows, Types, Poll
<1>1. p \in Contents /\ rows'[t.group] # None
  <2>1. p \in poll'.list
    BY DEF Candidates
  <2> QED
    BY <2>1 DEF Types, Poll, Contents, Exists
<1>2. CASE /\ Reading /\ poll.pc # "target" /\ poll'.list = poll.list /\ poll'.current = poll.current
           /\ p \notin poll.todo
  <2>1. t \in SeenRows /\ t \in Seen
    BY <1>0, <1>2 DEF Reading, PollShape, Busy
  <2>2. t.group \in Groups /\ Exists(t.group, t.row.id)
    BY <2>1, KnownRows, SeenParts
  <2>3. deliveries[t.group][p] # None
    BY <1>2, <2>2 DEF SkipInv, DoneOK
  <2> QED
    BY <1>1, <2>2, <2>3, DeliveriesStay
<1>3. CASE PollStep
  <2>1. CASE /\ Reading /\ poll'.list = poll.list /\ poll.pc = "item" /\ poll'.current = poll.current
             /\ \E q \in poll.todo : /\ QueueAndSend(poll.current, q)
                                     /\ poll'.todo = poll.todo \ {q}
    <3>1. PICK q \in poll.todo : QueueAndSend(poll.current, q) /\ poll'.todo = poll.todo \ {q}
      BY <2>1
    <3>2. CASE p = q
      <4>1. deliveries' = Queued(t.group, p)
        BY <2>1, <3>1, <3>2 DEF QueueAndSend
      <4>2. t.group \in Groups
        BY <1>0, <2>1, SeenParts DEF PollShape
      <4>3. Queued(t.group, p)[t.group][p] # None
        BY <1>1, <4>2, QueuedTypes
      <4> QED
        BY <4>1, <4>3
    <3>3. CASE p # q
      BY <1>2, <2>1, <3>1, <3>3
    <3> QED
      BY <3>2, <3>3
  <2>2. p \notin Candidates(poll'.current, poll'.list) => FALSE
    OBVIOUS
  <2> QED
    BY <1>2, <1>3, <2>1, <2>2, ReadStep
<1>4. CASE ~PollStep
  <2>1. NoPoll.phase = "retry"
    BY DEF NoPoll
  <2>2. poll' = poll
    BY <1>4, <2>1, OthersLeavePoll DEF Reading
  <2> QED
    BY <1>2, <2>2 DEF Reading
<1> QED
  BY <1>3, <1>4

------------------------------------------------------------------------------
(* The theorems *)

LEMMA InitHolds == Init => IInv
<1> SUFFICES ASSUME Init PROVE IInv
  OBVIOUS
<1>1. /\ rows = [g \in Groups |-> None]
      /\ deliveries = [g \in Groups |-> [c \in Contents |-> None]]
      /\ poll = NoPoll /\ saver = [u \in Savers |-> NoSave]
      /\ published = 0 /\ withdrawn = {} /\ live = 0
      /\ base = [g \in Groups |-> None]
      /\ sent = [g \in Groups |-> [c \in Contents |-> 0]]
      /\ pushed = [c \in Pushes |-> None]
  BY DEF Init
<1>2. PICK b \in Budgets : budget = [b EXCEPT !.rows = [g \in Groups |-> b.rows]]
  BY DEF Init
<1>3. budget \in Left /\ budget.posts <= MaxPosts
  <2>1. b \in [posts : 0..MaxPosts, withdrawals : Nat, sessions : Nat,
               rows : 0..MaxRows, saves : Nat, restarts : Nat]
    BY BudgetsAssumption
  <2>2. b.rows \in 0..MaxRows /\ b.posts \in 0..MaxPosts /\ b.posts \in Nat /\ b.posts <= MaxPosts
    BY <2>1, BoundsAssumption
  <2> DEFINE f == [g \in Groups |-> b.rows]
  <2>3. f \in [Groups -> 0..MaxRows]
    BY <2>2
  <2> HIDE DEF f
  <2> QED
    BY <1>2, <2>1, <2>2, <2>3 DEF Left
<1>4. NoSave \in Save /\ NoSave.pc = "idle"
  BY DEF NoSave, Save, Cursors
<1>5. /\ NoPoll.pc = "idle" /\ NoPoll.phase = "retry" /\ NoPoll.queue = {} /\ NoPoll.targets = {}
      /\ NoPoll.left = {} /\ NoPoll.current = None /\ NoPoll.list = {} /\ NoPoll.session = 0
      /\ NoPoll.todo = {} /\ NoPoll.item = None
  BY DEF NoPoll
<1>6. Types
  <2>1. rows \in [Groups -> Row \union {None}] /\ pushed \in [Pushes -> Push \union {None}]
    BY <1>1
  <2>2. deliveries \in [Groups -> [Contents -> Delivery \union {None}]]
    BY <1>1
  <2>3. base \in [Groups -> Cursors] /\ sent \in [Groups -> [Contents -> 0..2]]
    BY <1>1 DEF Cursors
  <2>4. /\ saver \in [Savers -> Save]
        /\ \A u \in Savers : saver[u].pc # "idle" => saver[u].group \in Groups /\ saver[u].set \in Flags
    BY <1>1, <1>4
  <2>5. /\ published \in 0..MaxPosts /\ withdrawn \subseteq 1..published /\ live \in Nat
        /\ published + budget.posts <= MaxPosts
    BY <1>1, <1>3, BoundsAssumption DEF Left
  <2> QED
    BY <1>1, <1>3, <2>1, <2>2, <2>3, <2>4, <2>5, NoPollTypes DEF Types
<1>7. PollShape
  BY <1>1, <1>5 DEF PollShape, Busy
<1>8. SeenRows = {}
  BY <1>1, <1>5 DEF SeenRows
<1>9. Fresh
  BY <1>1, <1>4, <1>5, <1>8 DEF Fresh
<1>10. SentInv
  <2>1. \A g \in Groups, c \in Contents : deliveries[g][c] = None /\ sent[g][c] = 0
    BY <1>1
  <2>2. Pushes \subseteq Contents
    BY DEF Contents
  <2> QED
    BY <1>1, <1>5, <2>1, <2>2 DEF SentInv, Recorded, NothingTwice, Busy
<1>11. OnceInv
  BY <1>1, <1>5 DEF OnceInv, Sessions, OneRowEach, Remembered, Untold, OncePerSession, Looking
<1>12. SkipInv
  BY <1>1, <1>4, <1>5, <1>8 DEF SkipInv, Cursored, ListOK, DoneOK, Reading
<1> QED
  BY <1>6, <1>7, <1>9, <1>10, <1>11, <1>12 DEF IInv

\* The invariant that carries the rest: whatever a user, the creator, a poll or a restart
\* does next, what was read and recorded still fits together.
THEOREM WatchInductive == Spec => []IInv
<1>1. IInv /\ [Next]_vars => IInv'
  <2> SUFFICES ASSUME IInv, [Next]_vars PROVE IInv'
    OBVIOUS
  <2> USE DEF IInv
  <2>1. Types' /\ PollShape'
    BY TypesKept
  <2>2. Fresh'
    BY <2>1, FreshKept
  <2>3. SentInv'
    BY SentKept
  <2>4. OnceInv'
    BY <2>1, OnceKept
  <2>5. SkipInv'
    BY <2>1, CursoredKept, ListKept, DoneKept DEF SkipInv
  <2> QED
    BY <2>1, <2>2, <2>3, <2>4, <2>5
<1> QED
  BY InitHolds, <1>1, PTL DEF Spec

\* TypeOK holds throughout: also, no delivery is left of a subscription that was deleted,
\* whatever a poll that began before does with it.
THEOREM WatchTypes == Spec => []TypeOK
<1>1. IInv => TypeOK
  <2> SUFFICES ASSUME IInv PROVE TypeOK
    OBVIOUS
  <2>1. Types /\ SentInv /\ PollShape
    BY DEF IInv
  <2>2. \A u \in Savers : saver[u].pc \in {"idle", "baseline", "reading", "writing"}
    BY <2>1 DEF Types, Save
  <2>3. \A g \in Groups : \A c \in Contents :
            /\ deliveries[g][c] \in Delivery \union {None}
            /\ rows[g] = None => deliveries[g][c] = None
    BY <2>1 DEF Types, SentInv
  <2>4. /\ poll.pc \in {"idle", "next", "fetch", "target", "item", "sending", "marking", "state"}
        /\ poll.phase \in {"retry", "dynamic", "live"}
        /\ poll.queue \subseteq Item
        /\ poll.targets \subseteq Seen /\ poll.left \subseteq Seen
        /\ poll.current \in Seen \union {None}
        /\ poll.list \subseteq Posts /\ poll.todo \subseteq poll.list
        /\ poll.item \in Item \union {None}
    BY <2>1 DEF Types, Poll, PollShape
  <2> QED
    BY <2>1, <2>2, <2>3, <2>4 DEF TypeOK, Types
<1> QED
  BY <1>1, WatchInductive, PTL

\* NothingTwice holds throughout: the bot's confirmation of a post or an announcement is
\* recorded before the same can be due again, unless a restart comes between.
THEOREM WatchNothingTwice == Spec => []NothingTwice
<1>1. IInv => NothingTwice
  BY DEF IInv, SentInv
<1> QED
  BY <1>1, WatchInductive, PTL

\* OncePerSession holds throughout: a session is announced once to a subscription, however
\* often it is polled and saved while the creator is live, unless a restart comes between.
THEOREM WatchOncePerSession == Spec => []OncePerSession
<1>1. IInv => OncePerSession
  BY DEF IInv, OnceInv
<1> QED
  BY <1>1, WatchInductive, PTL

\* NothingSkipped holds throughout: neither a save that writes back the cursor it read, nor
\* a poll that moves it on from what it read, passes over a post that has no delivery.
THEOREM WatchNothingSkipped == Spec => []NothingSkipped
<1>1. IInv => NothingSkipped
  BY DEF IInv, SkipInv, Cursored, CursorOK, Covered, First, NothingSkipped
<1> QED
  BY <1>1, WatchInductive, PTL

==============================================================================
