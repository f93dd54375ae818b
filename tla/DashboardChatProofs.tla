------------------------- MODULE DashboardChatProofs -------------------------
(***************************************************************************)
(* ActiveIsListed, SendingMeansAsked, StoredIsSeen and ShownMatchesServer   *)
(* for any number of views, calls under way and actions of the user.        *)
(*                                                                         *)
(* The argument: a handler that goes on after its await finds the view it   *)
(* belongs to, and an id that is fresh is in no list, for every id that is  *)
(* listed, stored or asked about has been created.  As long as no page is   *)
(* left with a call under way, all calls are those of the page that is      *)
(* shown.  And as long as nothing is disturbed, at most one call can change *)
(* the messages that are shown or those the server has of the active        *)
(* conversation, and what the two differ by, calls and results of tools     *)
(* apart, is what that call is about to add: the answer here, the turn on    *)
(* the server.                                                             *)
(***************************************************************************)
EXTENDS DashboardChat, LineLemmas, FiniteSetTheorems, TLAPS

Titles == {"new", "given", "auto"}
Messages == {"user", "assistant", "tools", "worked"} \X Nat
ViewSet ==
    [list : Seq(Ids), title : [Ids -> Titles], active : Ids, messages : Seq(Messages),
     sending : BOOLEAN, renaming : Ids \union {None}]
Items == [id : Ids, title : Titles]
StoredSet == [is : {"list"}, active : Ids, list : Seq(Items)]
CallSet ==
    [view : Nat, op : {"idle", "history", "replacement", "send", "remove"}, id : Ids \union {None},
     text : Nat, answer : {"none", "sent", "answer", "failure"}, value : Seq(Messages)]

\* Everything has its type.
Types ==
    /\ stored.is \in {"nothing", "legacy", "list"}
    /\ stored.is = "list" => stored \in StoredSet
    /\ views \in Seq(ViewSet)
    /\ mounted \in 0..Opened
    /\ calls \in [Slots -> CallSet]
    /\ history \in [Ids -> Seq(Messages)]
    /\ created \in Nat
    /\ budget \in [acts : Nat, views : Nat, troubles : Nat]
    /\ disturbed \in BOOLEAN /\ abandoned \in BOOLEAN

\* A conversation is created by a visit or an action, or by a removal under way,
\* which was an action: there is always an id for the next one.
Removals == {n \in Running : calls[n].op = "remove"}
Bounded == created + budget.views + budget.acts + Cardinality(Removals) <= MaxViews + MaxActs

\* A list has conversations, each once, that have been created.
GoodList(list, top) ==
    /\ list # <<>>
    /\ \A j, k \in DOMAIN list : j # k => list[j] # list[k]
    /\ \A k \in DOMAIN list : list[k] <= top
GoodView(v, top) ==
    /\ GoodList(v.list, top)
    /\ \E k \in DOMAIN v.list : v.list[k] = v.active
IdsOf(list) == [k \in DOMAIN list |-> list[k].id]

Lists ==
    /\ \A i \in 1..Opened : GoodView(views[i], created)
    /\ stored.is = "list" => GoodList(IdsOf(stored.list), created)

\* A call is one of a view there has been and about a conversation there has been;
\* of a page that was loaded again only what the server may still do is left.
GoodCall(call, opened, top) ==
    /\ call.view \in 0..opened
    /\ call.id \in 1..top
    /\ call.view = 0 => call.answer = "sent" /\ call.op \in {"send", "remove"}
    /\ call.answer # "none"
Asked == \A n \in Slots : calls[n].op # "idle" => GoodCall(calls[n], Opened, created)

Base == Types /\ Bounded /\ Lists /\ Asked

------------------------------------------------------------------------------
(* Sequences, slots and records.                                             *)

LEMMA ViewChanged ==
    ASSUME Types, NEW i \in 1..Opened, NEW v \in ViewSet, views' = [views EXCEPT ![i] = v]
    PROVE  /\ views' \in Seq(ViewSet)
           /\ Opened' = Opened
           /\ \A j \in 1..Opened : views'[j] = IF j = i THEN v ELSE views[j]
BY ExceptSeq DEF Types, Opened

LEMMA ViewType ==
    ASSUME Types, NEW i \in 1..Opened
    PROVE  /\ views[i] \in ViewSet
           /\ views[i].list \in Seq(Ids) /\ views[i].title \in [Ids -> Titles]
           /\ views[i].active \in Ids /\ views[i].messages \in Seq(Messages)
           /\ views[i].sending \in BOOLEAN /\ views[i].renaming \in Ids \union {None}
<1>1. views[i] \in ViewSet
  BY ElementOfSeq DEF Types, Opened
<1> QED
  BY <1>1 DEF ViewSet

LEMMA ViewMade ==
    ASSUME NEW list \in Seq(Ids), NEW title \in [Ids -> Titles], NEW active \in Ids,
           NEW messages \in Seq(Messages), NEW sending \in BOOLEAN, NEW renaming \in Ids \union {None}
    PROVE  [list |-> list, title |-> title, active |-> active, messages |-> messages,
            sending |-> sending, renaming |-> renaming] \in ViewSet
BY DEF ViewSet

LEMMA CallType ==
    ASSUME Types, NEW n \in Slots
    PROVE  /\ calls[n] \in CallSet
           /\ calls[n].view \in Nat /\ calls[n].id \in Ids \union {None} /\ calls[n].text \in Nat
           /\ calls[n].op \in {"idle", "history", "replacement", "send", "remove"}
           /\ calls[n].answer \in {"none", "sent", "answer", "failure"}
           /\ calls[n].value \in Seq(Messages)
BY DEF Types, CallSet

LEMMA SlotsAreFinite == IsFiniteSet(Slots) /\ Slots \subseteq Nat
BY FS_Interval, BoundsAssumption DEF Slots

\* A call that is asked takes a slot that was free.
LEMMA AskTakesSlot ==
    ASSUME Types, Free # {}, NEW i, NEW op, NEW id, NEW text, Ask(i, op, id, text)
    PROVE  \E n \in Free : calls' = [calls EXCEPT ![n] = Call(i, op, id, text)]
BY DEF Ask

\* The text of a message is a number.
LEMMA MessageType ==
    ASSUME NEW text \in Nat
    PROVE  \A role \in {"user", "assistant", "tools", "worked"} :
              /\ HistoryMessage(role, text) \in Messages
              /\ AsSaid(HistoryMessage(role, text)) =
                    IF role = "worked" THEN ChatResponse(text) ELSE HistoryMessage(role, text)
BY DEF HistoryMessage, Messages, AsSaid

\* What is stored of a view is a list with the view's active conversation.
LEMMA ConversationType ==
    ASSUME NEW v \in ViewSet
    PROVE  /\ Conversation(v) \in StoredSet
           /\ Conversation(v).is = "list"
           /\ IdsOf(Conversation(v).list) = v.list
<1>1. /\ v.list \in Seq(Ids) /\ v.title \in [Ids -> Titles] /\ v.active \in Ids
      /\ DOMAIN v.list = 1..Len(v.list) /\ Len(v.list) \in Nat
      /\ \A k \in 1..Len(v.list) : v.list[k] \in Ids
  BY LenProperties, ElementOfSeq DEF ViewSet
<1> DEFINE items == [k \in DOMAIN v.list |-> ConversationSummary(v, v.list[k])]
<1>2. \A k \in 1..Len(v.list) : items[k] \in Items /\ items[k].id = v.list[k]
  BY <1>1 DEF ConversationSummary, Items
<1>3. items \in Seq(Items) /\ DOMAIN items = DOMAIN v.list
  <2>1. items \in [1..Len(v.list) -> Items]
    BY <1>1, <1>2
  <2> HIDE DEF items
  <2> QED
    BY <2>1, <1>1
<1>4. IdsOf(items) = v.list
  <2>1. IdsOf(items) = [k \in DOMAIN v.list |-> v.list[k]]
    BY <1>1, <1>2, <1>3 DEF IdsOf
  <2> QED
    BY <2>1, <1>1
<1>5. Conversation(v) = [is |-> "list", active |-> v.active, list |-> items]
  BY DEF Conversation
<1> HIDE DEF items
<1> QED
  BY <1>1, <1>3, <1>4, <1>5 DEF StoredSet
------------------------------------------------------------------------------
(* The lists of conversations.                                               *)

LEMMA SeqDomain ==
    ASSUME NEW T, NEW s \in Seq(T)
    PROVE  /\ DOMAIN s = 1..Len(s) /\ Len(s) \in Nat
           /\ \A k \in 1..Len(s) : s[k] \in T
           /\ s # <<>> <=> Len(s) > 0
           /\ \A x : x \in ToSet(s) <=> \E k \in 1..Len(s) : s[k] = x
BY LenProperties, ElementOfSeq, EmptySeq DEF ToSet

LEMMA IdsAreNumbers == Ids \subseteq Nat
BY BoundsAssumption DEF Ids

LEMMA LaterList ==
    ASSUME NEW list \in Seq(Ids), NEW top \in Nat, NEW later \in Nat, top <= later, GoodList(list, top)
    PROVE  GoodList(list, later)
<1>1. \A k \in DOMAIN list : list[k] \in Nat
  BY SeqDomain, IdsAreNumbers
<1> QED
  BY <1>1 DEF GoodList

\* The list of one conversation.
LEMMA FirstList ==
    ASSUME NEW id \in Ids
    PROVE  <<id>> \in Seq(Ids) /\ GoodList(<<id>>, id) /\ DOMAIN <<id>> = {1} /\ <<id>>[1] = id
<1>1. <<id>> \in Seq(Ids) /\ <<id>> # <<>> /\ DOMAIN <<id>> = {1} /\ <<id>>[1] = id
  OBVIOUS
<1>2. id \in Nat
  BY DEF Ids
<1> QED
  BY <1>1, <1>2 DEF GoodList

\* A conversation just created comes first.
LEMMA LongerList ==
    ASSUME NEW list \in Seq(Ids), NEW top \in Nat, NEW id \in Ids, id = top + 1, GoodList(list, top)
    PROVE  /\ <<id>> \o list \in Seq(Ids)
           /\ GoodList(<<id>> \o list, id)
           /\ 1 \in DOMAIN (<<id>> \o list) /\ (<<id>> \o list)[1] = id
<1> DEFINE longer == <<id>> \o list
<1>1. <<id>> \in Seq(Ids) /\ Len(<<id>>) = 1 /\ <<id>>[1] = id
  OBVIOUS
<1>2. /\ longer \in Seq(Ids) /\ Len(longer) = 1 + Len(list)
      /\ \A i \in 1..(1 + Len(list)) : longer[i] = IF i <= 1 THEN <<id>>[i] ELSE list[i - 1]
  BY <1>1, ConcatProperties
<1>3. Len(list) \in Nat /\ DOMAIN list = 1..Len(list) /\ DOMAIN longer = 1..Len(longer)
  BY <1>2, SeqDomain
<1>4. \A i \in 1..Len(list) : list[i] \in Nat /\ list[i] <= top
  <2>1. \A i \in 1..Len(list) : list[i] \in Ids
    BY SeqDomain
  <2> QED
    BY <2>1, <1>3, IdsAreNumbers DEF GoodList
<1> HIDE DEF longer
<1>5. longer[1] = id /\ \A i \in 1..Len(longer) : i # 1 => i - 1 \in 1..Len(list) /\ longer[i] = list[i - 1]
  <2>1. longer[1] = id
    BY <1>1, <1>2, <1>3
  <2>2. \A i \in 1..Len(longer) : i # 1 => i - 1 \in 1..Len(list) /\ longer[i] = list[i - 1]
    BY <1>2, <1>3
  <2> QED
    BY <2>1, <2>2
<1>6. longer # <<>>
  BY <1>2, <1>3, EmptySeq
<1>7. ASSUME NEW j \in DOMAIN longer, NEW k \in DOMAIN longer, j # k  PROVE longer[j] # longer[k]
  <2>1. CASE j = 1
    BY <2>1, <1>3, <1>4, <1>5, <1>7
  <2>2. CASE k = 1
    BY <2>2, <1>3, <1>4, <1>5, <1>7
  <2>3. CASE j # 1 /\ k # 1
    <3>1. /\ j - 1 \in DOMAIN list /\ k - 1 \in DOMAIN list /\ j - 1 # k - 1
          /\ longer[j] = list[j - 1] /\ longer[k] = list[k - 1]
      BY <2>3, <1>3, <1>5, <1>7
    <3> QED
      BY <3>1 DEF GoodList
  <2> QED
    BY <2>1, <2>2, <2>3
<1>8. ASSUME NEW k \in DOMAIN longer  PROVE longer[k] <= id
  BY <1>3, <1>4, <1>5, <1>8
<1> QED
  BY <1>2, <1>3, <1>5, <1>6, <1>7, <1>8 DEF GoodList, longer

LEMMA PlaceType ==
    ASSUME NEW list \in Seq(Ids), NEW id
    PROVE  /\ id \in ToSet(list) => PlaceOf(list, id) \in 1..Len(list) /\ list[PlaceOf(list, id)] = id
           /\ id \notin ToSet(list) => PlaceOf(list, id) = 0
<1>1. id \in ToSet(list) => \E k \in DOMAIN list : list[k] = id
  BY DEF ToSet
<1>2. DOMAIN list = 1..Len(list)
  BY SeqDomain
<1> QED
  BY <1>1, <1>2 DEF PlaceOf

\* The others of a list are still listed, once each.
LEMMA WithoutList ==
    ASSUME NEW list \in Seq(Ids), NEW top \in Nat, GoodList(list, top), NEW id
    PROVE  /\ Without(list, id) \in Seq(Ids)
           /\ Without(list, id) # <<>> => GoodList(Without(list, id), top)
           /\ \A k \in DOMAIN list :
                list[k] # id => \E j \in DOMAIN Without(list, id) : Without(list, id)[j] = list[k]
           /\ PlaceOf(list, id) \in 0..(Len(Without(list, id)) + 1)
<1> DEFINE rest == Without(list, id)
           at == PlaceOf(list, id)
<1>1. CASE id \notin ToSet(list)
  <2>1. rest = list /\ at = 0 /\ Len(list) \in Nat
    BY <1>1, PlaceType, SeqDomain DEF Without
  <2> QED
    BY <2>1
<1>2. CASE id \in ToSet(list)
  <2>1. rest = RemoveAt(list, at) /\ at \in 1..Len(list) /\ list[at] = id
    BY <1>2, PlaceType DEF Without
  <2>2. /\ RemoveAt(list, at) \in Seq(Ids)
        /\ Len(RemoveAt(list, at)) = Len(list) - 1
        /\ \A j \in 1..(Len(list) - 1) :
              RemoveAt(list, at)[j] = IF j < at THEN list[j] ELSE list[j + 1]
    BY <2>1, RemoveAtSeq
  <2>3. DOMAIN list = 1..Len(list) /\ Len(list) \in Nat /\ DOMAIN rest = 1..(Len(list) - 1)
    BY <2>1, <2>2, SeqDomain
  <2> HIDE DEF rest, at
  <2>4. \A j \in 1..(Len(list) - 1) :
           rest[j] = list[IF j < at THEN j ELSE j + 1] /\ (IF j < at THEN j ELSE j + 1) \in 1..Len(list)
    BY <2>1, <2>2, <2>3
  <2>5. ASSUME NEW j \in DOMAIN rest, NEW k \in DOMAIN rest, j # k  PROVE rest[j] # rest[k]
    <3> DEFINE jj == IF j < at THEN j ELSE j + 1
               kk == IF k < at THEN k ELSE k + 1
    <3>1. jj \in DOMAIN list /\ kk \in DOMAIN list /\ rest[j] = list[jj] /\ rest[k] = list[kk]
      BY <2>3, <2>4
    <3>2. jj # kk
      BY <2>1, <2>3, <2>5
    <3> HIDE DEF jj, kk
    <3> QED
      BY <3>1, <3>2 DEF GoodList
  <2>6. ASSUME NEW k \in DOMAIN rest  PROVE rest[k] <= top
    BY <2>3, <2>4 DEF GoodList
  <2>7. ASSUME NEW k \in DOMAIN list, list[k] # id  PROVE \E j \in DOMAIN rest : rest[j] = list[k]
    <3>1. k # at
      BY <2>1, <2>7
    <3>2. CASE k < at
      <4>1. k \in 1..(Len(list) - 1)
        BY <3>2, <2>1, <2>3
      <4> QED
        BY <4>1, <3>2, <2>3, <2>4
    <3>3. CASE k > at
      <4>1. k - 1 \in 1..(Len(list) - 1) /\ ~(k - 1 < at) /\ (k - 1) + 1 = k
        BY <3>3, <2>1, <2>3
      <4>2. rest[k - 1] = list[k]
        BY <4>1, <2>4
      <4> QED
        BY <4>1, <4>2, <2>3
    <3> QED
      BY <3>1, <3>2, <3>3, <2>1, <2>3
  <2>8. rest \in Seq(Ids) /\ Len(rest) = Len(list) - 1
    BY <2>1, <2>2
  <2>9. at \in 0..(Len(rest) + 1)
    BY <2>1, <2>3, <2>8
  <2>10. rest # <<>> => GoodList(rest, top)
    BY <2>5, <2>6 DEF GoodList
  <2> QED
    BY <2>7, <2>8, <2>9, <2>10 DEF rest, at
<1> QED
  BY <1>1, <1>2

LEMMA StaysListed ==
    ASSUME NEW list \in Seq(Ids), NEW top \in Nat, GoodList(list, top), NEW id,
           NEW x \in ToSet(list), x # id
    PROVE  x \in ToSet(Without(list, id))
<1>1. PICK k \in DOMAIN list : list[k] = x
  BY DEF ToSet
<1>2. \A l \in DOMAIN list :
         list[l] # id => \E j \in DOMAIN Without(list, id) : Without(list, id)[j] = list[l]
  BY WithoutList
<1> QED
  BY <1>1, <1>2 DEF ToSet

\* The neighbour is one of the others, or the new one when there is no other.
LEMMA NeighbourListed ==
    ASSUME NEW rest \in Seq(Ids), NEW at \in 0..(Len(rest) + 1), NEW fresh
    PROVE  /\ rest # <<>> => \E k \in DOMAIN rest : rest[k] = Neighbour(rest, at, fresh)
           /\ rest = <<>> => Neighbour(rest, at, fresh) = fresh
<1>1. Len(rest) \in Nat /\ DOMAIN rest = 1..Len(rest) /\ (rest # <<>> <=> Len(rest) > 0)
  BY SeqDomain
<1> DEFINE before == IF at <= 1 THEN 1 ELSE at - 1
<1>2. before \in Nat \ {0} /\ (Len(rest) > 0 => before <= Len(rest))
  BY <1>1
<1>3. Neighbour(rest, at, fresh) = IF before <= Len(rest) THEN rest[before] ELSE fresh
  BY DEF Neighbour
<1> HIDE DEF before
<1> QED
  BY <1>1, <1>2, <1>3
\* What a page that is opened takes from localStorage.
LEMMA LoadedType ==
    ASSUME Types, Lists, NEW id \in Ids, id = created + 1
    PROVE  LET known == LoadConversations(id) IN
           /\ known.list \in Seq(Ids) /\ known.title \in [Ids -> Titles]
           /\ GoodList(known.list, IF stored.is = "list" THEN created ELSE id)
           /\ stored.is = "list" => known.list = IdsOf(stored.list)
<1>1. CASE stored.is # "list"
  <2> DEFINE titles == [c \in Ids |-> IF stored.is = "nothing" THEN "new" ELSE "given"]
  <2>1. LoadConversations(id) = [list |-> <<id>>, title |-> titles]
    BY <1>1 DEF LoadConversations, Types
  <2>2. titles \in [Ids -> Titles]
    BY DEF Titles
  <2> HIDE DEF titles
  <2>3. LoadConversations(id).list = <<id>> /\ LoadConversations(id).title = titles
    BY <2>1
  <2> QED
    BY <2>2, <2>3, <1>1, FirstList
<1>2. CASE stored.is = "list"
  <2> DEFINE TitleOf(c) ==
               IF \E item \in ToSet(stored.list) : item.id = c
               THEN (CHOOSE item \in ToSet(stored.list) : item.id = c).title ELSE "new"
  <2>1. stored \in StoredSet /\ stored.list \in Seq(Items)
    BY <1>2 DEF Types, StoredSet
  <2>2. DOMAIN stored.list = 1..Len(stored.list) /\ \A k \in 1..Len(stored.list) : stored.list[k] \in Items
    BY <2>1, SeqDomain
  <2>3. LoadConversations(id) = [list |-> IdsOf(stored.list), title |-> [c \in Ids |-> TitleOf(c)]]
    BY <1>2 DEF LoadConversations, IdsOf
  <2>4. IdsOf(stored.list) \in Seq(Ids)
    <3>1. IdsOf(stored.list) \in [1..Len(stored.list) -> Ids] /\ Len(stored.list) \in Nat
      BY <2>1, <2>2, LenProperties DEF IdsOf, Items
    <3> QED
      BY <3>1
  <2>5. \A c \in Ids : TitleOf(c) \in Titles
    <3> TAKE c \in Ids
    <3>1. CASE \E item \in ToSet(stored.list) : item.id = c
      <4> DEFINE found == CHOOSE item \in ToSet(stored.list) : item.id = c
      <4>1. found \in ToSet(stored.list)
        BY <3>1
      <4>2. found \in Items
        BY <4>1, <2>1, SeqDomain
      <4>3. found.title \in Titles
        BY <4>2 DEF Items
      <4> HIDE DEF found
      <4>4. TitleOf(c) = found.title
        BY <3>1 DEF found
      <4> QED
        BY <4>3, <4>4
    <3>2. CASE ~ \E item \in ToSet(stored.list) : item.id = c
      BY <3>2 DEF Titles
    <3> QED
      BY <3>1, <3>2
  <2>6. GoodList(IdsOf(stored.list), created)
    BY <1>2 DEF Lists
  <2> HIDE DEF TitleOf
  <2>7. [c \in Ids |-> TitleOf(c)] \in [Ids -> Titles]
    BY <2>5
  <2> QED
    BY <2>3, <2>4, <2>6, <2>7, <1>2
<1> QED
  BY <1>1, <1>2

\* A page that is opened shows one of the conversations of its list.
LEMMA OpenedView ==
    ASSUME Types, Lists, NEW id \in Ids, id = created + 1
    PROVE  /\ ViewOf(id) \in ViewSet
           /\ GoodView(ViewOf(id), IF stored.is = "list" THEN created ELSE id)
           /\ ViewOf(id).messages = <<>> /\ ViewOf(id).sending = FALSE
<1> DEFINE known == LoadConversations(id)
           top == IF stored.is = "list" THEN created ELSE id
           active == ActiveOf(known.list)
<1>1. known.list \in Seq(Ids) /\ known.title \in [Ids -> Titles] /\ GoodList(known.list, top)
  BY LoadedType
<1>2. ViewOf(id) = [list |-> known.list, title |-> known.title, active |-> active,
                    messages |-> <<>>, sending |-> FALSE, renaming |-> None]
  BY DEF ViewOf
<1> HIDE DEF known, top
<1>3. \E k \in DOMAIN known.list : known.list[k] = active
  <2>1. /\ DOMAIN known.list = 1..Len(known.list) /\ Len(known.list) \in Nat /\ Len(known.list) > 0
        /\ \A x : x \in ToSet(known.list) <=> \E k \in 1..Len(known.list) : known.list[k] = x
    BY <1>1, SeqDomain DEF GoodList
  <2> QED
    BY <2>1 DEF ActiveOf
<1> HIDE DEF active
<1>4. active \in Ids
  <2>1. PICK k \in DOMAIN known.list : known.list[k] = active
    BY <1>3
  <2>2. k \in 1..Len(known.list)
    BY <1>1, SeqDomain
  <2>3. known.list[k] \in Ids
    BY <2>2, <1>1, ElementOfSeq
  <2> QED
    BY <2>1, <2>3
<1>5. ViewOf(id) \in ViewSet
  <2>1. <<>> \in Seq(Messages)
    OBVIOUS
  <2> QED
    BY <2>1, <1>1, <1>2, <1>4, ViewMade
<1>6. GoodView(ViewOf(id), top)
  BY <1>1, <1>2, <1>3 DEF GoodView
<1> QED
  BY <1>2, <1>5, <1>6 DEF top

LEMMA RemovalsFinite ==
    ASSUME Types
    PROVE  /\ IsFiniteSet(Removals) /\ Cardinality(Removals) \in Nat
           /\ Removals # {} => Cardinality(Removals) > 0
<1>1. Removals \in SUBSET Slots
  BY DEF Removals, Running
<1>2. IsFiniteSet(Removals)
  BY <1>1, SlotsAreFinite, FS_Subset
<1> QED
  BY <1>2, FS_CardinalityType, FS_EmptySet

\* There is an id for a conversation to be created.
LEMMA FreshId ==
    ASSUME Types, Bounded, budget.views > 0 \/ budget.acts > 0 \/ Removals # {}
    PROVE  created + 1 \in Ids
<1>1. /\ created \in Nat /\ budget.views \in Nat /\ budget.acts \in Nat
      /\ Cardinality(Removals) \in Nat /\ MaxViews \in Nat /\ MaxActs \in Nat
  BY RemovalsFinite, BoundsAssumption DEF Types
<1>2. budget.views + budget.acts + Cardinality(Removals) > 0
  BY <1>1, RemovalsFinite
<1> QED
  BY <1>1, <1>2 DEF Bounded, Ids
------------------------------------------------------------------------------
(* The invariant.                                                            *)

\* As long as no page has been left with a call under way, all calls are those of the
\* page that is shown.
Present ==
    ~abandoned => \A n \in Slots : calls[n].op # "idle" => calls[n].view = mounted /\ mounted # 0

\* The server has no messages of a conversation that has not been created.
Untold == \A c \in Ids : c > created => history[c] = <<>>

\* The call is one of view i that may change its messages, or one that may change those
\* of conversation id on the server.
Touches(call, i, id) ==
    \/ call.view = i /\ call.op \in {"history", "replacement", "send"}
    \/ call.id = id /\ call.op \in {"send", "remove"}

\* The messages that are shown and those of the server, but for the calls and results of
\* tools before an answer.
Alike(m, h) == Said(m) = Said(h)

\* What the messages m that are shown and the messages h of the server differ by is what
\* the call is about to add: the answer here, the turn there.
Tells(call, i, id, m, h) ==
    /\ call.view = i /\ call.id = id /\ call.answer # "failure"
    /\ call.op \in {"history", "replacement"} /\ call.answer = "answer" => call.value = h
    /\ call.op = "send" /\ call.answer = "sent" => Alike(m, Append(h, HistoryMessage("user", call.text)))
    /\ call.op = "send" /\ call.answer = "answer" => Alike(h, Append(m, ChatResponse(call.text)))
    /\ call.op = "remove" /\ call.answer = "sent" => Alike(m, h)

FollowedBy(called, i, id, m, h) ==
    /\ (\A n \in Slots : ~Touches(called[n], i, id)) => Alike(m, h)
    /\ \A n, k \in Slots : Touches(called[n], i, id) /\ Touches(called[k], i, id) => n = k
    /\ \A n \in Slots : Touches(called[n], i, id) => Tells(called[n], i, id, m, h)

Followed ==
    mounted # 0 /\ ~disturbed =>
        FollowedBy(calls, mounted, Shown.active, Shown.messages, history[Shown.active])

IInv == Base /\ SendingMeansAsked /\ Present /\ StoredIsSeen /\ Untold /\ Followed

------------------------------------------------------------------------------
(* What a step changes: of the views at most the i-th, which becomes v, and  *)
(* of the calls at most the n-th, which becomes c; 0 when it changes none.   *)
ViewStep(i, v) ==
    /\ i \in 0..Opened /\ v \in ViewSet
    /\ views' \in Seq(ViewSet)
    /\ Opened' = Opened
    /\ \A j \in 1..Opened : views'[j] = IF j = i THEN v ELSE views[j]
CallStep(n, c) ==
    /\ n \in 0..MaxCalls /\ c \in CallSet
    /\ calls' \in [Slots -> CallSet]
    /\ \A m \in Slots : calls'[m] = IF m = n THEN c ELSE calls[m]

LEMMA NoViewStep ==
    ASSUME Types, NEW v \in ViewSet, UNCHANGED views
    PROVE  ViewStep(0, v)
<1>1. Len(views) \in Nat /\ views \in Seq(ViewSet)
  BY LenProperties DEF Types
<1> QED
  BY <1>1 DEF ViewStep, Opened

LEMMA OneViewStep ==
    ASSUME Types, NEW i \in 1..Opened, NEW v \in ViewSet, views' = [views EXCEPT ![i] = v]
    PROVE  ViewStep(i, v)
<1>1. Len(views) \in Nat
  BY LenProperties DEF Types
<1>2. i \in 0..Opened
  BY <1>1 DEF Opened
<1> QED
  BY <1>2, ViewChanged DEF ViewStep

LEMMA IdleType == Idle \in CallSet /\ Idle.op = "idle"
<1>1. <<>> \in Seq(Messages)
  OBVIOUS
<1> QED
  BY <1>1 DEF Idle, CallSet, None

LEMMA NoCallStep ==
    ASSUME Types, UNCHANGED calls
    PROVE  CallStep(0, Idle)
BY IdleType, BoundsAssumption DEF CallStep, Types, Slots

LEMMA OneCallStep ==
    ASSUME Types, NEW n \in Slots, NEW c \in CallSet, calls' = [calls EXCEPT ![n] = c]
    PROVE  CallStep(n, c)
BY BoundsAssumption DEF CallStep, Types, Slots

LEMMA CallMade ==
    ASSUME NEW i \in Nat, NEW op \in {"history", "replacement", "send", "remove"},
           NEW id \in Ids, NEW text \in Nat
    PROVE  /\ Call(i, op, id, text) \in CallSet
           /\ Call(i, op, id, text).view = i /\ Call(i, op, id, text).op = op
           /\ Call(i, op, id, text).id = id /\ Call(i, op, id, text).text = text
           /\ Call(i, op, id, text).answer = "sent"
<1>1. <<>> \in Seq(Messages)
  OBVIOUS
<1> QED
  BY <1>1 DEF Call, CallSet

LEMMA RunningOp ==
    ASSUME NEW n
    PROVE  /\ n \in Running <=> n \in Slots /\ calls[n].op # "idle"
           /\ n \in Free <=> n \in Slots /\ calls[n].op = "idle"
BY DEF Running, Free
------------------------------------------------------------------------------
(* What such a step leaves true.                                             *)

LEMMA StepLists ==
    ASSUME Types, Lists, NEW i, NEW v, ViewStep(i, v), created' \in Nat, created <= created',
           i # 0 => GoodView(v, created'),
           \/ UNCHANGED stored
           \/ stored' = Conversation(v) /\ i # 0
    PROVE  Lists'
<1>1. ASSUME NEW j \in 1..Opened'  PROVE GoodView(views'[j], created')
  <2>1. j \in 1..Opened /\ views'[j] = IF j = i THEN v ELSE views[j]
    BY <1>1 DEF ViewStep
  <2>2. CASE j = i
    BY <2>1, <2>2 DEF Opened
  <2>3. CASE j # i
    <3>1. GoodView(views[j], created) /\ views[j].list \in Seq(Ids)
      BY <2>1, ViewType DEF Lists
    <3>2. created \in Nat
      BY DEF Types
    <3> QED
      BY <2>1, <2>3, <3>1, <3>2, LaterList DEF GoodView
  <2> QED
    BY <2>2, <2>3
<1>2. ASSUME stored'.is = "list"  PROVE GoodList(IdsOf(stored'.list), created')
  <2>1. CASE UNCHANGED stored
    <3>1. GoodList(IdsOf(stored.list), created) /\ stored \in StoredSet /\ created \in Nat
      BY <1>2, <2>1 DEF Lists, Types
    <3>2. IdsOf(stored.list) \in Seq(Ids)
      <4>1. stored.list \in Seq(Items)
        BY <3>1 DEF StoredSet
      <4>2. /\ DOMAIN stored.list = 1..Len(stored.list) /\ Len(stored.list) \in Nat
            /\ \A k \in 1..Len(stored.list) : stored.list[k] \in Items
        BY <4>1, SeqDomain
      <4>3. IdsOf(stored.list) \in [1..Len(stored.list) -> Ids]
        BY <4>2 DEF IdsOf, Items
      <4> QED
        BY <4>2, <4>3
    <3>3. GoodList(IdsOf(stored.list), created')
      BY <3>1, <3>2, LaterList
    <3> QED
      BY <3>3, <2>1
  <2>2. CASE stored' = Conversation(v) /\ i # 0
    <3>1. IdsOf(stored'.list) = v.list
      BY <2>2, ConversationType DEF ViewStep
    <3> QED
      BY <3>1, <2>2 DEF GoodView
  <2> QED
    BY <2>1, <2>2
<1> QED
  BY <1>1, <1>2 DEF Lists

LEMMA StepAsked ==
    ASSUME Types, Asked, NEW n, NEW c, CallStep(n, c), created' \in Nat, created <= created',
           Opened' \in Nat, Opened <= Opened',
           n # 0 /\ c.op # "idle" => GoodCall(c, Opened', created')
    PROVE  Asked'
<1> SUFFICES ASSUME NEW m \in Slots, calls'[m].op # "idle"
             PROVE  GoodCall(calls'[m], Opened', created')
  BY DEF Asked
<1>1. calls'[m] = IF m = n THEN c ELSE calls[m]
  BY DEF CallStep
<1>2. CASE m = n
  <2>1. n # 0
    BY <1>2 DEF Slots
  <2> QED
    BY <1>1, <1>2, <2>1
<1>3. CASE m # n
  <2>1. GoodCall(calls[m], Opened, created)
    BY <1>1, <1>3 DEF Asked
  <2>2. Opened \in Nat /\ created \in Nat
    BY LenProperties DEF Opened, Types
  <2>3. calls[m].view \in 0..Opened' /\ calls[m].id \in 1..created'
    BY <2>1, <2>2 DEF GoodCall
  <2> QED
    BY <1>1, <1>3, <2>1, <2>3 DEF GoodCall
<1> QED
  BY <1>2, <1>3

Removing(n, call) == IF n # 0 /\ call.op = "remove" THEN 1 ELSE 0

\* A removal uses up the action it is, and what it creates uses up the removal.
LEMMA StepBounded ==
    ASSUME Types, Bounded, NEW n, NEW c, CallStep(n, c),
           created' \in Nat,
           budget'.views \in Nat, budget'.acts \in Nat,
           created' + budget'.views + budget'.acts + Removing(n, c) <=
               created + budget.views + budget.acts + Removing(n, calls[n])
    PROVE  Bounded'
<1> DEFINE R == Removals
<1>1. IsFiniteSet(R) /\ Cardinality(R) \in Nat
  BY RemovalsFinite
<1>2. \A m \in Slots : m \in Removals' <=> IF m = n THEN c.op = "remove" ELSE m \in R
  <2> TAKE m \in Slots
  <2>1. calls'[m] = IF m = n THEN c ELSE calls[m]
    BY DEF CallStep
  <2> QED
    BY <2>1 DEF Removals, Running
<1>3. R \subseteq Slots /\ Removals' \subseteq Slots /\ 0 \notin Slots
  BY DEF Removals, Running, Slots
<1>4. n # 0 => n \in Slots
  BY BoundsAssumption DEF CallStep, Slots
<1>5. n \in R <=> n # 0 /\ calls[n].op = "remove"
  BY <1>3, <1>4 DEF Removals, Running
<1>6. Removals' = IF n # 0 /\ c.op = "remove" THEN R \union {n} ELSE R \ {n}
  BY <1>2, <1>3, <1>4
<1> HIDE DEF R
<1>7. /\ Cardinality(R \union {n}) = IF n \in R THEN Cardinality(R) ELSE Cardinality(R) + 1
      /\ Cardinality(R \ {n}) = IF n \in R THEN Cardinality(R) - 1 ELSE Cardinality(R)
  BY <1>1, FS_AddElement, FS_RemoveElement
<1>8. /\ budget.views \in Nat /\ budget.acts \in Nat /\ created \in Nat
      /\ MaxViews \in Nat /\ MaxActs \in Nat
  BY BoundsAssumption DEF Types
<1>9. created + budget.views + budget.acts + Cardinality(R) <= MaxViews + MaxActs
  BY DEF Bounded, R
<1> DEFINE card == Cardinality(Removals')
           size == Cardinality(R)
<1>10. card = size + (IF n # 0 /\ c.op = "remove" THEN 1 ELSE 0) - (IF n \in R THEN 1 ELSE 0)
  BY <1>1, <1>6, <1>7
<1>11. size \in Nat
  BY <1>1
<1>12. created + budget.views + budget.acts + size <= MaxViews + MaxActs
  BY <1>9
<1> HIDE DEF card, size
<1>13. created' + budget'.views + budget'.acts + card <= MaxViews + MaxActs
  BY <1>5, <1>8, <1>10, <1>11, <1>12 DEF Removing
<1> QED
  BY <1>13 DEF Bounded, card

\* Whoever waits for an answer still does, and nobody else.
LEMMA StepSending ==
    ASSUME Types, SendingMeansAsked, NEW i, NEW v, ViewStep(i, v), NEW n, NEW c, CallStep(n, c),
           i # 0 => v.sending = views[i].sending,
           n # 0 => \A j \in 1..Opened :
               (c.op = "send" /\ c.view = j) <=> (calls[n].op = "send" /\ calls[n].view = j)
    PROVE  SendingMeansAsked'
<1> SUFFICES ASSUME NEW j \in 1..Opened
             PROVE  LET asked == {m \in Of(j)' : calls'[m].op = "send"}
                    IN  /\ views'[j].sending <=> asked # {}
                        /\ \A k, m \in asked : k = m
  BY DEF SendingMeansAsked, ViewStep, Of, Running
<1> DEFINE asked == {m \in Of(j) : calls[m].op = "send"}
           later == {m \in Of(j)' : calls'[m].op = "send"}
<1>1. later = asked
  <2>1. ASSUME NEW m \in Slots  PROVE m \in later <=> m \in asked
    <3>1. calls'[m] = IF m = n THEN c ELSE calls[m]
      BY DEF CallStep
    <3>2. m # 0
      BY DEF Slots
    <3> QED
      BY <3>1, <3>2 DEF Of, Running
  <2> QED
    BY <2>1 DEF Of, Running
<1>2. views'[j].sending = views[j].sending
  <2>1. j # 0 /\ views'[j] = IF j = i THEN v ELSE views[j]
    BY DEF ViewStep
  <2> QED
    BY <2>1
<1>3. views[j].sending <=> asked # {}
  BY DEF SendingMeansAsked
<1>4. \A k, m \in asked : k = m
  BY DEF SendingMeansAsked
<1> HIDE DEF asked, later
<1>5. (views'[j].sending <=> later # {}) /\ \A k, m \in later : k = m
  BY <1>1, <1>2, <1>3, <1>4
<1> QED
  BY <1>5 DEF later

LEMMA StepPresent ==
    ASSUME Types, Present, NEW n, NEW c, CallStep(n, c), UNCHANGED <<abandoned, mounted>>,
           \/ n = 0 \/ c.op = "idle"
           \/ calls[n].op # "idle" /\ c.view = calls[n].view
           \/ c.view = mounted /\ mounted # 0
    PROVE  Present'
<1> SUFFICES ASSUME ~abandoned, NEW m \in Slots, calls'[m].op # "idle"
             PROVE  calls'[m].view = mounted /\ mounted # 0
  BY DEF Present
<1>1. calls'[m] = (IF m = n THEN c ELSE calls[m]) /\ m # 0
  BY DEF CallStep, Slots
<1> QED
  BY <1>1 DEF Present

LEMMA StepStored ==
    ASSUME Types, StoredIsSeen, NEW i, NEW v, ViewStep(i, v), NEW n, NEW c, CallStep(n, c),
           UNCHANGED <<abandoned, mounted>>,
           ~abandoned /\ mounted # 0 =>
              \/ /\ UNCHANGED stored
                 /\ i = mounted => Conversation(v) = Conversation(views[i])
                 /\ n # 0 => (calls[n].op = "replacement" => c.op = "replacement")
              \/ i = mounted /\ stored' = Conversation(v)
              \/ n # 0 /\ c.op = "replacement"
    PROVE  StoredIsSeen'
<1> SUFFICES ASSUME mounted # 0, ~abandoned, \A m \in Slots : calls'[m].op # "replacement"
             PROVE  stored' = Conversation(views'[mounted])
  BY RunningOp DEF StoredIsSeen, Shown, Running
<1>1. n # 0 => n \in Slots /\ calls'[n] = c
  BY BoundsAssumption DEF CallStep, Slots
<1>2. \A m \in Slots : calls'[m] = IF m = n THEN c ELSE calls[m]
  BY DEF CallStep
<1>3. mounted \in 1..Opened
  <2>1. mounted \in 0..Opened
    BY DEF Types
  <2> QED
    BY <2>1
<1>4. views'[mounted] = IF mounted = i THEN v ELSE views[mounted]
  BY <1>3 DEF ViewStep
<1>5. CASE /\ UNCHANGED stored
           /\ i = mounted => Conversation(v) = Conversation(views[i])
           /\ n # 0 => (calls[n].op = "replacement" => c.op = "replacement")
  <2>1. \A m \in Slots : calls[m].op # "replacement"
    <3> TAKE m \in Slots
    <3>1. calls'[m] = (IF m = n THEN c ELSE calls[m]) /\ m # 0
      BY <1>2 DEF Slots
    <3> QED
      BY <3>1, <1>5
  <2>2. stored = Conversation(views[mounted])
    BY <2>1 DEF StoredIsSeen, Shown, Running
  <2> QED
    BY <2>2, <1>4, <1>5
<1>6. CASE i = mounted /\ stored' = Conversation(v)
  BY <1>4, <1>6
<1>7. ~(n # 0 /\ c.op = "replacement")
  BY <1>1
<1> QED
  BY <1>5, <1>6, <1>7

LEMMA StepUntold ==
    ASSUME Types, Untold, created' \in Nat, created <= created',
           \A c \in Ids : c > created => history'[c] = history[c]
    PROVE  Untold'
<1> SUFFICES ASSUME NEW c \in Ids, c > created'  PROVE history'[c] = <<>>
  BY DEF Untold
<1>1. created \in Nat /\ c \in Nat
  BY IdsAreNumbers DEF Types
<1>2. c > created
  BY <1>1
<1> QED
  BY <1>2 DEF Untold

\* Messages are alike when they look the same.
LEMMA AlikeSame == \A m : Alike(m, m)
BY DEF Alike

LEMMA AlikeAppend ==
    ASSUME NEW m \in Seq(Messages), NEW h \in Seq(Messages), Alike(m, h),
           NEW x \in Messages, NEW y \in Messages, AsSaid(x) = AsSaid(y)
    PROVE  Alike(Append(m, x), Append(h, y))
<1>1. /\ DOMAIN m = 1..Len(m) /\ DOMAIN h = 1..Len(h) /\ Len(m) \in Nat /\ Len(h) \in Nat
      /\ DOMAIN Append(m, x) = 1..(Len(m) + 1) /\ DOMAIN Append(h, y) = 1..(Len(h) + 1)
      /\ \A k \in 1..(Len(m) + 1) : Append(m, x)[k] = IF k <= Len(m) THEN m[k] ELSE x
      /\ \A k \in 1..(Len(h) + 1) : Append(h, y)[k] = IF k <= Len(h) THEN h[k] ELSE y
  OBVIOUS
<1>2. DOMAIN m = DOMAIN h /\ \A k \in DOMAIN m : AsSaid(m[k]) = AsSaid(h[k])
  <2>1. DOMAIN Said(m) = DOMAIN m /\ DOMAIN Said(h) = DOMAIN h
    BY DEF Said
  <2>2. \A k \in DOMAIN m : Said(m)[k] = AsSaid(m[k])
    BY DEF Said
  <2>3. \A k \in DOMAIN h : Said(h)[k] = AsSaid(h[k])
    BY DEF Said
  <2> QED
    BY <2>1, <2>2, <2>3 DEF Alike
<1>3. Len(m) = Len(h)
  <2> DEFINE p == Len(m)
             q == Len(h)
  <2>1. 1..p = 1..q /\ p \in Nat /\ q \in Nat
    BY <1>1, <1>2
  <2> HIDE DEF p, q
  <2>2. p \notin 1..q => p = 0
    BY <2>1
  <2>3. q \notin 1..p => q = 0
    BY <2>1
  <2>4. (p \in 1..q => p <= q) /\ (q \in 1..p => q <= p)
    BY <2>1
  <2>5. p = q
    BY <2>1, <2>2, <2>3, <2>4
  <2> QED
    BY <2>5 DEF p, q
<1> DEFINE longer == Append(m, x)
           other == Append(h, y)
<1>4. DOMAIN longer = DOMAIN other
  BY <1>1, <1>3
<1>5. \A k \in DOMAIN longer : AsSaid(longer[k]) = AsSaid(other[k])
  <2> TAKE k \in DOMAIN longer
  <2>1. k \in 1..(Len(m) + 1) /\ k \in 1..(Len(h) + 1)
    BY <1>1, <1>3
  <2>2. /\ longer[k] = IF k <= Len(m) THEN m[k] ELSE x
        /\ other[k] = IF k <= Len(m) THEN h[k] ELSE y
    BY <2>1, <1>1, <1>3
  <2>3. k <= Len(m) => k \in DOMAIN m
    BY <2>1, <1>1
  <2> HIDE DEF longer, other
  <2> QED
    BY <2>2, <2>3, <1>2
<1> HIDE DEF longer, other
<1>6. Said(longer) = Said(other)
  BY <1>4, <1>5 DEF Said
<1> QED
  BY <1>6 DEF Alike, longer, other

\* One call alone may touch the conversation that is shown.
LEMMA FollowedOne ==
    ASSUME NEW called, NEW n, NEW i, NEW id, NEW m, NEW h,
           \A k \in Slots : k # n => ~Touches(called[k], i, id),
           n \in Slots /\ Touches(called[n], i, id) => Tells(called[n], i, id, m, h),
           n \notin Slots \/ ~Touches(called[n], i, id) => Alike(m, h)
    PROVE  FollowedBy(called, i, id, m, h)
BY DEF FollowedBy

\* A step that concerns neither what is shown nor the conversation that is shown.
LEMMA StepFollowed ==
    ASSUME Types, Followed, NEW i, NEW v, ViewStep(i, v), NEW n, NEW c, CallStep(n, c),
           UNCHANGED mounted, ~disturbed' => ~disturbed,
           mounted # 0 /\ ~disturbed' =>
              /\ i = mounted => v.active = views[i].active /\ v.messages = views[i].messages
              /\ history'[views[mounted].active] = history[views[mounted].active]
              /\ n # 0 => /\ ~Touches(c, mounted, views[mounted].active)
                          /\ ~Touches(calls[n], mounted, views[mounted].active)
    PROVE  Followed'
<1> SUFFICES ASSUME mounted # 0, ~disturbed'
             PROVE  FollowedBy(calls', mounted, views'[mounted].active, views'[mounted].messages,
                               history'[views'[mounted].active])
  BY DEF Followed, Shown
<1> DEFINE id == views[mounted].active
           m == views[mounted].messages
           h == history[id]
<1>1. FollowedBy(calls, mounted, id, m, h)
  BY DEF Followed, Shown
<1>2. mounted \in 1..Opened
  <2>1. mounted \in 0..Opened
    BY DEF Types
  <2> QED
    BY <2>1
<1>3. views'[mounted].active = id /\ views'[mounted].messages = m /\ history'[id] = h
  <2>1. views'[mounted] = IF mounted = i THEN v ELSE views[mounted]
    BY <1>2 DEF ViewStep
  <2> QED
    BY <2>1
<1>4. \A k \in Slots : /\ Touches(calls'[k], mounted, id) <=> Touches(calls[k], mounted, id)
                       /\ Touches(calls[k], mounted, id) => calls'[k] = calls[k]
  <2> TAKE k \in Slots
  <2>1. calls'[k] = (IF k = n THEN c ELSE calls[k]) /\ k # 0
    BY DEF CallStep, Slots
  <2> QED
    BY <2>1
<1> HIDE DEF id, m, h
<1>5. FollowedBy(calls', mounted, id, m, h)
  BY <1>1, <1>4 DEF FollowedBy
<1> QED
  BY <1>3, <1>5

\* The touching calls are those of Touching.
LEMMA TouchingCalls ==
    ASSUME Types, NEW i, NEW id
    PROVE  \A n \in Slots : n \in Touching(i, id) <=> Touches(calls[n], i, id)
<1> SUFFICES ASSUME NEW n \in Slots
             PROVE  n \in Touching(i, id) <=> Touches(calls[n], i, id)
  OBVIOUS
<1>1. calls[n].op \in {"idle", "history", "replacement", "send", "remove"}
  BY CallType
<1> QED
  BY <1>1 DEF Touching, Touches, Running

LEMMA StepTypes ==
    ASSUME Types, NEW i, NEW v, ViewStep(i, v), NEW n, NEW c, CallStep(n, c),
           \/ UNCHANGED stored
           \/ stored' = Conversation(v),
           mounted' \in 0..Opened,
           history' \in [Ids -> Seq(Messages)],
           created' \in Nat,
           budget' \in [acts : Nat, views : Nat, troubles : Nat],
           disturbed' \in BOOLEAN, abandoned' \in BOOLEAN
    PROVE  Types'
<1>1. stored'.is \in {"nothing", "legacy", "list"} /\ (stored'.is = "list" => stored' \in StoredSet)
  BY ConversationType DEF ViewStep, Types
<1> QED
  BY <1>1 DEF Types, ViewStep, CallStep

\* The view of an answer, and the view that is shown, are views there have been.
LEMMA ItsView ==
    ASSUME Types, Asked, Lists, NEW n \in Slots, Returned(n)
    PROVE  /\ calls[n].view \in 1..Opened
           /\ Its(n) \in ViewSet /\ Its(n) = views[calls[n].view]
           /\ GoodView(Its(n), created)
           /\ GoodCall(calls[n], Opened, created) /\ calls[n].op # "idle"
<1>1. GoodCall(calls[n], Opened, created) /\ calls[n].op # "idle"
  BY DEF Asked, Returned, Running
<1>2. calls[n].view \in 0..Opened /\ calls[n].view # 0
  BY <1>1 DEF GoodCall, Returned
<1>3. calls[n].view \in 1..Opened
  BY <1>2
<1> QED
  BY <1>1, <1>3, ViewType DEF Its, Lists

LEMMA ShownView ==
    ASSUME Types, Lists, mounted # 0
    PROVE  /\ mounted \in 1..Opened
           /\ Shown \in ViewSet /\ Shown = views[mounted]
           /\ GoodView(Shown, created)
<1>1. mounted \in 0..Opened
  BY DEF Types
<1>2. mounted \in 1..Opened
  BY <1>1
<1> QED
  BY <1>2, ViewType DEF Shown, Lists

\* A conversation that is listed has been created.
LEMMA ListedCreated ==
    ASSUME Types, NEW v \in ViewSet, GoodView(v, created), NEW id \in ToSet(v.list)
    PROVE  id \in Ids /\ id \in 1..created
<1>1. v.list \in Seq(Ids)
  BY DEF ViewSet
<1>2. PICK k \in DOMAIN v.list : v.list[k] = id
  BY DEF ToSet
<1>3. k \in 1..Len(v.list)
  BY <1>1, SeqDomain
<1>4. id \in Ids
  BY <1>1, <1>2, <1>3, ElementOfSeq
<1>5. id <= created
  BY <1>2 DEF GoodView, GoodList
<1>6. id \in Nat /\ id >= 1 /\ created \in Nat
  BY <1>4, IdsAreNumbers DEF Ids, Types
<1> QED
  BY <1>4, <1>5, <1>6

LEMMA ActiveCreated ==
    ASSUME Types, NEW v \in ViewSet, GoodView(v, created)
    PROVE  v.active \in Ids /\ v.active \in 1..created /\ v.active \in ToSet(v.list)
<1>1. v.active \in ToSet(v.list)
  BY DEF GoodView, ToSet
<1> QED
  BY <1>1, ListedCreated
------------------------------------------------------------------------------
(* The steps of the user.                                                    *)

LEMMA ActBudget ==
    ASSUME Types, budget.acts > 0, budget' = [budget EXCEPT !.acts = @ - 1]
    PROVE  /\ budget' \in [acts : Nat, views : Nat, troubles : Nat]
           /\ budget'.views = budget.views /\ budget'.acts = budget.acts - 1
           /\ budget.acts \in Nat /\ budget.views \in Nat /\ budget'.acts \in Nat
BY DEF Types

\* The conversation that is shown, and nothing touches it.
LEMMA ShownAtRest ==
    ASSUME IInv, mounted # 0, ~disturbed, Touching(mounted, Shown.active) = {}
    PROVE  /\ \A k \in Slots : ~Touches(calls[k], mounted, Shown.active)
           /\ Alike(Shown.messages, history[Shown.active])
<1>1. \A k \in Slots : ~Touches(calls[k], mounted, Shown.active)
  BY TouchingCalls DEF IInv, Base
<1> QED
  BY <1>1 DEF IInv, Followed, FollowedBy

LEMMA SendKeeps ==
    ASSUME IInv, Send
    PROVE  IInv'
<1> USE DEF IInv, Base
<1> DEFINE V == views[mounted]
           text == budget.acts
           m == Append(V.messages, HistoryMessage("user", text))
           v == [V EXCEPT !.messages = m, !.sending = TRUE]
           c == Call(mounted, "send", V.active, text)
<1>1. /\ mounted \in 1..Opened /\ mounted # 0 /\ V = Shown /\ V \in ViewSet /\ GoodView(V, created)
      /\ V.active \in Ids /\ V.active \in 1..created
  BY ShownView, ActiveCreated DEF Send, Act
<1>2. /\ budget' \in [acts : Nat, views : Nat, troubles : Nat]
      /\ budget'.views = budget.views /\ budget'.acts = budget.acts - 1
      /\ budget.acts \in Nat /\ budget.views \in Nat /\ budget'.acts \in Nat
  BY ActBudget DEF Send, Act
<1>3. m \in Seq(Messages) /\ V.messages \in Seq(Messages)
  <2>1. V.messages \in Seq(Messages) /\ HistoryMessage("user", text) \in Messages
    BY <1>1, <1>2, MessageType DEF ViewSet
  <2> QED
    BY <2>1
<1> HIDE DEF m
<1>4. /\ v \in ViewSet /\ v.list = V.list /\ v.title = V.title /\ v.active = V.active
      /\ v.messages = m /\ v.sending = TRUE
  BY <1>1, <1>3 DEF ViewSet
<1>5. views' = [views EXCEPT ![mounted] = v]
  BY <1>1 DEF Send, Update, Composed, m
<1>6. PICK n \in Free : calls' = [calls EXCEPT ![n] = c]
  BY <1>1, AskTakesSlot DEF Send, Composed
<1>7. /\ c \in CallSet /\ c.view = mounted /\ c.op = "send" /\ c.id = V.active
      /\ c.text = text /\ c.answer = "sent"
  <2>1. mounted \in Nat /\ V.active \in Ids /\ text \in Nat
    <3>1. Opened \in Nat
      BY DEF Types, Opened
    <3> QED
      BY <1>1, <1>2, <3>1
  <2> HIDE DEF V, text
  <2> QED
    BY <2>1, CallMade DEF c
<1>8. /\ ~V.sending /\ disturbed' = (disturbed \/ Touching(mounted, V.active) # {})
      /\ UNCHANGED <<stored, created, mounted, history, abandoned>>
  BY <1>1 DEF Send, Act
<1> HIDE DEF v, c, V
<1>9. ViewStep(mounted, v)
  BY <1>1, <1>4, <1>5, OneViewStep
<1>10. n \in Slots /\ n # 0 /\ calls[n].op = "idle"
  BY <1>6 DEF Free, Running, Slots
<1>11. CallStep(n, c)
  BY <1>6, <1>7, <1>10, OneCallStep
<1>12. Types'
  BY <1>2, <1>8, <1>9, <1>11, StepTypes DEF Types
<1>13. Bounded'
  <2>1. Removing(n, c) = 0 /\ Removing(n, calls[n]) = 0
    BY <1>7, <1>10 DEF Removing
  <2>2. created \in Nat
    BY DEF Types
  <2>3. created' + budget'.views + budget'.acts + Removing(n, c) <=
            created + budget.views + budget.acts + Removing(n, calls[n])
    BY <2>1, <2>2, <1>2, <1>8
  <2> QED
    BY <2>2, <2>3, <1>2, <1>8, <1>11, StepBounded
<1>14. Lists'
  <2>1. GoodView(v, created)
    BY <1>1, <1>4 DEF GoodView
  <2> QED
    BY <2>1, <1>8, <1>9, StepLists DEF Types
<1>15. Asked'
  <2>1. GoodCall(c, Opened, created)
    BY <1>1, <1>7 DEF GoodCall
  <2>2. Opened' = Opened /\ Opened \in Nat
    BY <1>9, LenProperties DEF ViewStep, Types, Opened
  <2> QED
    BY <2>1, <2>2, <1>8, <1>11, StepAsked DEF Types
<1>16. SendingMeansAsked'
  <2> SUFFICES ASSUME NEW j \in 1..Opened
               PROVE  LET asked == {k \in Of(j)' : calls'[k].op = "send"}
                      IN  /\ views'[j].sending <=> asked # {}
                          /\ \A k, l \in asked : k = l
    BY <1>9 DEF SendingMeansAsked, ViewStep, Of, Running
  <2>1. /\ views[j].sending <=> {k \in Of(j) : calls[k].op = "send"} # {}
        /\ \A k, l \in {q \in Of(j) : calls[q].op = "send"} : k = l
    BY DEF SendingMeansAsked
  <2>2. \A k \in Slots : calls'[k] = IF k = n THEN c ELSE calls[k]
    BY <1>11 DEF CallStep
  <2>3. views'[j] = IF j = mounted THEN v ELSE views[j]
    BY <1>9 DEF ViewStep
  <2>4. CASE j = mounted
    <3>1. {k \in Of(j) : calls[k].op = "send"} = {}
      BY <2>1, <2>4, <1>8 DEF V
    <3>2. {k \in Of(j)' : calls'[k].op = "send"} = {n}
      <4>1. \A k \in Slots : ~(calls[k].op = "send" /\ calls[k].view = j)
        BY <3>1 DEF Of, Running
      <4>2. \A k \in Slots : (calls'[k].op = "send" /\ calls'[k].view = j) <=> k = n
        BY <4>1, <2>2, <2>4, <1>7
      <4> QED
        BY <4>2, <1>10 DEF Of, Running
    <3> QED
      BY <3>2, <2>3, <2>4, <1>4
  <2>5. CASE j # mounted
    <3>1. {k \in Of(j)' : calls'[k].op = "send"} = {k \in Of(j) : calls[k].op = "send"}
      BY <2>2, <2>5, <1>7, <1>10 DEF Of, Running
    <3> QED
      BY <2>1, <2>3, <2>5, <3>1
  <2> QED
    BY <2>4, <2>5
<1>17. Present'
  BY <1>1, <1>7, <1>8, <1>11, StepPresent
<1>18. StoredIsSeen'
  <2>1. Conversation(v) = Conversation(V)
    BY <1>4 DEF Conversation, ConversationSummary
  <2> QED
    BY <2>1, <1>8, <1>9, <1>10, <1>11, StepStored DEF V
<1>19. Untold'
  BY <1>8, StepUntold DEF Types
<1>20. Followed'
  <2> SUFFICES ASSUME ~disturbed'
               PROVE  FollowedBy(calls', mounted, views'[mounted].active, views'[mounted].messages,
                                 history'[views'[mounted].active])
    BY <1>8 DEF Followed, Shown
  <2>1. views'[mounted] = v
    BY <1>1, <1>9 DEF ViewStep
  <2>2. /\ \A k \in Slots : ~Touches(calls[k], mounted, V.active)
        /\ Alike(V.messages, history[V.active])
    BY <1>1, <1>8, ShownAtRest
  <2>3. \A k \in Slots : calls'[k] = IF k = n THEN c ELSE calls[k]
    BY <1>11 DEF CallStep
  <2>4. Alike(m, Append(history[V.active], HistoryMessage("user", text)))
    <3>1. /\ V.messages \in Seq(Messages) /\ history[V.active] \in Seq(Messages)
          /\ HistoryMessage("user", text) \in Messages
      BY <1>1, <1>2, <1>3, MessageType DEF Types
    <3> QED
      BY <3>1, <2>2, AlikeAppend DEF m
  <2>5. Tells(c, mounted, V.active, m, history[V.active]) /\ Touches(c, mounted, V.active)
    BY <2>4, <1>7 DEF Tells, Touches
  <2>6. FollowedBy(calls', mounted, V.active, m, history[V.active])
    BY <2>2, <2>3, <2>5, <1>10, FollowedOne
  <2> QED
    BY <2>1, <2>6, <1>4, <1>8
<1> QED
  BY <1>12, <1>13, <1>14, <1>15, <1>16, <1>17, <1>18, <1>19, <1>20
\* The dialog that renames concerns a title at most.
LEMMA RenamingKeeps ==
    ASSUME IInv, mounted # 0, NEW v \in ViewSet,
           v.list = views[mounted].list, v.active = views[mounted].active,
           v.messages = views[mounted].messages, v.sending = views[mounted].sending,
           views' = [views EXCEPT ![mounted] = v],
           \/ stored' = Conversation(v)
           \/ stored' = stored /\ v.title = views[mounted].title,
           budget' \in [acts : Nat, views : Nat, troubles : Nat],
           budget'.views = budget.views, budget'.acts <= budget.acts,
           UNCHANGED <<mounted, calls, history, created, disturbed, abandoned>>
    PROVE  IInv'
<1> USE DEF IInv, Base
<1>1. /\ mounted \in 1..Opened /\ views[mounted] \in ViewSet /\ GoodView(views[mounted], created)
  BY ShownView
<1>2. ViewStep(mounted, v) /\ CallStep(0, Idle)
  BY <1>1, OneViewStep, NoCallStep
<1>3. /\ Opened' = Opened /\ Opened \in Nat /\ created \in Nat /\ budget.acts \in Nat
      /\ budget.views \in Nat /\ budget'.acts \in Nat
  BY <1>2, LenProperties DEF ViewStep, Types, Opened
<1>4. stored' = stored => Conversation(v) = Conversation(views[mounted]) \/ stored' = Conversation(v)
  BY DEF Conversation, ConversationSummary
<1>5. Types'
  BY <1>2, StepTypes DEF Types
<1>6. Bounded'
  <2>1. Removing(0, Idle) = 0 /\ Removing(0, calls[0]) = 0
    BY DEF Removing
  <2>2. created' + budget'.views + budget'.acts + Removing(0, Idle) <=
            created + budget.views + budget.acts + Removing(0, calls[0])
    BY <2>1, <1>3
  <2> QED
    BY <2>2, <1>2, <1>3, StepBounded
<1>7. Lists'
  <2>1. GoodView(v, created) /\ mounted # 0
    BY <1>1 DEF GoodView
  <2> QED
    BY <2>1, <1>2, <1>3, StepLists
<1>8. Asked'
  BY <1>2, <1>3, StepAsked
<1>9. SendingMeansAsked'
  BY <1>2, StepSending
<1>10. Present'
  BY <1>2, StepPresent
<1>11. StoredIsSeen'
  BY <1>2, <1>4, StepStored
<1>12. Untold'
  BY <1>3, StepUntold
<1>13. Followed'
  BY <1>2, StepFollowed
<1> QED
  BY <1>5, <1>6, <1>7, <1>8, <1>9, <1>10, <1>11, <1>12, <1>13

LEMMA BudgetType ==
    ASSUME Types, UNCHANGED budget
    PROVE  /\ budget' \in [acts : Nat, views : Nat, troubles : Nat]
           /\ budget'.views = budget.views /\ budget'.acts <= budget.acts
BY DEF Types

LEMMA RenameConversationKeeps ==
    ASSUME IInv, NEW id \in Ids, RenameConversation(id)
    PROVE  IInv'
<1> DEFINE v == [Shown EXCEPT !.renaming = id]
<1>1. mounted # 0 /\ Shown \in ViewSet /\ Shown = views[mounted]
  BY ShownView DEF RenameConversation, IInv, Base
<1>2. /\ v \in ViewSet /\ v.list = Shown.list /\ v.active = Shown.active
      /\ v.messages = Shown.messages /\ v.sending = Shown.sending /\ v.title = Shown.title
  BY <1>1 DEF ViewSet
<1>3. /\ views' = [views EXCEPT ![mounted] = v]
      /\ UNCHANGED <<stored, mounted, calls, history, created, budget, disturbed, abandoned>>
  BY DEF RenameConversation, Update
<1> HIDE DEF v
<1> QED
  BY <1>1, <1>2, <1>3, BudgetType, RenamingKeeps DEF IInv, Base

LEMMA CancelRenameKeeps ==
    ASSUME IInv, CancelRename
    PROVE  IInv'
<1> DEFINE v == [Shown EXCEPT !.renaming = None]
<1>1. mounted # 0 /\ Shown \in ViewSet /\ Shown = views[mounted]
  BY ShownView DEF CancelRename, IInv, Base
<1>2. /\ v \in ViewSet /\ v.list = Shown.list /\ v.active = Shown.active
      /\ v.messages = Shown.messages /\ v.sending = Shown.sending /\ v.title = Shown.title
  BY <1>1 DEF ViewSet
<1>3. /\ views' = [views EXCEPT ![mounted] = v]
      /\ UNCHANGED <<stored, mounted, calls, history, created, budget, disturbed, abandoned>>
  BY DEF CancelRename, Update
<1> HIDE DEF v
<1> QED
  BY <1>1, <1>2, <1>3, BudgetType, RenamingKeeps DEF IInv, Base

LEMMA SubmitRenameKeeps ==
    ASSUME IInv, NEW title \in Titles, SubmitRename(title)
    PROVE  IInv'
<1> DEFINE titles == [Shown.title EXCEPT ![Shown.renaming] = title]
           v == [Shown EXCEPT !.title = titles, !.renaming = None]
<1>1. mounted # 0 /\ Shown \in ViewSet /\ Shown = views[mounted] /\ Types
  BY ShownView DEF SubmitRename, IInv, Base
<1>2. titles \in [Ids -> Titles]
  BY <1>1 DEF ViewSet
<1>3. v = [Shown EXCEPT !.title[Shown.renaming] = title, !.renaming = None]
  OBVIOUS
<1> HIDE DEF titles
<1>4. /\ v \in ViewSet /\ v.list = Shown.list /\ v.active = Shown.active
      /\ v.messages = Shown.messages /\ v.sending = Shown.sending
  BY <1>1, <1>2 DEF ViewSet
<1>5. /\ views' = [views EXCEPT ![mounted] = v]
      /\ stored' = Conversation(v)
      /\ budget.acts > 0 /\ budget' = [budget EXCEPT !.acts = @ - 1]
      /\ UNCHANGED <<mounted, calls, history, created, disturbed, abandoned>>
  BY <1>3 DEF SubmitRename, Update, PersistConversations
<1> HIDE DEF v
<1>6. /\ budget' \in [acts : Nat, views : Nat, troubles : Nat]
      /\ budget'.views = budget.views /\ budget'.acts = budget.acts - 1 /\ budget.acts \in Nat
  BY <1>1, <1>5, ActBudget
<1>7. budget'.acts <= budget.acts
  BY <1>6
<1> QED
  BY <1>1, <1>4, <1>5, <1>6, <1>7, RenamingKeeps
\* A call that is asked takes a slot, and is one that waits for its answer.
LEMMA AskStep ==
    ASSUME Types, Free # {}, NEW i \in Nat, NEW op \in {"history", "replacement", "send", "remove"},
           NEW id \in Ids, NEW text \in Nat, Ask(i, op, id, text)
    PROVE  \E n \in Slots :
              n # 0 /\ calls[n].op = "idle" /\ CallStep(n, Call(i, op, id, text))
<1>1. PICK n \in Free : calls' = [calls EXCEPT ![n] = Call(i, op, id, text)]
  BY AskTakesSlot
<1>2. n \in Slots /\ n # 0 /\ calls[n].op = "idle"
  BY <1>1 DEF Free, Running, Slots
<1>3. Call(i, op, id, text) \in CallSet
  BY CallMade
<1> QED
  BY <1>1, <1>2, <1>3, OneCallStep

\* The messages of another conversation are asked for.
LEMMA SelectConversationKeeps ==
    ASSUME IInv, NEW id \in Ids, SelectConversation(id)
    PROVE  IInv'
<1> USE DEF IInv, Base
<1> DEFINE V == views[mounted]
           v == [V EXCEPT !.active = id, !.messages = <<>>]
           c == Call(mounted, "history", id, None)
<1>1. /\ mounted \in 1..Opened /\ mounted # 0 /\ V = Shown /\ V \in ViewSet /\ GoodView(V, created)
  BY ShownView DEF SelectConversation, Act
<1>2. /\ budget' \in [acts : Nat, views : Nat, troubles : Nat]
      /\ budget'.views = budget.views /\ budget'.acts = budget.acts - 1
      /\ budget.acts \in Nat /\ budget.views \in Nat /\ budget'.acts \in Nat
  BY ActBudget DEF SelectConversation, Act
<1>3. id \in ToSet(V.list) /\ id \in 1..created
  BY <1>1, ListedCreated DEF SelectConversation
<1>4. /\ v \in ViewSet /\ v.list = V.list /\ v.title = V.title /\ v.active = id
      /\ v.messages = <<>> /\ v.sending = V.sending
  <2>1. <<>> \in Seq(Messages)
    OBVIOUS
  <2> QED
    BY <2>1, <1>1 DEF ViewSet
<1>5. views' = [views EXCEPT ![mounted] = v] /\ stored' = Conversation(v)
  BY <1>1 DEF SelectConversation, Update, PersistConversations
<1>6. Free # {} /\ Ask(mounted, "history", id, None)
  BY DEF SelectConversation
<1>7. PICK n \in Slots : n # 0 /\ calls[n].op = "idle" /\ CallStep(n, c)
  BY <1>1, <1>6, AskStep DEF None, Types
<1>8. c.view = mounted /\ c.op = "history" /\ c.id = id /\ c.answer = "sent"
  BY <1>1, CallMade DEF None
<1>9. /\ disturbed' = (Touching(mounted, id) # {})
      /\ UNCHANGED <<created, mounted, history, abandoned>>
  BY <1>1 DEF SelectConversation, Act
<1> HIDE DEF v, c, V
<1>10. ViewStep(mounted, v)
  BY <1>1, <1>4, <1>5, OneViewStep
<1>11. Opened' = Opened /\ Opened \in Nat /\ created \in Nat
  BY <1>10, LenProperties DEF ViewStep, Types, Opened
<1>12. Types'
  BY <1>2, <1>5, <1>7, <1>9, <1>10, StepTypes DEF Types
<1>13. Bounded'
  <2>1. Removing(n, c) = 0 /\ Removing(n, calls[n]) = 0
    BY <1>7, <1>8 DEF Removing
  <2>2. created' + budget'.views + budget'.acts + Removing(n, c) <=
            created + budget.views + budget.acts + Removing(n, calls[n])
    BY <2>1, <1>2, <1>9, <1>11
  <2> QED
    BY <2>2, <1>2, <1>7, <1>9, <1>11, StepBounded
<1>14. Lists'
  <2>1. GoodView(v, created)
    BY <1>1, <1>3, <1>4 DEF GoodView, ToSet
  <2> QED
    BY <2>1, <1>1, <1>5, <1>9, <1>10, <1>11, StepLists
<1>15. Asked'
  <2>1. GoodCall(c, Opened, created)
    BY <1>1, <1>3, <1>8 DEF GoodCall
  <2> QED
    BY <2>1, <1>7, <1>9, <1>11, StepAsked
<1>16. SendingMeansAsked'
  BY <1>4, <1>7, <1>8, <1>10, StepSending DEF V
<1>17. Present'
  BY <1>1, <1>7, <1>8, <1>9, StepPresent
<1>18. StoredIsSeen'
  BY <1>5, <1>7, <1>9, <1>10, StepStored
<1>19. Untold'
  BY <1>9, <1>11, StepUntold
<1>20. Followed'
  <2> SUFFICES ASSUME ~disturbed'
               PROVE  FollowedBy(calls', mounted, views'[mounted].active, views'[mounted].messages,
                                 history'[views'[mounted].active])
    BY <1>9 DEF Followed, Shown
  <2>1. views'[mounted] = v
    BY <1>1, <1>10 DEF ViewStep
  <2>2. \A k \in Slots : ~Touches(calls[k], mounted, id)
    BY <1>9, TouchingCalls
  <2>3. \A k \in Slots : calls'[k] = IF k = n THEN c ELSE calls[k]
    BY <1>7 DEF CallStep
  <2>4. Tells(c, mounted, id, v.messages, history[id]) /\ Touches(c, mounted, id)
    BY <1>8 DEF Tells, Touches
  <2>5. FollowedBy(calls', mounted, id, v.messages, history[id])
    BY <2>2, <2>3, <2>4, <1>7, FollowedOne
  <2> QED
    BY <2>1, <2>5, <1>4, <1>9
<1> QED
  BY <1>12, <1>13, <1>14, <1>15, <1>16, <1>17, <1>18, <1>19, <1>20

\* A new conversation has no messages, neither here nor on the server.
LEMMA NewConversationKeeps ==
    ASSUME IInv, NewConversation
    PROVE  IInv'
<1> USE DEF IInv, Base
<1> DEFINE V == views[mounted]
           id == created + 1
           longer == <<id>> \o V.list
           v == [V EXCEPT !.list = longer, !.active = id, !.messages = <<>>]
<1>1. /\ mounted \in 1..Opened /\ mounted # 0 /\ V = Shown /\ V \in ViewSet /\ GoodView(V, created)
  BY ShownView DEF NewConversation, Act
<1>2. /\ budget' \in [acts : Nat, views : Nat, troubles : Nat]
      /\ budget'.views = budget.views /\ budget'.acts = budget.acts - 1 /\ budget.acts > 0
      /\ budget.acts \in Nat /\ budget.views \in Nat /\ budget'.acts \in Nat
  BY ActBudget DEF NewConversation, Act
<1>3. id \in Ids /\ created \in Nat
  BY <1>2, FreshId DEF Types
<1>4. /\ longer \in Seq(Ids) /\ GoodList(longer, id)
      /\ \E k \in DOMAIN longer : longer[k] = id
  <2>1. V.list \in Seq(Ids) /\ GoodList(V.list, created)
    BY <1>1 DEF ViewSet, GoodView
  <2> QED
    BY <2>1, <1>3, LongerList
<1> HIDE DEF longer
<1>5. /\ v \in ViewSet /\ v.list = longer /\ v.active = id
      /\ v.messages = <<>> /\ v.sending = V.sending
  <2>1. <<>> \in Seq(Messages)
    OBVIOUS
  <2> QED
    BY <2>1, <1>1, <1>3, <1>4 DEF ViewSet
<1>6. views' = [views EXCEPT ![mounted] = v] /\ stored' = Conversation(v)
  BY <1>1 DEF NewConversation, Update, PersistConversations, longer
<1>7. /\ disturbed' = (Touching(mounted, id) # {}) /\ created' = id
      /\ UNCHANGED <<calls, mounted, history, abandoned>>
  BY <1>1 DEF NewConversation, Act
<1>8. created' \in Nat /\ created <= created' /\ id > created
  BY <1>3, <1>7
<1>9. id = created + 1
  OBVIOUS
<1> HIDE DEF v, V, id
<1>10. ViewStep(mounted, v) /\ CallStep(0, Idle)
  BY <1>1, <1>5, <1>6, <1>7, OneViewStep, NoCallStep
<1>11. Opened' = Opened /\ Opened \in Nat
  BY <1>10, LenProperties DEF ViewStep, Types, Opened
<1>12. Types'
  BY <1>2, <1>6, <1>7, <1>8, <1>10, StepTypes DEF Types
<1>13. Bounded'
  <2>1. Removing(0, Idle) = 0 /\ Removing(0, calls[0]) = 0
    BY DEF Removing
  <2>2. created' + budget'.views + budget'.acts + Removing(0, Idle) <=
            created + budget.views + budget.acts + Removing(0, calls[0])
    BY <2>1, <1>2, <1>3, <1>7, <1>9
  <2> QED
    BY <2>2, <1>2, <1>8, <1>10, StepBounded
<1>14. Lists'
  <2>1. GoodView(v, created')
    BY <1>4, <1>5, <1>7 DEF GoodView
  <2> QED
    BY <2>1, <1>1, <1>6, <1>8, <1>10, StepLists
<1>15. Asked'
  BY <1>8, <1>10, <1>11, StepAsked
<1>16. SendingMeansAsked'
  BY <1>5, <1>10, StepSending DEF V
<1>17. Present'
  BY <1>7, <1>10, StepPresent
<1>18. StoredIsSeen'
  BY <1>6, <1>7, <1>10, StepStored
<1>19. Untold'
  BY <1>7, <1>8, StepUntold
<1>20. Followed'
  <2> SUFFICES ASSUME ~disturbed'
               PROVE  FollowedBy(calls', mounted, views'[mounted].active, views'[mounted].messages,
                                 history'[views'[mounted].active])
    BY <1>7 DEF Followed, Shown
  <2>1. views'[mounted] = v
    BY <1>1, <1>10 DEF ViewStep
  <2>2. \A k \in Slots : ~Touches(calls[k], mounted, id)
    BY <1>7, TouchingCalls
  <2>3. history[id] = <<>>
    BY <1>3, <1>8 DEF Untold
  <2>4. FollowedBy(calls, mounted, id, v.messages, history[id])
    BY <2>2, <2>3, <1>5, AlikeSame DEF FollowedBy
  <2> QED
    BY <2>1, <2>4, <1>5, <1>7
<1> QED
  BY <1>12, <1>13, <1>14, <1>15, <1>16, <1>17, <1>18, <1>19, <1>20

LEMMA RemoveConversationKeeps ==
    ASSUME IInv, NEW id \in Ids, RemoveConversation(id)
    PROVE  IInv'
<1> USE DEF IInv, Base
<1> DEFINE V == views[mounted]
           c == Call(mounted, "remove", id, None)
<1>1. /\ mounted \in 1..Opened /\ mounted # 0 /\ V = Shown /\ V \in ViewSet /\ GoodView(V, created)
  BY ShownView DEF RemoveConversation, Act
<1>2. /\ budget' \in [acts : Nat, views : Nat, troubles : Nat]
      /\ budget'.views = budget.views /\ budget'.acts = budget.acts - 1
      /\ budget.acts \in Nat /\ budget.views \in Nat /\ budget'.acts \in Nat
  BY ActBudget DEF RemoveConversation, Act
<1>3. id \in 1..created
  BY <1>1, ListedCreated DEF RemoveConversation
<1>4. Free # {} /\ Ask(mounted, "remove", id, None)
  BY DEF RemoveConversation
<1>5. PICK n \in Slots : n # 0 /\ calls[n].op = "idle" /\ CallStep(n, c)
  BY <1>1, <1>4, AskStep DEF None, Types
<1>6. c.view = mounted /\ c.op = "remove" /\ c.id = id /\ c.answer = "sent"
  BY <1>1, CallMade DEF None
<1>7. /\ disturbed' = (disturbed \/ (id = V.active /\ Touching(mounted, id) # {}))
      /\ UNCHANGED <<stored, views, created, mounted, history, abandoned>>
  BY <1>1 DEF RemoveConversation, Act
<1> HIDE DEF c, V
<1>8. ViewStep(0, V)
  BY <1>1, <1>7, NoViewStep
<1>9. Opened' = Opened /\ Opened \in Nat /\ created \in Nat
  BY <1>8, LenProperties DEF ViewStep, Types, Opened
<1>10. Types'
  BY <1>2, <1>5, <1>7, <1>8, StepTypes DEF Types
<1>11. Bounded'
  <2>1. Removing(n, c) = 1 /\ Removing(n, calls[n]) = 0
    BY <1>5, <1>6 DEF Removing
  <2>2. created' + budget'.views + budget'.acts + Removing(n, c) <=
            created + budget.views + budget.acts + Removing(n, calls[n])
    BY <2>1, <1>2, <1>7, <1>9
  <2> QED
    BY <2>2, <1>2, <1>5, <1>7, <1>9, StepBounded
<1>12. Lists'
  BY <1>7, <1>8, <1>9, StepLists
<1>13. Asked'
  <2>1. GoodCall(c, Opened, created)
    BY <1>1, <1>3, <1>6 DEF GoodCall
  <2> QED
    BY <2>1, <1>5, <1>7, <1>9, StepAsked
<1>14. SendingMeansAsked'
  BY <1>5, <1>6, <1>8, StepSending
<1>15. Present'
  BY <1>1, <1>5, <1>6, <1>7, StepPresent
<1>16. StoredIsSeen'
  BY <1>1, <1>5, <1>7, <1>8, StepStored
<1>17. Untold'
  BY <1>7, <1>9, StepUntold
<1>18. Followed'
  <2> SUFFICES ASSUME ~disturbed'
               PROVE  Followed'
    BY DEF Followed
  <2>1. CASE id # V.active
    <3>1. ~Touches(c, mounted, V.active) /\ ~Touches(calls[n], mounted, V.active)
      BY <2>1, <1>5, <1>6 DEF Touches
    <3> QED
      BY <3>1, <1>1, <1>5, <1>7, <1>8, StepFollowed DEF V
  <2>2. CASE id = V.active
    <3>1. /\ \A k \in Slots : ~Touches(calls[k], mounted, V.active)
          /\ Alike(V.messages, history[V.active])
      BY <2>2, <1>1, <1>7, ShownAtRest
    <3>2. \A k \in Slots : calls'[k] = IF k = n THEN c ELSE calls[k]
      BY <1>5 DEF CallStep
    <3>3. Tells(c, mounted, V.active, V.messages, history[V.active]) /\ Touches(c, mounted, V.active)
      BY <3>1, <2>2, <1>6 DEF Tells, Touches
    <3>4. FollowedBy(calls', mounted, V.active, V.messages, history[V.active])
      BY <3>1, <3>2, <3>3, <1>5, FollowedOne
    <3> QED
      BY <3>4, <1>7 DEF Followed, Shown, V
  <2> QED
    BY <2>1, <2>2
<1> QED
  BY <1>10, <1>11, <1>12, <1>13, <1>14, <1>15, <1>16, <1>17, <1>18
------------------------------------------------------------------------------
(* The handlers that go on.                                                  *)

LEMMA StepBase ==
    ASSUME Base, NEW i, NEW v, ViewStep(i, v), NEW n, NEW c, CallStep(n, c),
           created' \in Nat, created <= created',
           i # 0 => GoodView(v, created'),
           \/ UNCHANGED stored
           \/ stored' = Conversation(v) /\ i # 0,
           n # 0 /\ c.op # "idle" => GoodCall(c, Opened, created'),
           created' + Removing(n, c) <= created + Removing(n, calls[n]),
           budget' \in [acts : Nat, views : Nat, troubles : Nat],
           budget'.views = budget.views, budget'.acts <= budget.acts,
           history' \in [Ids -> Seq(Messages)], disturbed' \in BOOLEAN,
           UNCHANGED <<mounted, abandoned>>
    PROVE  Base'
<1> USE DEF Base
<1>1. Opened' = Opened /\ Opened \in Nat
  BY LenProperties DEF ViewStep, Types, Opened
<1>2. Types'
  BY StepTypes DEF Types
<1>3. Bounded'
  <2>1. /\ created \in Nat /\ budget.views \in Nat /\ budget'.views \in Nat
        /\ budget.acts \in Nat /\ budget'.acts \in Nat
        /\ Removing(n, c) \in Nat /\ Removing(n, calls[n]) \in Nat
    BY DEF Types, Removing
  <2>2. created' + budget'.views + budget'.acts + Removing(n, c) <=
            created + budget.views + budget.acts + Removing(n, calls[n])
    BY <2>1
  <2> QED
    BY <2>1, <2>2, StepBounded
<1>4. Lists'
  BY StepLists
<1>5. Asked'
  BY <1>1, StepAsked
<1> QED
  BY <1>2, <1>3, <1>4, <1>5

\* A handler that ends, or whose call has not been a removal, uses up nothing.
LEMMA DropStep ==
    ASSUME Types, NEW n \in Slots, Drop(n)
    PROVE  /\ CallStep(n, Idle) /\ n # 0
           /\ Removing(n, Idle) = 0 /\ Removing(n, calls[n]) \in Nat
           /\ \A i, id : ~Touches(Idle, i, id)
<1>1. CallStep(n, Idle) /\ n # 0
  <2>1. CallStep(n, Idle)
    BY IdleType, OneCallStep DEF Drop
  <2>2. n # 0
    BY DEF Slots
  <2> QED
    BY <2>1, <2>2
<1>2. \A i, id : ~Touches(Idle, i, id)
  BY IdleType DEF Touches
<1> QED
  BY <1>1, <1>2, IdleType DEF Removing

\* A call that touches the conversation that is shown is the only one; the page is
\* that of the call.
LEMMA TouchingAlone ==
    ASSUME IInv, mounted # 0, ~disturbed, NEW n \in Slots,
           Touches(calls[n], mounted, views[mounted].active)
    PROVE  /\ Tells(calls[n], mounted, views[mounted].active, views[mounted].messages,
                    history[views[mounted].active])
           /\ \A k \in Slots : k # n => ~Touches(calls[k], mounted, views[mounted].active)
BY DEF IInv, Followed, FollowedBy, Shown

\* The call of a handler that goes on, when its view is the one that is shown and the
\* call is not a removal, touches it; when it failed, it does not.
LEMMA ReturnedTouches ==
    ASSUME IInv, mounted # 0, ~disturbed, NEW n \in Slots, Returned(n)
    PROVE  /\ calls[n].answer = "failure" => ~Touches(calls[n], mounted, views[mounted].active)
           /\ calls[n].op \in {"history", "replacement", "send"} /\ calls[n].view = mounted =>
                 Touches(calls[n], mounted, views[mounted].active)
           /\ calls[n].view # mounted => ~Touches(calls[n], mounted, views[mounted].active)
<1>1. calls[n].answer = "failure" => ~Touches(calls[n], mounted, views[mounted].active)
  BY TouchingAlone DEF Tells
<1>2. calls[n].view # mounted => ~Touches(calls[n], mounted, views[mounted].active)
  BY TouchingAlone DEF Tells
<1> QED
  BY <1>1, <1>2 DEF Touches

\* A text that is answered, or fails, was the only one its view waited for.
LEMMA SendEnds ==
    ASSUME Types, SendingMeansAsked, NEW n \in Slots, calls[n].op = "send", CallStep(n, Idle),
           NEW v, ViewStep(calls[n].view, v), calls[n].view # 0, v.sending = FALSE
    PROVE  SendingMeansAsked'
<1> DEFINE i == calls[n].view
<1>1. /\ \A k \in Slots : calls'[k] = IF k = n THEN Idle ELSE calls[k]
      /\ Idle.op = "idle" /\ Opened' = Opened
  BY IdleType DEF CallStep, ViewStep
<1> SUFFICES ASSUME NEW j \in 1..Opened
             PROVE  LET asked == {k \in Of(j)' : calls'[k].op = "send"}
                    IN  /\ views'[j].sending <=> asked # {}
                        /\ \A k, l \in asked : k = l
  BY <1>1 DEF SendingMeansAsked, Of, Running
<1>2. /\ views[j].sending <=> {k \in Of(j) : calls[k].op = "send"} # {}
      /\ \A k, l \in {q \in Of(j) : calls[q].op = "send"} : k = l
  BY DEF SendingMeansAsked
<1>3. views'[j] = IF j = i THEN v ELSE views[j]
  BY DEF ViewStep
<1>4. CASE j = i
  <2>1. n \in {q \in Of(j) : calls[q].op = "send"}
    BY <1>4 DEF Of, Running
  <2>2. {k \in Of(j)' : calls'[k].op = "send"} = {}
    BY <2>1, <1>1, <1>2 DEF Of, Running
  <2> QED
    BY <2>2, <1>3, <1>4
<1>5. CASE j # i
  <2>1. {k \in Of(j)' : calls'[k].op = "send"} = {k \in Of(j) : calls[k].op = "send"}
    BY <1>1, <1>5 DEF Of, Running
  <2> QED
    BY <2>1, <1>2, <1>3, <1>5
<1> QED
  BY <1>4, <1>5

LEMMA RemoveFailedKeeps ==
    ASSUME IInv, NEW n \in Slots, RemoveFailed(n)
    PROVE  IInv'
<1> USE DEF IInv
<1>1. /\ Returned(n) /\ calls[n].op = "remove" /\ calls[n].answer = "failure" /\ Drop(n)
      /\ UNCHANGED <<mounted, history, budget, abandoned, stored, views, created, disturbed>>
  BY DEF RemoveFailed, Same
<1>2. PICK v : v \in ViewSet /\ v = Its(n)
  BY <1>1, ItsView DEF Base
<1>3. ViewStep(0, v) /\ CallStep(n, Idle) /\ n # 0 /\ Idle.op = "idle"
  BY <1>1, <1>2, NoViewStep, DropStep, IdleType DEF Base
<1>4. Base'
  <2>1. created \in Nat /\ budget.acts \in Nat /\ Removing(n, Idle) = 0 /\ Removing(n, calls[n]) \in Nat
    BY <1>1, DropStep DEF Base, Types
  <2>2. created + Removing(n, Idle) <= created + Removing(n, calls[n]) /\ budget.acts <= budget.acts
    BY <2>1
  <2> QED
    BY <1>1, <1>3, <2>1, <2>2, StepBase DEF Base, Types
<1>5. SendingMeansAsked'
  BY <1>1, <1>3, StepSending DEF Base
<1>6. Present'
  BY <1>1, <1>3, StepPresent DEF Base
<1>7. StoredIsSeen'
  BY <1>1, <1>3, StepStored DEF Base
<1>8. Untold'
  BY <1>1, StepUntold DEF Base, Types
<1>9. Followed'
  BY <1>1, <1>3, DropStep, ReturnedTouches, StepFollowed DEF Base
<1> QED
  BY <1>4, <1>5, <1>6, <1>7, <1>8, <1>9

LEMMA SendFailedKeeps ==
    ASSUME IInv, NEW n \in Slots, SendFailed(n)
    PROVE  IInv'
<1> USE DEF IInv
<1> DEFINE i == calls[n].view
           v == [Its(n) EXCEPT !.sending = FALSE]
<1>1. /\ Returned(n) /\ calls[n].op = "send" /\ calls[n].answer = "failure" /\ Drop(n)
      /\ views' = [views EXCEPT ![i] = v]
      /\ UNCHANGED <<mounted, history, budget, abandoned, stored, created, disturbed>>
  BY DEF SendFailed, Same, Change
<1>2. /\ i \in 1..Opened /\ i # 0 /\ Its(n) \in ViewSet /\ Its(n) = views[i]
      /\ GoodView(views[i], created)
  BY <1>1, ItsView DEF Base
<1>3. /\ v \in ViewSet /\ v.list = views[i].list /\ v.active = views[i].active
      /\ v.messages = views[i].messages /\ v.sending = FALSE /\ v.title = views[i].title
  BY <1>2 DEF ViewSet
<1> HIDE DEF v
<1>4. ViewStep(i, v) /\ CallStep(n, Idle) /\ n # 0 /\ Idle.op = "idle"
  BY <1>1, <1>2, <1>3, OneViewStep, DropStep, IdleType DEF Base
<1>5. Base'
  <2>1. created \in Nat /\ budget.acts \in Nat /\ Removing(n, Idle) = 0 /\ Removing(n, calls[n]) \in Nat
    BY <1>1, DropStep DEF Base, Types
  <2>2. created + Removing(n, Idle) <= created + Removing(n, calls[n]) /\ budget.acts <= budget.acts
    BY <2>1
  <2>3. GoodView(v, created)
    BY <1>2, <1>3 DEF GoodView
  <2> QED
    BY <1>1, <1>4, <2>1, <2>2, <2>3, StepBase DEF Base, Types
<1>6. SendingMeansAsked'
  BY <1>1, <1>2, <1>3, <1>4, SendEnds DEF Base
<1>7. Present'
  BY <1>1, <1>4, StepPresent DEF Base
<1>8. StoredIsSeen'
  <2>1. Conversation(v) = Conversation(views[i])
    BY <1>3 DEF Conversation, ConversationSummary
  <2> QED
    BY <2>1, <1>1, <1>4, StepStored DEF Base
<1>9. Untold'
  BY <1>1, StepUntold DEF Base, Types
<1>10. Followed'
  BY <1>1, <1>3, <1>4, DropStep, ReturnedTouches, StepFollowed DEF Base
<1> QED
  BY <1>5, <1>6, <1>7, <1>8, <1>9, <1>10
LEMMA SendAnsweredKeeps ==
    ASSUME IInv, NEW n \in Slots, SendAnswered(n)
    PROVE  IInv'
<1> USE DEF IInv
<1> DEFINE i == calls[n].view
           V == views[i]
           titled == ActiveConversation(V)
           untitled == V.title[titled] = "new"
           titles == [V.title EXCEPT ![titled] = IF untitled THEN "auto" ELSE @]
           m == Append(V.messages, ChatResponse(calls[n].text))
           v == [V EXCEPT !.messages = m, !.sending = FALSE, !.title = titles]
<1>1. /\ Returned(n) /\ calls[n].op = "send" /\ calls[n].answer = "answer" /\ Drop(n)
      /\ UNCHANGED <<mounted, history, budget, abandoned, created, disturbed>>
  BY DEF SendAnswered, Same
<1>2. /\ i \in 1..Opened /\ i # 0 /\ V \in ViewSet /\ Its(n) = V /\ GoodView(V, created)
      /\ V.active \in Ids /\ V.active \in ToSet(V.list)
  BY <1>1, ItsView, ActiveCreated DEF Base
<1>3. titled \in Ids
  BY <1>2 DEF ActiveConversation
<1>4. v = [V EXCEPT !.messages = Append(@, ChatResponse(calls[n].text)), !.sending = FALSE,
                    !.title[titled] = IF untitled THEN "auto" ELSE @]
  BY <1>2
<1>5. /\ views' = [views EXCEPT ![i] = v]
      /\ IF untitled THEN stored' = Conversation(v) ELSE UNCHANGED stored
  BY <1>2, <1>4 DEF SendAnswered, Change, PersistConversations
<1>6. titles \in [Ids -> Titles] /\ (~untitled => titles = V.title)
  <2>1. V.title \in [Ids -> Titles]
    BY <1>2 DEF ViewSet
  <2> HIDE DEF V, titled
  <2> QED
    BY <2>1, <1>3 DEF Titles
<1> HIDE DEF titles, untitled, titled
<1>7. m \in Seq(Messages)
  <2>1. V.messages \in Seq(Messages) /\ ChatResponse(calls[n].text) \in Messages
    BY <1>2, CallType, MessageType DEF ViewSet, Base, ChatResponse
  <2> QED
    BY <2>1
<1> HIDE DEF m
<1>8. /\ v \in ViewSet /\ v.list = V.list /\ v.active = V.active
      /\ v.messages = m /\ v.sending = FALSE /\ v.title = titles
  BY <1>2, <1>6, <1>7 DEF ViewSet
<1> HIDE DEF v
<1>9. ViewStep(i, v) /\ CallStep(n, Idle) /\ n # 0 /\ Idle.op = "idle"
  BY <1>1, <1>2, <1>5, <1>8, OneViewStep, DropStep, IdleType DEF Base
<1>10. Base'
  <2>1. created \in Nat /\ budget.acts \in Nat /\ Removing(n, Idle) = 0 /\ Removing(n, calls[n]) \in Nat
    BY <1>1, DropStep DEF Base, Types
  <2>2. created + Removing(n, Idle) <= created + Removing(n, calls[n]) /\ budget.acts <= budget.acts
    BY <2>1
  <2>3. GoodView(v, created)
    BY <1>2, <1>8 DEF GoodView
  <2> QED
    BY <1>1, <1>2, <1>5, <1>9, <2>1, <2>2, <2>3, StepBase DEF Base, Types
<1>11. SendingMeansAsked'
  BY <1>1, <1>2, <1>8, <1>9, SendEnds DEF Base
<1>12. Present'
  BY <1>1, <1>9, StepPresent DEF Base
<1>13. StoredIsSeen'
  <2>1. ~untitled => Conversation(v) = Conversation(V)
    BY <1>6, <1>8 DEF Conversation, ConversationSummary
  <2>2. ~abandoned => i = mounted
    BY <1>1 DEF Present
  <2> QED
    BY <2>1, <2>2, <1>1, <1>5, <1>9, StepStored DEF Base
<1>14. Untold'
  BY <1>1, StepUntold DEF Base, Types
<1>15. Followed'
  <2>1. CASE mounted # 0 /\ ~disturbed /\ i = mounted
    <3>1. Touches(calls[n], mounted, V.active)
      BY <2>1, <1>1, ReturnedTouches
    <3>2. /\ Alike(m, history[V.active])
          /\ \A k \in Slots : k # n => ~Touches(calls[k], mounted, V.active)
      BY <3>1, <2>1, <1>1, TouchingAlone DEF Tells, m, Alike
    <3>3. views'[mounted] = v /\ \A k \in Slots : calls'[k] = IF k = n THEN Idle ELSE calls[k]
      BY <2>1, <1>2, <1>9 DEF ViewStep, CallStep
    <3>4. \A k \in Slots : ~Touches(calls'[k], mounted, V.active)
      BY <3>2, <3>3, <1>1, DropStep DEF Base
    <3>5. FollowedBy(calls', mounted, V.active, m, history[V.active])
      BY <3>2, <3>4 DEF FollowedBy
    <3> QED
      BY <3>3, <3>5, <1>1, <1>8 DEF Followed, Shown
  <2>2. CASE ~(mounted # 0 /\ ~disturbed /\ i = mounted)
    BY <2>2, <1>1, <1>9, DropStep, ReturnedTouches, StepFollowed DEF Base
  <2> QED
    BY <2>1, <2>2
<1> QED
  BY <1>10, <1>11, <1>12, <1>13, <1>14, <1>15

LEMMA HistoryLoadedKeeps ==
    ASSUME IInv, NEW n \in Slots, HistoryLoaded(n)
    PROVE  IInv'
<1> USE DEF IInv
<1> DEFINE i == calls[n].view
           V == views[i]
           m == IF calls[n].answer = "answer" THEN calls[n].value ELSE V.messages
           v == [V EXCEPT !.messages = m]
<1>1. /\ Returned(n) /\ calls[n].op \in {"history", "replacement"} /\ Drop(n)
      /\ UNCHANGED <<mounted, history, budget, abandoned, created, disturbed>>
  BY DEF HistoryLoaded, Same
<1>2. /\ i \in 1..Opened /\ i # 0 /\ V \in ViewSet /\ Its(n) = V /\ GoodView(V, created)
      /\ calls[n].answer \in {"answer", "failure"}
  <2>1. calls[n].answer \in {"none", "sent", "answer", "failure"} /\ calls[n].answer # "sent"
    BY <1>1, CallType DEF Returned, Base
  <2> QED
    BY <2>1, <1>1, ItsView DEF Base, GoodCall
<1>3. v = IF calls[n].answer = "answer" THEN [V EXCEPT !.messages = calls[n].value] ELSE V
  BY <1>2 DEF ViewSet
<1>4. /\ views' = [views EXCEPT ![i] = v]
      /\ IF calls[n].op = "replacement" THEN stored' = Conversation(v) ELSE UNCHANGED stored
  BY <1>2, <1>3 DEF HistoryLoaded, Change, PersistConversations
<1>5. m \in Seq(Messages)
  BY <1>2, CallType DEF ViewSet, Base
<1> HIDE DEF m
<1>6. /\ v \in ViewSet /\ v.list = V.list /\ v.active = V.active
      /\ v.messages = m /\ v.sending = V.sending /\ v.title = V.title
  BY <1>2, <1>5 DEF ViewSet
<1> HIDE DEF v
<1>7. ViewStep(i, v) /\ CallStep(n, Idle) /\ n # 0 /\ Idle.op = "idle"
  BY <1>1, <1>2, <1>4, <1>6, OneViewStep, DropStep, IdleType DEF Base
<1>8. Base'
  <2>1. created \in Nat /\ budget.acts \in Nat /\ Removing(n, Idle) = 0 /\ Removing(n, calls[n]) \in Nat
    BY <1>1, DropStep DEF Base, Types
  <2>2. created + Removing(n, Idle) <= created + Removing(n, calls[n]) /\ budget.acts <= budget.acts
    BY <2>1
  <2>3. GoodView(v, created)
    BY <1>2, <1>6 DEF GoodView
  <2> QED
    BY <1>1, <1>2, <1>4, <1>7, <2>1, <2>2, <2>3, StepBase DEF Base, Types
<1>9. SendingMeansAsked'
  BY <1>1, <1>6, <1>7, StepSending DEF Base
<1>10. Present'
  BY <1>1, <1>7, StepPresent DEF Base
<1>11. StoredIsSeen'
  <2>1. Conversation(v) = Conversation(V)
    BY <1>6 DEF Conversation, ConversationSummary
  <2>2. ~abandoned => i = mounted
    BY <1>1 DEF Present
  <2> QED
    BY <2>1, <2>2, <1>1, <1>4, <1>7, StepStored DEF Base
<1>12. Untold'
  BY <1>1, StepUntold DEF Base, Types
<1>13. Followed'
  <2>1. CASE mounted # 0 /\ ~disturbed /\ i = mounted
    <3>1. Touches(calls[n], mounted, V.active)
      BY <2>1, <1>1, ReturnedTouches
    <3>2. /\ history[V.active] = m
          /\ \A k \in Slots : k # n => ~Touches(calls[k], mounted, V.active)
      BY <3>1, <2>1, <1>1, <1>2, TouchingAlone DEF Tells, m
    <3>3. views'[mounted] = v /\ \A k \in Slots : calls'[k] = IF k = n THEN Idle ELSE calls[k]
      BY <2>1, <1>2, <1>7 DEF ViewStep, CallStep
    <3>4. \A k \in Slots : ~Touches(calls'[k], mounted, V.active)
      BY <3>2, <3>3, <1>1, DropStep DEF Base
    <3>5. FollowedBy(calls', mounted, V.active, m, history[V.active])
      BY <3>2, <3>4, AlikeSame DEF FollowedBy
    <3> QED
      BY <3>3, <3>5, <1>1, <1>6 DEF Followed, Shown
  <2>2. CASE ~(mounted # 0 /\ ~disturbed /\ i = mounted)
    BY <2>2, <1>1, <1>7, DropStep, ReturnedTouches, StepFollowed DEF Base
  <2> QED
    BY <2>1, <2>2
<1> QED
  BY <1>8, <1>9, <1>10, <1>11, <1>12, <1>13
\* A removal of another conversation than the active one.
LEMMA RemovedOtherKeeps ==
    ASSUME IInv, NEW n \in Slots, Removed(n), calls[n].id # views[calls[n].view].active
    PROVE  IInv'
<1> USE DEF IInv
<1> DEFINE i == calls[n].view
           V == views[i]
           rest == Without(V.list, calls[n].id)
           v == [V EXCEPT !.list = rest]
<1>1. Returned(n) /\ calls[n].op = "remove"
  BY DEF Removed
<1>2. /\ i \in 1..Opened /\ i # 0 /\ V \in ViewSet /\ Its(n) = V /\ GoodView(V, created)
      /\ created \in Nat
  BY <1>1, ItsView DEF Base, Types
<1>3. /\ views' = [views EXCEPT ![i] = v] /\ stored' = Conversation(v) /\ Drop(n)
      /\ UNCHANGED <<mounted, history, budget, abandoned, created, disturbed>>
  BY <1>2 DEF Removed, Change, PersistConversations, Same
<1>4. V.list \in Seq(Ids) /\ GoodList(V.list, created)
  BY <1>2 DEF ViewSet, GoodView
<1>5. rest \in Seq(Ids) /\ (rest # <<>> => GoodList(rest, created))
  BY <1>2, <1>4, WithoutList
<1>6. \E j \in DOMAIN rest : rest[j] = V.active
  <2>1. V.active \in ToSet(V.list)
    BY <1>2, ActiveCreated DEF Base
  <2>2. V.active # calls[n].id
    OBVIOUS
  <2>3. V.active \in ToSet(rest)
    BY <2>1, <2>2, <1>2, <1>4, StaysListed
  <2> HIDE DEF rest
  <2> QED
    BY <2>3 DEF ToSet
<1> HIDE DEF rest
<1>7. GoodList(rest, created)
  <2>1. rest # <<>>
    BY <1>5, <1>6, SeqDomain
  <2> QED
    BY <2>1, <1>5
<1>8. /\ v \in ViewSet /\ v.list = rest /\ v.active = V.active
      /\ v.messages = V.messages /\ v.sending = V.sending
  BY <1>2, <1>5 DEF ViewSet
<1>9. GoodView(v, created)
  BY <1>6, <1>7, <1>8 DEF GoodView
<1> HIDE DEF v
<1>10. ViewStep(i, v) /\ CallStep(n, Idle) /\ n # 0 /\ Idle.op = "idle"
  BY <1>2, <1>3, <1>8, OneViewStep, DropStep, IdleType DEF Base
<1>11. Base'
  <2>1. budget.acts \in Nat /\ Removing(n, Idle) = 0 /\ Removing(n, calls[n]) \in Nat
    BY <1>3, DropStep DEF Base, Types
  <2>2. created + Removing(n, Idle) <= created + Removing(n, calls[n]) /\ budget.acts <= budget.acts
    BY <2>1, <1>2
  <2> QED
    BY <1>2, <1>3, <1>9, <1>10, <2>1, <2>2, StepBase DEF Base, Types
<1>12. SendingMeansAsked'
  BY <1>1, <1>8, <1>10, StepSending DEF Base
<1>13. Present'
  BY <1>3, <1>10, StepPresent DEF Base
<1>14. StoredIsSeen'
  <2>1. ~abandoned => i = mounted
    BY <1>1 DEF Present
  <2> QED
    BY <2>1, <1>3, <1>10, StepStored DEF Base
<1>15. Untold'
  BY <1>2, <1>3, StepUntold DEF Base
<1>16. Followed'
  <2>1. i = mounted => ~Touches(calls[n], mounted, V.active)
    BY <1>1 DEF Touches
  <2> QED
    BY <2>1, <1>1, <1>3, <1>8, <1>10, DropStep, ReturnedTouches, StepFollowed DEF Base
<1> QED
  BY <1>11, <1>12, <1>13, <1>14, <1>15, <1>16

\* A removal of the active conversation: a neighbour, or a new one, takes its place.
LEMMA RemovedActiveKeeps ==
    ASSUME IInv, NEW n \in Slots, Removed(n), calls[n].id = views[calls[n].view].active
    PROVE  IInv'
<1> USE DEF IInv
<1> DEFINE i == calls[n].view
           V == views[i]
           rest == Without(V.list, calls[n].id)
           next == Neighbour(rest, PlaceOf(V.list, calls[n].id), created + 1)
           list == IF rest = <<>> THEN <<next>> ELSE rest
           v == [V EXCEPT !.list = list, !.active = next, !.messages = <<>>]
           c == Call(i, "replacement", next, None)
<1>1. Returned(n) /\ calls[n].op = "remove"
  BY DEF Removed
<1>2. /\ i \in 1..Opened /\ i # 0 /\ V \in ViewSet /\ Its(n) = V /\ GoodView(V, created)
      /\ created \in Nat /\ n # 0
  BY <1>1, ItsView DEF Base, Types, Slots
<1>3. /\ views' = [views EXCEPT ![i] = v]
      /\ created' = IF next = created + 1 THEN next ELSE created
      /\ calls' = [calls EXCEPT ![n] = c]
      /\ disturbed' = (disturbed \/ Touching(i, next) \ {n} # {})
      /\ UNCHANGED <<mounted, history, budget, abandoned, stored>>
  BY <1>2 DEF Removed, Change, Same
<1>4. V.list \in Seq(Ids) /\ GoodList(V.list, created)
  BY <1>2 DEF ViewSet, GoodView
<1>5. /\ rest \in Seq(Ids) /\ (rest # <<>> => GoodList(rest, created))
      /\ PlaceOf(V.list, calls[n].id) \in 0..(Len(rest) + 1)
  BY <1>2, <1>4, WithoutList
<1>6. /\ rest # <<>> => \E k \in DOMAIN rest : rest[k] = next
      /\ rest = <<>> => next = created + 1
  BY <1>5, NeighbourListed
<1>7. created + 1 \in Ids
  <2>1. n \in Removals
    BY <1>1 DEF Removals, Returned
  <2> QED
    BY <2>1, FreshId DEF Base
<1> HIDE DEF rest, next
<1>8. next \in Ids
  <2>1. CASE rest = <<>>
    BY <2>1, <1>6, <1>7
  <2>2. CASE rest # <<>>
    <3>1. PICK k \in DOMAIN rest : rest[k] = next
      BY <2>2, <1>6
    <3>2. k \in 1..Len(rest)
      BY <1>5, SeqDomain
    <3>3. rest[k] \in Ids
      BY <3>2, <1>5, ElementOfSeq
    <3> QED
      BY <3>1, <3>3
  <2> QED
    BY <2>1, <2>2
<1>9. /\ list \in Seq(Ids) /\ GoodList(list, created')
      /\ \E k \in DOMAIN list : list[k] = next
      /\ created' \in Nat /\ created <= created' /\ created' <= created + 1
      /\ next \in 1..created'
  <2>1. CASE rest = <<>>
    <3>1. list = <<next>> /\ created' = next /\ next = created + 1
      BY <2>1, <1>3, <1>6
    <3>2. list \in Seq(Ids) /\ GoodList(list, created') /\ 1 \in DOMAIN list /\ list[1] = next
      BY <3>1, <1>8, FirstList
    <3>3. created' = created + 1 /\ next \in 1..created'
      BY <3>1, <1>2
    <3> QED
      BY <3>2, <3>3, <1>2
  <2>2. CASE rest # <<>>
    <3>1. list = rest /\ GoodList(rest, created) /\ \E k \in DOMAIN rest : rest[k] = next
      BY <2>2, <1>5, <1>6
    <3>2. next <= created /\ next \in Nat /\ next >= 1
      BY <3>1, <1>8, IdsAreNumbers DEF GoodList, Ids
    <3>3. created' = created
      BY <3>2, <1>2, <1>3
    <3> QED
      BY <3>1, <3>2, <3>3, <1>2, <1>5
  <2> QED
    BY <2>1, <2>2
<1> HIDE DEF list
<1>10. /\ v \in ViewSet /\ v.list = list /\ v.active = next
       /\ v.messages = <<>> /\ v.sending = V.sending
  <2>1. <<>> \in Seq(Messages)
    OBVIOUS
  <2> QED
    BY <2>1, <1>2, <1>8, <1>9 DEF ViewSet
<1>11. /\ c \in CallSet /\ c.view = i /\ c.op = "replacement" /\ c.id = next /\ c.answer = "sent"
  <2>1. i \in Nat /\ None \in Nat
    BY <1>2 DEF None
  <2> QED
    BY <2>1, <1>8, CallMade
<1> HIDE DEF v, c
<1>12. ViewStep(i, v) /\ CallStep(n, c)
  BY <1>2, <1>3, <1>10, <1>11, OneViewStep, OneCallStep DEF Base
<1>13. Base'
  <2>1. budget.acts \in Nat /\ Removing(n, c) = 0 /\ Removing(n, calls[n]) = 1
    BY <1>1, <1>2, <1>11 DEF Base, Types, Removing
  <2>2. created' + Removing(n, c) <= created + Removing(n, calls[n]) /\ budget.acts <= budget.acts
    BY <2>1, <1>2, <1>9
  <2>3. GoodView(v, created')
    BY <1>9, <1>10 DEF GoodView
  <2>4. GoodCall(c, Opened, created')
    BY <1>2, <1>9, <1>11 DEF GoodCall
  <2>5. disturbed' \in BOOLEAN
    BY <1>3
  <2> QED
    BY <1>2, <1>3, <1>9, <1>12, <2>1, <2>2, <2>3, <2>4, <2>5, StepBase DEF Base, Types
<1>14. SendingMeansAsked'
  BY <1>1, <1>10, <1>11, <1>12, StepSending DEF Base
<1>15. Present'
  BY <1>1, <1>3, <1>11, <1>12, StepPresent DEF Base, Returned, Running
<1>16. StoredIsSeen'
  BY <1>2, <1>3, <1>11, <1>12, StepStored DEF Base
<1>17. Untold'
  BY <1>3, <1>9, StepUntold DEF Base
<1>18. Followed'
  <2>1. CASE mounted # 0 /\ ~disturbed' /\ i = mounted
    <3>1. \A k \in Slots : k # n => ~Touches(calls[k], mounted, next)
      BY <2>1, <1>3, TouchingCalls DEF Base
    <3>2. views'[mounted] = v /\ \A k \in Slots : calls'[k] = IF k = n THEN c ELSE calls[k]
      BY <2>1, <1>2, <1>12 DEF ViewStep, CallStep
    <3>3. Tells(c, mounted, next, v.messages, history[next]) /\ Touches(c, mounted, next)
      BY <2>1, <1>11 DEF Tells, Touches
    <3>4. FollowedBy(calls', mounted, next, v.messages, history[next])
      BY <3>1, <3>2, <3>3, FollowedOne
    <3> QED
      BY <3>2, <3>4, <1>3, <1>10 DEF Followed, Shown
  <2>2. CASE mounted # 0 /\ ~disturbed' /\ i # mounted
    <3>1. ~Touches(c, mounted, views[mounted].active)
      BY <2>2, <1>11 DEF Touches
    <3>2. ~disturbed /\ ~Touches(calls[n], mounted, views[mounted].active)
      BY <2>2, <1>1, <1>3, ReturnedTouches
    <3> QED
      BY <2>2, <3>1, <3>2, <1>3, <1>12, StepFollowed DEF Base
  <2>3. CASE ~(mounted # 0 /\ ~disturbed')
    BY <2>3, <1>3 DEF Followed
  <2> QED
    BY <2>1, <2>2, <2>3
<1> QED
  BY <1>13, <1>14, <1>15, <1>16, <1>17, <1>18
------------------------------------------------------------------------------
(* The server.                                                               *)

\* The call is answered in its slot; one whose page is gone has nobody to tell.
AnsweredBy(n, c, how) ==
    IF calls[n].view = 0 THEN c = Idle
    ELSE /\ c.view = calls[n].view /\ c.op = calls[n].op /\ c.id = calls[n].id
         /\ c.text = calls[n].text /\ c.answer = how

LEMMA AnsweredStep ==
    ASSUME Types, NEW n \in Slots, NEW value \in Seq(Messages), Answered(n, value)
    PROVE  \E c : /\ CallStep(n, c) /\ AnsweredBy(n, c, "answer")
                  /\ calls[n].view # 0 => c.value = value
<1> DEFINE c == IF calls[n].view = 0 THEN Idle
                ELSE [calls[n] EXCEPT !.answer = "answer", !.value = value]
<1>1. c \in CallSet
  BY IdleType, CallType DEF CallSet
<1>2. calls' = [calls EXCEPT ![n] = c]
  BY DEF Answered, Types
<1>3. CallStep(n, c)
  BY <1>1, <1>2, OneCallStep
<1>4. AnsweredBy(n, c, "answer") /\ (calls[n].view # 0 => c.value = value)
  BY CallType DEF AnsweredBy, CallSet
<1> QED
  BY <1>3, <1>4

LEMMA FailedStep ==
    ASSUME Types, NEW n \in Slots, Failed(n)
    PROVE  \E c : CallStep(n, c) /\ AnsweredBy(n, c, "failure")
<1> DEFINE c == IF calls[n].view = 0 THEN Idle ELSE [calls[n] EXCEPT !.answer = "failure"]
<1>1. c \in CallSet
  BY IdleType, CallType DEF CallSet
<1>2. calls' = [calls EXCEPT ![n] = c]
  BY DEF Failed, Types
<1>3. CallStep(n, c)
  BY <1>1, <1>2, OneCallStep
<1>4. AnsweredBy(n, c, "failure")
  BY CallType DEF AnsweredBy, CallSet
<1> QED
  BY <1>3, <1>4

\* Whatever the server answers, and however it fails, what is shown is left alone.
LEMMA AnswerKeeps ==
    ASSUME IInv, NEW n \in Slots, calls[n].op # "idle", calls[n].answer = "sent",
           NEW how \in {"answer", "failure"}, NEW c, CallStep(n, c), AnsweredBy(n, c, how),
           history' \in [Ids -> Seq(Messages)],
           \A id \in Ids : id # calls[n].id => history'[id] = history[id],
           budget' \in [acts : Nat, views : Nat, troubles : Nat],
           budget'.views = budget.views, budget'.acts <= budget.acts,
           disturbed' \in BOOLEAN,
           UNCHANGED <<stored, views, mounted, created, abandoned>>
    PROVE  Base' /\ SendingMeansAsked' /\ Present' /\ StoredIsSeen' /\ Untold'
<1> USE DEF IInv
<1>1. GoodCall(calls[n], Opened, created) /\ n # 0 /\ Idle.op = "idle"
  BY IdleType DEF Base, Asked, Slots
<1>2. PICK v \in ViewSet : TRUE
  <2>1. /\ <<>> \in Seq(Ids) /\ <<>> \in Seq(Messages) /\ None \in Ids \union {None}
        /\ [d \in Ids |-> "new"] \in [Ids -> Titles] /\ FALSE \in BOOLEAN
    BY DEF Titles
  <2>2. 1 \in Ids
    BY BoundsAssumption DEF Ids
  <2> QED
    BY <2>1, <2>2, ViewMade
<1>3. ViewStep(0, v)
  BY <1>2, NoViewStep DEF Base
<1>4. Base'
  <2>1. c.op # "idle" => GoodCall(c, Opened, created)
    BY <1>1 DEF AnsweredBy, GoodCall
  <2>2. created \in Nat /\ budget.acts \in Nat /\ created <= created
    BY DEF Base, Types
  <2>3. created + Removing(n, c) <= created + Removing(n, calls[n])
    BY <1>1, <2>2 DEF Removing, AnsweredBy
  <2> QED
    BY <1>3, <2>1, <2>2, <2>3, StepBase
<1>5. SendingMeansAsked'
  BY <1>1, <1>3, StepSending DEF Base, AnsweredBy
<1>6. Present'
  BY <1>1, <1>3, StepPresent DEF Base, AnsweredBy
<1>7. StoredIsSeen'
  <2>1. ~abandoned => calls[n].view # 0
    BY DEF Present
  <2> QED
    BY <2>1, <1>1, <1>3, StepStored DEF Base, AnsweredBy
<1>8. Untold'
  <2>1. created \in Nat /\ \A id \in Ids : id > created => id # calls[n].id
    BY <1>1 DEF Base, Types, GoodCall
  <2> QED
    BY <2>1, StepUntold DEF Base
<1> QED
  BY <1>4, <1>5, <1>6, <1>7, <1>8

LEMMA AppendTwice ==
    ASSUME NEW T, NEW s \in Seq(T), NEW x \in T, NEW y \in T
    PROVE  s \o <<x, y>> = Append(Append(s, x), y) /\ s \o <<x, y>> \in Seq(T)
<1>1. <<x, y>> \in Seq(T) /\ Len(<<x, y>>) = 2 /\ <<x, y>>[1] = x /\ <<x, y>>[2] = y
  OBVIOUS
<1> DEFINE both == <<x, y>>
<1> HIDE DEF both
<1>2. /\ s \o both \in Seq(T) /\ Len(s \o both) = Len(s) + 2 /\ Len(s) \in Nat
      /\ \A k \in 1..(Len(s) + 2) : (s \o both)[k] = IF k <= Len(s) THEN s[k] ELSE both[k - Len(s)]
  BY <1>1, ConcatProperties, LenProperties DEF both
<1>3. /\ Append(s, x) \in Seq(T) /\ Len(Append(s, x)) = Len(s) + 1
      /\ \A k \in 1..(Len(s) + 1) : Append(s, x)[k] = IF k <= Len(s) THEN s[k] ELSE x
  OBVIOUS
<1> DEFINE one == Append(s, x)
<1> HIDE DEF one
<1>4. /\ Append(one, y) \in Seq(T) /\ Len(Append(one, y)) = Len(s) + 2
      /\ \A k \in 1..(Len(s) + 2) : Append(one, y)[k] = IF k <= Len(s) + 1 THEN one[k] ELSE y
  BY <1>3, <1>2 DEF one
<1>5. \A k \in 1..(Len(s) + 2) : (s \o both)[k] = Append(one, y)[k]
  <2> TAKE k \in 1..(Len(s) + 2)
  <2>1. CASE k <= Len(s)
    BY <2>1, <1>2, <1>3, <1>4 DEF one
  <2>2. CASE k = Len(s) + 1
    BY <2>2, <1>1, <1>2, <1>3, <1>4 DEF one, both
  <2>3. CASE k = Len(s) + 2
    BY <2>3, <1>1, <1>2, <1>4 DEF both
  <2>4. Len(s) \in Nat
    OBVIOUS
  <2>5. k <= Len(s) \/ k = Len(s) + 1 \/ k = Len(s) + 2
    BY <2>4
  <2> QED
    BY <2>1, <2>2, <2>3, <2>5
<1>6. s \o both = Append(one, y)
  BY <1>2, <1>4, <1>5, SeqEqual
<1> QED
  BY <1>2, <1>6 DEF one, both

\* What the server makes of a conversation by a text is a sequence of messages.
LEMMA AfterType ==
    ASSUME Types, NEW n \in Slots, calls[n].id \in Ids
    PROVE  /\ \A after \in Turns(n) \union Asides(n) : after \in Seq(Messages)
           /\ \A after \in Turns(n) : \E answer \in Messages :
                 /\ AsSaid(answer) = ChatResponse(calls[n].text)
                 /\ after = Append(Append(history[calls[n].id], HistoryMessage("user", calls[n].text)), answer)
           /\ Kept(n) \subseteq Asides(n)
<1> DEFINE h == history[calls[n].id]
           Message(role) == HistoryMessage(role, calls[n].text)
<1>1. /\ h \in Seq(Messages) /\ <<>> \in Seq(Messages)
      /\ \A role \in {"user", "assistant", "tools", "worked"} :
            /\ Message(role) \in Messages
            /\ AsSaid(Message(role)) = IF role = "worked" THEN ChatResponse(calls[n].text) ELSE Message(role)
  BY CallType, MessageType DEF Types
<1>2. Message("assistant") = ChatResponse(calls[n].text)
  BY DEF ChatResponse
<1>3. ASSUME NEW after \in Turns(n)
      PROVE  \E answer \in Messages :
                /\ AsSaid(answer) = ChatResponse(calls[n].text)
                /\ after = Append(Append(h, Message("user")), answer)
                /\ after \in Seq(Messages)
  <2>1. PICK role \in {"assistant", "worked"} : after = h \o <<Message("user"), Message(role)>>
    BY DEF Turns
  <2>2. AsSaid(Message(role)) = ChatResponse(calls[n].text) /\ Message("user") \in Messages /\ Message(role) \in Messages
    BY <1>1, <1>2
  <2> HIDE DEF h, Message
  <2> QED
    BY <1>1, <2>1, <2>2, AppendTwice
<1>4. Asides(n) = {<<>>, h, Append(h, Message("user")), h \o <<Message("user"), Message("tools")>>}
                  \union {after \in {Append(h, Message("tools")), Append(h, Message("worked"))} : Waits(h)}
  BY DEF Asides, Kept
<1>5. Kept(n) \subseteq Asides(n)
  BY DEF Asides
<1>6. \A after \in Asides(n) : after \in Seq(Messages)
  <2> HIDE DEF h, Message
  <2>1. /\ Message("user") \in Messages /\ Message("tools") \in Messages /\ Message("worked") \in Messages
    BY <1>1
  <2>2. h \o <<Message("user"), Message("tools")>> \in Seq(Messages)
    BY <1>1, <2>1, AppendTwice
  <2>3. /\ Append(h, Message("user")) \in Seq(Messages) /\ Append(h, Message("tools")) \in Seq(Messages)
        /\ Append(h, Message("worked")) \in Seq(Messages)
    BY <1>1, <2>1
  <2> QED
    BY <1>1, <1>4, <2>2, <2>3
<1> QED
  BY <1>3, <1>5, <1>6

LEMMA ReadingType ==
    ASSUME Types, NEW id \in Ids, NEW value \in Readings(id)
    PROVE  value \in Seq(Messages)
<1>1. history[id] \in Seq(Messages)
  BY DEF Types
<1>2. CASE value = history[id]
  BY <1>1, <1>2
<1>3. CASE \E k \in Slots : calls[k].id = id /\ value \in Kept(k)
  BY <1>3, AfterType
<1>4. value = history[id] \/ \E k \in Slots : calls[k].id = id /\ value \in Kept(k)
  BY DEF Readings, Running
<1> QED
  BY <1>2, <1>3, <1>4

LEMMA ServeKeeps ==
    ASSUME IInv, NEW n \in Slots, Serve(n)
    PROVE  IInv'
<1> USE DEF IInv
<1> DEFINE id == calls[n].id
           op == calls[n].op
<1>1. /\ op \in {"history", "replacement", "send", "remove"} /\ calls[n].answer = "sent"
      /\ UNCHANGED <<stored, views, mounted, created, budget, disturbed, abandoned>>
  BY CallType DEF Serve, Running, Base
<1>2. GoodCall(calls[n], Opened, created) /\ id \in Ids /\ n # 0
  <2>1. GoodCall(calls[n], Opened, created) /\ id \in Ids \union {None}
    BY <1>1, CallType DEF Base, Asked
  <2> QED
    BY <2>1 DEF GoodCall, None, Slots
<1>3. PICK value \in Seq(Messages) :
         /\ Answered(n, value)
         /\ op = "send" => \E after \in Turns(n) : history' = [history EXCEPT ![id] = after]
         /\ op = "remove" => history' = [history EXCEPT ![id] = <<>>]
         /\ op \in {"history", "replacement"} => value \in Readings(id) /\ UNCHANGED history
  <2>1. CASE op = "send"
    <3>1. /\ \E after \in Turns(n) : history' = [history EXCEPT ![id] = after]
          /\ Answered(n, <<>>)
      BY <2>1 DEF Serve
    <3>2. <<>> \in Seq(Messages) /\ op \notin {"history", "replacement", "remove"}
      BY <2>1
    <3> QED
      BY <3>1, <3>2, <2>1
  <2>2. CASE op = "remove"
    <3>1. /\ history' = [history EXCEPT ![id] = <<>>]
          /\ Answered(n, <<>>)
      BY <2>2 DEF Serve
    <3>2. <<>> \in Seq(Messages) /\ op \notin {"history", "replacement", "send"}
      BY <2>2
    <3> QED
      BY <3>1, <3>2, <2>2
  <2>3. CASE op \in {"history", "replacement"}
    <3>1. (\E value \in Readings(id) : Answered(n, value)) /\ UNCHANGED history
      BY <2>3 DEF Serve
    <3> QED
      BY <3>1, <2>3, <1>2, ReadingType DEF Base
  <2> QED
    BY <2>1, <2>2, <2>3, <1>1
<1>4. PICK c : /\ CallStep(n, c) /\ AnsweredBy(n, c, "answer")
               /\ calls[n].view # 0 => c.value = value
  BY <1>3, AnsweredStep DEF Base
<1>5. /\ history' \in [Ids -> Seq(Messages)]
      /\ \A d \in Ids : d # id => history'[d] = history[d]
      /\ op \in {"history", "replacement"} => history' = history
      /\ op = "send" => history'[id] \in Turns(n)
  <2>1. history \in [Ids -> Seq(Messages)] /\ <<>> \in Seq(Messages)
    BY DEF Base, Types
  <2>2. \A after \in Turns(n) : after \in Seq(Messages)
    BY <1>2, AfterType DEF Base
  <2> QED
    BY <2>1, <2>2, <1>1, <1>2, <1>3
<1>6. Base' /\ SendingMeansAsked' /\ Present' /\ StoredIsSeen' /\ Untold'
  BY <1>1, <1>4, <1>5, BudgetType, AnswerKeeps DEF Base, Types
<1>7. Followed'
  <2> DEFINE a == views[mounted].active
             m == views[mounted].messages
             h == history[a]
  <2>1. CASE mounted # 0 /\ ~disturbed /\ Touches(calls[n], mounted, a)
    <3>1. /\ Tells(calls[n], mounted, a, m, h)
          /\ \A k \in Slots : k # n => ~Touches(calls[k], mounted, a)
      BY <2>1, TouchingAlone
    <3>2. calls[n].view = mounted /\ id = a /\ a \in Ids
      BY <3>1, <1>2 DEF Tells
    <3>3. /\ c.view = mounted /\ c.op = op /\ c.id = a /\ c.text = calls[n].text
          /\ c.answer = "answer" /\ c.value = value
      BY <2>1, <3>2, <1>4 DEF AnsweredBy
    <3>4. op \in {"history", "replacement"} => value = history'[a]
      <4> SUFFICES ASSUME op \in {"history", "replacement"}
                   PROVE  value = history[a]
        BY <1>5
      <4>1. value \in Readings(a)
        BY <3>2, <1>3
      <4>2. \A k \in Running : ~(calls[k].op = "send" /\ calls[k].id = a)
        <5> TAKE k \in Running
        <5>1. k = n => calls[k].op # "send"
          OBVIOUS
        <5>2. k # n => ~Touches(calls[k], mounted, a)
          BY <3>1 DEF Running
        <5> QED
          BY <5>1, <5>2 DEF Touches
      <4> QED
        BY <4>1, <4>2 DEF Readings
    <3>5. op = "send" => Alike(history'[a], Append(m, ChatResponse(calls[n].text)))
      <4> SUFFICES ASSUME op = "send"
                   PROVE  Alike(history'[a], Append(m, ChatResponse(calls[n].text)))
        OBVIOUS
      <4> DEFINE user == HistoryMessage("user", calls[n].text)
                 response == ChatResponse(calls[n].text)
                 asked == Append(h, user)
      <4>1. Alike(m, asked) /\ history'[a] \in Turns(n)
        BY <3>1, <3>2, <1>1, <1>5 DEF Tells
      <4>2. PICK answer \in Messages : AsSaid(answer) = response /\ history'[a] = Append(asked, answer)
        BY <4>1, <3>2, AfterType DEF Base
      <4>3. h \in Seq(Messages) /\ m \in Seq(Messages)
        BY <3>2, <2>1, ShownView DEF Base, Types, ViewSet
      <4>4. user \in Messages /\ response \in Messages /\ AsSaid(response) = response
        BY CallType, MessageType DEF Base, ChatResponse
      <4> HIDE DEF user, response, h, m
      <4>5. asked \in Seq(Messages)
        BY <4>3, <4>4
      <4>6. Alike(asked, m)
        BY <4>1 DEF Alike
      <4> HIDE DEF asked
      <4>7. Alike(Append(asked, answer), Append(m, response))
        BY <4>2, <4>3, <4>4, <4>5, <4>6, AlikeAppend
      <4> QED
        BY <4>2, <4>7 DEF response
    <3>6. Tells(c, mounted, a, m, history'[a]) /\ Touches(c, mounted, a)
      BY <2>1, <3>2, <3>3, <3>4, <3>5, <1>1 DEF Tells, Touches
    <3>7. \A k \in Slots : calls'[k] = IF k = n THEN c ELSE calls[k]
      BY <1>4 DEF CallStep
    <3>8. FollowedBy(calls', mounted, a, m, history'[a])
      <4> DEFINE later == history'[a]
      <4>1. Tells(c, mounted, a, m, later)
        BY <3>6
      <4> HIDE DEF later
      <4>2. FollowedBy(calls', mounted, a, m, later)
        BY <4>1, <3>1, <3>6, <3>7, FollowedOne
      <4> QED
        BY <4>2 DEF later
    <3> QED
      BY <3>8, <1>1 DEF Followed, Shown
  <2>2. CASE mounted # 0 /\ ~disturbed /\ ~Touches(calls[n], mounted, a)
    <3>1. ~Touches(c, mounted, a)
      BY <2>2, <1>4, IdleType DEF Touches, AnsweredBy
    <3>2. history'[a] = h
      <4>1. a \in Ids
        BY <2>2, ShownView, ActiveCreated DEF Base
      <4>2. op \in {"send", "remove"} => id # a
        BY <2>2 DEF Touches
      <4> QED
        BY <4>1, <4>2, <1>1, <1>5
    <3>3. /\ views[mounted] \in ViewSet
      BY <2>2, ShownView DEF Base
    <3>4. ViewStep(0, views[mounted])
      BY <3>3, <1>1, NoViewStep DEF Base
    <3> QED
      BY <2>2, <3>1, <3>2, <3>4, <1>1, <1>4, StepFollowed DEF Base
  <2>3. CASE ~(mounted # 0 /\ ~disturbed)
    BY <2>3, <1>1 DEF Followed
  <2> QED
    BY <2>1, <2>2, <2>3
<1> QED
  BY <1>6, <1>7

LEMMA TroubleBudget ==
    ASSUME Types, budget.troubles > 0, budget' = [budget EXCEPT !.troubles = @ - 1]
    PROVE  /\ budget' \in [acts : Nat, views : Nat, troubles : Nat]
           /\ budget'.views = budget.views /\ budget'.acts <= budget.acts
<1>1. /\ budget \in [acts : Nat, views : Nat, troubles : Nat]
      /\ budget.acts \in Nat /\ budget.views \in Nat /\ budget.troubles - 1 \in Nat
  BY DEF Types
<1>2. budget' \in [acts : Nat, views : Nat, troubles : Nat]
  BY <1>1
<1>3. budget'.views = budget.views /\ budget'.acts = budget.acts
  BY <1>1
<1> QED
  BY <1>1, <1>2, <1>3

\* A text that is answered aside, or a request that fails: what is shown may differ from
\* then on.
LEMMA TroubleKeeps ==
    ASSUME IInv, NEW n \in Slots, AnswerAside(n) \/ Trouble(n)
    PROVE  IInv'
<1> USE DEF IInv
<1> DEFINE id == calls[n].id
           op == calls[n].op
<1>1. /\ op \in {"history", "replacement", "send", "remove"} /\ calls[n].answer = "sent"
      /\ budget.troubles > 0 /\ budget' = [budget EXCEPT !.troubles = @ - 1]
      /\ disturbed' = TRUE
      /\ UNCHANGED <<stored, views, mounted, created, abandoned>>
  BY CallType DEF AnswerAside, Trouble, Running, Base
<1>2. id \in Ids
  <2>1. GoodCall(calls[n], Opened, created) /\ id \in Ids \union {None}
    BY <1>1, CallType DEF Base, Asked
  <2> QED
    BY <2>1 DEF GoodCall, None
<1>3. /\ Answered(n, <<>>) \/ Failed(n)
      /\ \/ history' = history
         \/ \E after \in Seq(Messages) : history' = [history EXCEPT ![id] = after]
  <2>1. \A after \in Turns(n) \union Asides(n) : after \in Seq(Messages)
    BY <1>2, AfterType DEF Base
  <2>2. CASE AnswerAside(n)
    <3>1. Answered(n, <<>>) /\ \E after \in Asides(n) : history' = [history EXCEPT ![id] = after]
      BY <2>2 DEF AnswerAside
    <3> QED
      BY <3>1, <2>1
  <2>3. CASE Trouble(n) /\ op = "send"
    <3>1. Failed(n) /\ \E after \in Turns(n) \union Asides(n) : history' = [history EXCEPT ![id] = after]
      BY <2>3 DEF Trouble
    <3> QED
      BY <3>1, <2>1
  <2>4. CASE Trouble(n) /\ op = "remove"
    <3>1. Failed(n) /\ history' \in {history, [history EXCEPT ![id] = <<>>]}
      BY <2>4 DEF Trouble
    <3>2. <<>> \in Seq(Messages)
      OBVIOUS
    <3> QED
      BY <3>1, <3>2
  <2>5. CASE Trouble(n) /\ op \in {"history", "replacement"}
    <3>1. Failed(n) /\ UNCHANGED history
      BY <2>5 DEF Trouble
    <3> QED
      BY <3>1
  <2> QED
    BY <2>2, <2>3, <2>4, <2>5, <1>1
<1>4. \E how \in {"answer", "failure"}, c \in CallSet : CallStep(n, c) /\ AnsweredBy(n, c, how)
  <2>1. <<>> \in Seq(Messages)
    OBVIOUS
  <2> QED
    BY <2>1, <1>3, AnsweredStep, FailedStep DEF Base, CallStep
<1>5. /\ history' \in [Ids -> Seq(Messages)]
      /\ \A d \in Ids : d # id => history'[d] = history[d]
  <2>1. history \in [Ids -> Seq(Messages)]
    BY DEF Base, Types
  <2> QED
    BY <2>1, <1>2, <1>3
<1>6. /\ budget' \in [acts : Nat, views : Nat, troubles : Nat]
      /\ budget'.views = budget.views /\ budget'.acts <= budget.acts
  BY <1>1, TroubleBudget DEF Base
<1>7. Base' /\ SendingMeansAsked' /\ Present' /\ StoredIsSeen' /\ Untold'
  BY <1>1, <1>4, <1>5, <1>6, AnswerKeeps
<1>8. Followed'
  BY <1>1 DEF Followed
<1> QED
  BY <1>7, <1>8
------------------------------------------------------------------------------
(* The page is opened, left and loaded again.                                *)

LEMMA MountKeeps ==
    ASSUME IInv, Mount
    PROVE  IInv'
<1> USE DEF IInv
<1> DEFINE v == ViewOf(created + 1)
           i == Opened + 1
           c == Call(i, "history", v.active, None)
<1>1. /\ mounted = 0 /\ budget.views > 0 /\ Free # {}
      /\ budget' = [budget EXCEPT !.views = @ - 1]
      /\ views' = Append(views, v) /\ mounted' = i
      /\ created' = IF stored.is = "list" THEN created ELSE created + 1
      /\ stored' = Conversation(v)
      /\ Ask(i, "history", v.active, None)
      /\ disturbed' = \E n \in Running : calls[n].id = v.active
      /\ UNCHANGED <<history, abandoned>>
  BY DEF Mount, PersistConversations
<1>2. created \in Nat /\ created + 1 \in Ids /\ Opened \in Nat /\ i \in Nat /\ i # 0
  <2>1. created + 1 \in Ids
    BY <1>1, FreshId DEF Base
  <2>2. created \in Nat /\ Opened \in Nat
    BY LenProperties DEF Base, Types, Opened
  <2> QED
    BY <2>1, <2>2
<1>3. created' \in Nat /\ created <= created' /\ created' <= created + 1
  BY <1>1, <1>2
<1>4. v \in ViewSet /\ GoodView(v, created') /\ v.messages = <<>> /\ v.sending = FALSE
  BY <1>1, <1>2, OpenedView DEF Base
<1> HIDE DEF v, i
<1>5. v.active \in Ids /\ v.active \in 1..created'
  <2>1. PICK k \in DOMAIN v.list : v.list[k] = v.active
    BY <1>4 DEF GoodView
  <2>2. v.active \in Ids /\ v.active <= created'
    BY <2>1, <1>4 DEF GoodView, GoodList, ViewSet
  <2>3. v.active \in Nat /\ v.active >= 1
    BY <2>2, IdsAreNumbers DEF Ids
  <2> QED
    BY <2>2, <2>3, <1>3
<1>6. PICK n \in Slots : n # 0 /\ calls[n].op = "idle" /\ CallStep(n, c)
  BY <1>1, <1>2, <1>5, AskStep DEF Base, None
<1>7. c \in CallSet /\ c.view = i /\ c.op = "history" /\ c.id = v.active /\ c.answer = "sent"
  BY <1>2, <1>5, CallMade DEF None
<1> HIDE DEF c
<1>8. \A k \in Slots : calls'[k] = IF k = n THEN c ELSE calls[k]
  BY <1>6 DEF CallStep
<1>9. /\ views' \in Seq(ViewSet) /\ Opened' = i
      /\ \A j \in 1..i : views'[j] = IF j = i THEN v ELSE views[j]
      /\ \A j \in 1..i : j # i => j \in 1..Opened
  <2>1. views \in Seq(ViewSet) /\ Len(views) \in Nat /\ i = Len(views) + 1
    BY <1>2 DEF Base, Types, Opened, i
  <2>2. /\ Append(views, v) \in Seq(ViewSet) /\ Len(Append(views, v)) = i
        /\ \A j \in 1..i : Append(views, v)[j] = IF j = i THEN v ELSE views[j]
    BY <2>1, <1>4
  <2>3. \A j \in 1..i : j # i => j \in 1..Len(views)
    BY <2>1
  <2> QED
    BY <2>2, <2>3, <1>1 DEF Opened
<1>10. /\ budget' \in [acts : Nat, views : Nat, troubles : Nat]
       /\ budget'.views = budget.views - 1 /\ budget'.acts = budget.acts
       /\ budget.views \in Nat /\ budget.acts \in Nat /\ budget'.views \in Nat /\ budget'.acts \in Nat
  BY <1>1 DEF Base, Types
<1>11. Types'
  <2>1. stored'.is = "list" /\ stored' \in StoredSet
    BY <1>1, <1>4, ConversationType
  <2>2. mounted' \in 0..Opened'
    BY <1>1, <1>2, <1>9
  <2>3. calls' \in [Slots -> CallSet] /\ disturbed' \in BOOLEAN
    BY <1>1, <1>6 DEF CallStep
  <2> QED
    BY <2>1, <2>2, <2>3, <1>1, <1>3, <1>9, <1>10 DEF Types, Base
<1>12. Bounded'
  <2>1. Removing(n, c) = 0 /\ Removing(n, calls[n]) = 0
    BY <1>6, <1>7 DEF Removing
  <2>2. created' + budget'.views + budget'.acts + Removing(n, c) <=
            created + budget.views + budget.acts + Removing(n, calls[n])
    BY <2>1, <1>2, <1>3, <1>10
  <2> QED
    BY <2>2, <1>3, <1>6, <1>10, StepBounded DEF Base
<1>13. Lists'
  <2>1. ASSUME NEW j \in 1..i  PROVE GoodView(views'[j], created')
    <3>1. CASE j = i
      BY <3>1, <1>4, <1>9
    <3>2. CASE j # i
      <4>1. j \in 1..Opened /\ views'[j] = views[j]
        BY <3>2, <1>9
      <4>2. GoodView(views[j], created) /\ views[j].list \in Seq(Ids)
        BY <4>1, ViewType DEF Base, Lists
      <4> QED
        BY <4>1, <4>2, <1>2, <1>3, LaterList DEF GoodView
    <3> QED
      BY <3>1, <3>2
  <2>2. IdsOf(stored'.list) = v.list /\ GoodList(v.list, created')
    BY <1>1, <1>4, ConversationType DEF GoodView
  <2> QED
    BY <2>1, <2>2, <1>9 DEF Lists
<1>14. Asked'
  <2>1. GoodCall(c, Opened', created')
    BY <1>2, <1>5, <1>7, <1>9 DEF GoodCall
  <2>2. Opened' \in Nat /\ Opened <= Opened'
    BY <1>2, <1>9 DEF i
  <2> QED
    BY <2>1, <2>2, <1>3, <1>6, StepAsked DEF Base
<1>15. SendingMeansAsked'
  <2> SUFFICES ASSUME NEW j \in 1..i
               PROVE  LET asked == {k \in Of(j)' : calls'[k].op = "send"}
                      IN  /\ views'[j].sending <=> asked # {}
                          /\ \A k, l \in asked : k = l
    BY <1>9 DEF SendingMeansAsked, Of, Running
  <2>1. {k \in Of(j)' : calls'[k].op = "send"} = {k \in Slots : calls[k].op = "send" /\ calls[k].view = j}
    BY <1>6, <1>7, <1>8 DEF Of, Running
  <2>2. CASE j = i
    <3>1. \A k \in Slots : calls[k].op # "idle" => calls[k].view \in 0..Opened
      BY DEF Base, Asked, GoodCall
    <3>2. i \notin 0..Opened
      BY <1>2 DEF i
    <3>3. {k \in Slots : calls[k].op = "send" /\ calls[k].view = j} = {}
      BY <3>1, <3>2, <2>2
    <3> QED
      BY <3>3, <2>1, <2>2, <1>4, <1>9
  <2>3. CASE j # i
    <3>1. j \in 1..Opened /\ views'[j] = views[j]
      BY <2>3, <1>9
    <3>2. {k \in Of(j) : calls[k].op = "send"} = {k \in Slots : calls[k].op = "send" /\ calls[k].view = j}
      BY DEF Of, Running
    <3> QED
      BY <3>1, <3>2, <2>1 DEF SendingMeansAsked
  <2> QED
    BY <2>2, <2>3
<1>16. Present'
  <2> SUFFICES ASSUME ~abandoned, NEW k \in Slots, calls'[k].op # "idle"
               PROVE  calls'[k].view = i /\ i # 0
    BY <1>1 DEF Present
  <2>1. k = n
    BY <1>1, <1>8 DEF Present
  <2> QED
    BY <2>1, <1>2, <1>7, <1>8
<1>17. StoredIsSeen'
  <2>1. views'[i] = v
    BY <1>2, <1>9
  <2> QED
    BY <2>1, <1>1 DEF StoredIsSeen, Shown
<1>18. Untold'
  BY <1>1, <1>3, StepUntold DEF Base
<1>19. Followed'
  <2> SUFFICES ASSUME ~disturbed'
               PROVE  FollowedBy(calls', i, v.active, v.messages, history[v.active])
    <3>1. views'[i] = v
      BY <1>2, <1>9
    <3> QED
      BY <3>1, <1>1 DEF Followed, Shown
  <2>1. \A k \in Slots : k # n => ~Touches(calls'[k], i, v.active)
    <3> SUFFICES ASSUME NEW k \in Slots, k # n, calls[k].op # "idle"
                 PROVE  ~Touches(calls[k], i, v.active)
      BY <1>8 DEF Touches
    <3>1. calls[k].id # v.active
      BY <1>1 DEF Running
    <3>2. calls[k].view \in 0..Opened
      BY DEF Base, Asked, GoodCall
    <3>3. calls[k].view # i
      BY <3>2, <1>2 DEF i
    <3> QED
      BY <3>1, <3>3 DEF Touches
  <2>2. calls'[n] = c
    BY <1>6, <1>8
  <2>3. Tells(c, i, v.active, v.messages, history[v.active]) /\ Touches(c, i, v.active)
    BY <1>7 DEF Tells, Touches
  <2> QED
    BY <2>1, <2>2, <2>3, FollowedOne
<1> QED
  BY <1>11, <1>12, <1>13, <1>14, <1>15, <1>16, <1>17, <1>18, <1>19 DEF Base

LEMMA LeaveKeeps ==
    ASSUME IInv, Leave
    PROVE  IInv'
<1> USE DEF IInv
<1>1. /\ mounted' = 0 /\ abandoned' = (abandoned \/ Of(mounted) # {})
      /\ UNCHANGED <<stored, views, calls, history, created, budget, disturbed>>
  BY DEF Leave
<1>2. Types'
  <2>1. mounted' \in 0..Opened /\ abandoned' \in BOOLEAN
    <3>1. Opened \in Nat
      BY LenProperties DEF Base, Types, Opened
    <3> QED
      BY <3>1, <1>1 DEF Base, Types
  <2> QED
    BY <2>1, <1>1 DEF Types, Base, Opened
<1>3. Bounded' /\ Lists' /\ Asked'
  BY <1>1 DEF Base, Bounded, Removals, Running, Lists, Asked, Opened
<1>4. SendingMeansAsked' /\ Untold'
  BY <1>1 DEF SendingMeansAsked, Of, Running, Opened, Untold
<1>5. Present'
  BY <1>1 DEF Present, Of, Running
<1>6. StoredIsSeen' /\ Followed'
  BY <1>1 DEF StoredIsSeen, Followed
<1> QED
  BY <1>2, <1>3, <1>4, <1>5, <1>6 DEF Base

LEMMA ReloadKeeps ==
    ASSUME IInv, Reload
    PROVE  IInv'
<1> USE DEF IInv
<1> DEFINE stays(n) == n \in Running /\ calls[n].answer = "sent" /\ calls[n].op \in {"send", "remove"}
<1>1. /\ mounted' = 0 /\ abandoned' = (abandoned \/ Running # {})
      /\ calls' = [n \in Slots |-> IF stays(n) THEN [calls[n] EXCEPT !.view = 0] ELSE Idle]
      /\ views' = [i \in DOMAIN views |-> [views[i] EXCEPT !.sending = FALSE]]
      /\ UNCHANGED <<stored, history, created, budget, disturbed>>
  BY DEF Reload
<1>2. views \in Seq(ViewSet) /\ DOMAIN views = 1..Opened /\ Opened \in Nat /\ Opened = Len(views)
  BY LenProperties DEF Base, Types, Opened
<1>3. \A i \in 1..Opened :
         LET v == [views[i] EXCEPT !.sending = FALSE] IN
         /\ v \in ViewSet /\ v.list = views[i].list /\ v.active = views[i].active
         /\ v.sending = FALSE
  <2> TAKE i \in 1..Opened
  <2>1. views[i] \in ViewSet
    BY ViewType DEF Base
  <2> QED
    BY <2>1 DEF ViewSet
<1>4. /\ views' \in Seq(ViewSet) /\ Opened' = Opened
      /\ \A i \in 1..Opened : /\ views'[i].list = views[i].list /\ views'[i].active = views[i].active
                              /\ views'[i].sending = FALSE
  <2> DEFINE new == [i \in 1..Opened |-> [views[i] EXCEPT !.sending = FALSE]]
  <2>1. new \in [1..Opened -> ViewSet]
    BY <1>3
  <2>2. new \in Seq(ViewSet) /\ Len(new) = Opened
    <3> HIDE DEF new
    <3> QED
      BY <2>1, <1>2
  <2>3. views' = new
    BY <1>1, <1>2
  <2> QED
    BY <2>2, <2>3, <1>3 DEF Opened
<1>5. /\ calls' \in [Slots -> CallSet]
      /\ \A n \in Slots : calls'[n].op # "idle" =>
           /\ stays(n) /\ calls'[n].view = 0
           /\ calls'[n].op = calls[n].op /\ calls'[n].id = calls[n].id /\ calls'[n].answer = "sent"
  <2>1. \A n \in Slots : [calls[n] EXCEPT !.view = 0] \in CallSet
    BY CallType DEF Base, CallSet
  <2>2. calls' \in [Slots -> CallSet]
    BY <2>1, <1>1, IdleType
  <2>3. ASSUME NEW n \in Slots, calls'[n].op # "idle"
        PROVE  /\ stays(n) /\ calls'[n].view = 0
               /\ calls'[n].op = calls[n].op /\ calls'[n].id = calls[n].id /\ calls'[n].answer = "sent"
    <3>1. calls'[n] = IF stays(n) THEN [calls[n] EXCEPT !.view = 0] ELSE Idle
      BY <1>1
    <3>2. stays(n)
      BY <3>1, <2>3, IdleType
    <3>3. calls'[n] = [calls[n] EXCEPT !.view = 0] /\ calls[n] \in CallSet
      BY <3>1, <3>2, CallType DEF Base
    <3> QED
      BY <3>2, <3>3 DEF CallSet
  <2> QED
    BY <2>2, <2>3
<1> HIDE DEF stays
<1>6. Types'
  <2>1. mounted' \in 0..Opened /\ abandoned' \in BOOLEAN
    BY <1>1, <1>2 DEF Base, Types
  <2> QED
    BY <2>1, <1>1, <1>4, <1>5 DEF Types, Base
<1>7. Bounded'
  <2>1. Removals' \in SUBSET Removals
    <3>1. Removals' \subseteq Slots
      BY DEF Removals, Running
    <3>2. \A n \in Slots : n \in Removals' => n \in Removals
      BY <1>5 DEF Removals, Running
    <3> QED
      BY <3>1, <3>2
  <2>2. IsFiniteSet(Removals') /\ Cardinality(Removals') <= Cardinality(Removals)
    BY <2>1, RemovalsFinite, FS_Subset DEF Base
  <2> DEFINE card == Cardinality(Removals)
             less == Cardinality(Removals')
  <2>3. /\ card \in Nat /\ less \in Nat /\ less <= card /\ created \in Nat
        /\ budget.views \in Nat /\ budget.acts \in Nat /\ MaxViews \in Nat /\ MaxActs \in Nat
        /\ created + budget.views + budget.acts + card <= MaxViews + MaxActs
    BY <2>2, RemovalsFinite, FS_CardinalityType, BoundsAssumption DEF Base, Types, Bounded
  <2> HIDE DEF card, less
  <2>4. created + budget.views + budget.acts + less <= MaxViews + MaxActs
    BY <2>3
  <2>5. created' + budget'.views + budget'.acts + less <= MaxViews + MaxActs
    BY <2>4, <1>1
  <2> QED
    BY <2>5 DEF Bounded, less
<1>8. Lists'
  <2>1. ASSUME NEW i \in 1..Opened  PROVE GoodView(views'[i], created)
    <3>1. GoodView(views[i], created)
      BY DEF Base, Lists
    <3> QED
      BY <3>1, <1>4 DEF GoodView
  <2>2. stored'.is = "list" => GoodList(IdsOf(stored'.list), created)
    BY <1>1 DEF Base, Lists
  <2>3. created' = created /\ Opened' = Opened
    BY <1>1, <1>4
  <2> QED
    BY <2>1, <2>2, <2>3 DEF Lists
<1>9. Asked'
  <2> SUFFICES ASSUME NEW n \in Slots, calls'[n].op # "idle"
               PROVE  GoodCall(calls'[n], Opened, created)
    BY <1>1, <1>4 DEF Asked
  <2>1. GoodCall(calls[n], Opened, created)
    BY <1>5 DEF Base, Asked
  <2>2. calls'[n].op \in {"send", "remove"}
    BY <1>5 DEF stays
  <2> QED
    BY <2>1, <2>2, <1>2, <1>5 DEF GoodCall
<1>10. SendingMeansAsked'
  <2>1. ASSUME NEW j \in 1..Opened  PROVE {k \in Of(j)' : calls'[k].op = "send"} = {}
    BY <1>5 DEF Of, Running
  <2> QED
    BY <2>1, <1>4 DEF SendingMeansAsked, Of, Running
<1>11. Present'
  BY <1>1, <1>5 DEF Present, Running, stays
<1>12. StoredIsSeen' /\ Followed'
  BY <1>1 DEF StoredIsSeen, Followed
<1>13. Untold'
  BY <1>1 DEF Untold
<1> QED
  BY <1>6, <1>7, <1>8, <1>9, <1>10, <1>11, <1>12, <1>13 DEF Base
------------------------------------------------------------------------------
(* The theorems.                                                             *)

LEMMA InitIInv == Init => IInv
<1> SUFFICES ASSUME Init  PROVE IInv
  OBVIOUS
<1>1. /\ stored \in {Nothing, Legacy} /\ views = <<>> /\ mounted = 0
      /\ calls = [n \in Slots |-> Idle] /\ history = [c \in Ids |-> <<>>]
      /\ created = 0 /\ budget \in Budgets /\ disturbed = FALSE /\ abandoned = FALSE
  BY DEF Init
<1>2. \A n \in Slots : calls[n] = Idle /\ calls[n].op = "idle"
  BY <1>1, IdleType
<1>3. Opened = 0 /\ views \in Seq(ViewSet) /\ 1..Opened = {}
  BY <1>1 DEF Opened
<1>4. stored.is \in {"nothing", "legacy"}
  BY <1>1 DEF Nothing, Legacy
<1>5. /\ budget \in [acts : Nat, views : Nat, troubles : Nat]
      /\ budget.acts \in 0..MaxActs /\ budget.views \in 1..MaxViews
  <2>1. budget \in [acts : 0..MaxActs, views : 1..MaxViews, troubles : Nat]
    BY <1>1, BoundsAssumption
  <2>2. 0..MaxActs \subseteq Nat /\ 1..MaxViews \subseteq Nat
    BY BoundsAssumption
  <2> QED
    BY <2>1, <2>2
<1>6. Types
  <2>1. calls \in [Slots -> CallSet]
    BY <1>1, IdleType
  <2>2. history \in [Ids -> Seq(Messages)]
    <3>1. <<>> \in Seq(Messages)
      OBVIOUS
    <3> QED
      BY <3>1, <1>1
  <2>3. stored.is \in {"nothing", "legacy", "list"} /\ stored.is # "list"
    BY <1>4
  <2>4. mounted \in 0..Opened /\ created \in Nat
    <3>1. mounted = 0 /\ created = 0 /\ Opened = 0
      BY <1>1, <1>3
    <3> QED
      BY <3>1
  <2>5. disturbed \in BOOLEAN /\ abandoned \in BOOLEAN
    BY <1>1
  <2> QED
    BY <2>1, <2>2, <2>3, <2>4, <2>5, <1>3, <1>5 DEF Types
<1>7. Bounded
  <2>1. Removals = {}
    BY <1>2 DEF Removals, Running
  <2>2. Cardinality(Removals) = 0
    BY <2>1, FS_EmptySet
  <2> QED
    BY <2>2, <1>1, <1>5, BoundsAssumption DEF Bounded
<1>8. Lists /\ Asked
  BY <1>2, <1>3, <1>4 DEF Lists, Asked
<1>9. SendingMeansAsked /\ Present
  BY <1>2, <1>3 DEF SendingMeansAsked, Present
<1>10. StoredIsSeen /\ Followed
  BY <1>1 DEF StoredIsSeen, Followed
<1>11. Untold
  BY <1>1 DEF Untold
<1> QED
  BY <1>6, <1>7, <1>8, <1>9, <1>10, <1>11 DEF IInv, Base

LEMMA UserStepKeeps ==
    ASSUME IInv, UserStep
    PROVE  IInv'
<1>1. CASE Mount
  BY <1>1, MountKeeps
<1>2. CASE Leave
  BY <1>2, LeaveKeeps
<1>3. CASE Reload
  BY <1>3, ReloadKeeps
<1>4. CASE Send
  BY <1>4, SendKeeps
<1>5. CASE NewConversation
  BY <1>5, NewConversationKeeps
<1>6. CASE CancelRename
  BY <1>6, CancelRenameKeeps
<1>7. ASSUME NEW id \in Ids, SelectConversation(id)  PROVE IInv'
  BY <1>7, SelectConversationKeeps
<1>8. ASSUME NEW id \in Ids, RenameConversation(id)  PROVE IInv'
  BY <1>8, RenameConversationKeeps
<1>9. ASSUME NEW id \in Ids, RemoveConversation(id)  PROVE IInv'
  BY <1>9, RemoveConversationKeeps
<1>10. ASSUME NEW title \in {"new", "given"}, SubmitRename(title)  PROVE IInv'
  BY <1>10, SubmitRenameKeeps DEF Titles
<1> QED
  BY <1>1, <1>2, <1>3, <1>4, <1>5, <1>6, <1>7, <1>8, <1>9, <1>10 DEF UserStep

LEMMA ResumeKeeps ==
    ASSUME IInv, NEW n \in Slots, Resume(n)
    PROVE  IInv'
<1>1. CASE SendAnswered(n)
  BY <1>1, SendAnsweredKeeps
<1>2. CASE SendFailed(n)
  BY <1>2, SendFailedKeeps
<1>3. CASE HistoryLoaded(n)
  BY <1>3, HistoryLoadedKeeps
<1>4. CASE Removed(n)
  BY <1>4, RemovedActiveKeeps, RemovedOtherKeeps
<1>5. CASE RemoveFailed(n)
  BY <1>5, RemoveFailedKeeps
<1> QED
  BY <1>1, <1>2, <1>3, <1>4, <1>5 DEF Resume

LEMMA StutterKeeps ==
    ASSUME IInv, UNCHANGED vars
    PROVE  IInv'
<1>1. UNCHANGED <<stored, views, mounted, calls, history, created, budget, disturbed, abandoned>>
  BY DEF vars
<1>2. Types'
  BY <1>1 DEF IInv, Base, Types, Opened
<1>3. Bounded' /\ Lists' /\ Asked'
  BY <1>1 DEF IInv, Base, Bounded, Removals, Running, Lists, Asked, Opened
<1>4. SendingMeansAsked' /\ Present' /\ Untold'
  BY <1>1 DEF IInv, SendingMeansAsked, Of, Running, Opened, Present, Untold
<1>5. StoredIsSeen'
  BY <1>1 DEF IInv, StoredIsSeen, Running, Shown
<1>6. Followed'
  BY <1>1 DEF IInv, Followed, Shown
<1> QED
  BY <1>2, <1>3, <1>4, <1>5, <1>6 DEF IInv, Base

\* The invariant is inductive: it holds initially, and every handler and every answer
\* of the server keeps it.
THEOREM ChatInductive == Spec => []IInv
<1>1. IInv /\ [Next]_vars => IInv'
  <2> SUFFICES ASSUME IInv, [Next]_vars  PROVE IInv'
    OBVIOUS
  <2>1. CASE UserStep
    BY <2>1, UserStepKeeps
  <2>2. ASSUME NEW n \in Slots, Serve(n) \/ AnswerAside(n) \/ Trouble(n) \/ Resume(n)  PROVE IInv'
    BY <2>2, ServeKeeps, TroubleKeeps, ResumeKeeps
  <2>3. CASE UNCHANGED vars
    BY <2>3, StutterKeeps
  <2> QED
    BY <2>1, <2>2, <2>3 DEF Next
<1> QED
  BY InitIInv, <1>1, PTL DEF Spec

\* Whatever has been created, selected and removed while answers were under way, a
\* view lists each of its conversations once and the active one among them, although
\* a removal picks the neighbour only after its await.
THEOREM ChatActiveListed == Spec => []ActiveIsListed
<1>1. IInv => ActiveIsListed
  <2> SUFFICES ASSUME IInv, NEW i \in 1..Opened
               PROVE  /\ views[i].active \in ToSet(views[i].list)
                      /\ \A j, k \in DOMAIN views[i].list : j # k => views[i].list[j] # views[i].list[k]
    BY DEF ActiveIsListed
  <2>1. GoodView(views[i], created)
    BY DEF IInv, Base, Lists
  <2> QED
    BY <2>1 DEF GoodView, GoodList, ToSet
<1> QED
  BY ChatInductive, <1>1, PTL

\* The composer is locked exactly while a text of the view is under way, and only one is.
THEOREM ChatSendingAsked == Spec => []SendingMeansAsked
<1>1. IInv => SendingMeansAsked
  BY DEF IInv
<1> QED
  BY ChatInductive, <1>1, PTL

\* A reload brings back what is shown, unless a replacement is still loading or a page
\* was left with a call under way.
THEOREM ChatStoredSeen == Spec => []StoredIsSeen
<1>1. IInv => StoredIsSeen
  BY DEF IInv
<1> QED
  BY ChatInductive, <1>1, PTL

\* When nothing is under way, and since the messages were last asked for or emptied no
\* call has failed, no text was answered otherwise than by a turn and no calls overlapped
\* in the sense of Touching (two loads of one view for two conversations count), the page
\* shows what the server has, but for the calls and results of tools before an answer.
THEOREM ChatShowsServer == Spec => []ShownMatchesServer
<1>1. IInv => ShownMatchesServer
  <2> SUFFICES ASSUME IInv, mounted # 0, Running = {}, ~disturbed
               PROVE  Alike(Shown.messages, history[Shown.active])
    BY DEF ShownMatchesServer, Alike
  <2>1. Touching(mounted, Shown.active) = {}
    BY DEF Touching
  <2> QED
    BY <2>1, ShownAtRest
<1> QED
  BY ChatInductive, <1>1, PTL

==============================================================================
