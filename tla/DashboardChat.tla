---------------------------- MODULE DashboardChat ----------------------------
(* ChatView.vue: the conversations of the web chat.  Their list is kept in the *)
(* browser's localStorage, their messages on the server.  Each time the page   *)
(* is opened it is a new view with refs of its own; the handlers of a view     *)
(* that has been left go on with its refs, and write localStorage, when their  *)
(* answers come.  Texts are numbered; a title is new, taken from the first     *)
(* text, or given.                                                             *)
EXTENDS Integers, Sequences, FiniteSets, SequencesExt

CONSTANTS
    MaxViews,  \* bound: times the page is opened
    MaxCalls,  \* bound: calls under way at once
    MaxActs,   \* bound: handlers of the user that ask or change something
    Budgets    \* bounds, one record per scenario: see budget

ASSUME BoundsAssumption ==
    /\ MaxViews \in Nat \ {0} /\ MaxCalls \in Nat \ {0} /\ MaxActs \in Nat
    /\ Budgets \subseteq [acts : 0..MaxActs, views : 1..MaxViews, troubles : Nat]

VARIABLES
    stored,    \* localStorage
    views,     \* the refs of every view so far
    mounted,   \* the view that is shown; 0 when another page is
    calls,     \* by slot: the calls of the views; Idle is a free slot
    history,   \* the server: the messages of each conversation
    created,   \* conversations created so far: their ids are fresh
    budget,    \* bounds: [acts, views, troubles] still to be used
    disturbed, \* history: since the messages were loaded, calls overlapped (Touching), or one
               \*   failed or was answered otherwise than by a turn
    abandoned  \* history: a page was left or reloaded with a call under way

vars == <<stored, views, mounted, calls, history, created, budget, disturbed, abandoned>>

Views == 1..MaxViews
Slots == 1..MaxCalls
Texts == 1..MaxActs
Ids == 1..(MaxViews + MaxActs)  \* a visit, or an action of the user, creates one at most

None == 0  \* no conversation, no text

(* types.ts: of a message its role and text, of an answer its text, of a listed *)
(* conversation its id and title.  The roles of the server's messages are       *)
(* "user"; "assistant", an answer the model gave at once; "tools", calls of      *)
(* tools and their results that no answer follows yet; and "worked", an answer   *)
(* together with the calls and results it follows: the page lists them when it   *)
(* loads them, and not when it waits for the answer.                             *)
HistoryMessage(role, text) == <<role, text>>
ChatResponse(text) == HistoryMessage("assistant", text)
ConversationSummary(v, id) == [id |-> id, title |-> v.title[id]]

Idle == [view |-> 0, op |-> "idle", id |-> None, text |-> None, answer |-> "none", value |-> <<>>]
Running == {n \in Slots : calls[n].op # "idle"}
Free == Slots \ Running
Of(i) == {n \in Running : calls[n].view = i}

(* api.send, api.history and api.deleteConversation *)
Call(i, op, id, text) ==
    [view |-> i, op |-> op, id |-> id, text |-> text, answer |-> "sent", value |-> <<>>]
Ask(i, op, id, text) ==
    calls' = [calls EXCEPT ![CHOOSE n \in Free : TRUE] = Call(i, op, id, text)]
Drop(n) == calls' = [calls EXCEPT ![n] = Idle]

(* The calls whose answer changes the messages of view i, those it made for     *)
(* another conversation included, for loadHistory shows what comes wherever the *)
(* view is by then; and the calls that may change conversation id on the server. *)
Touching(i, id) ==
    {n \in Running : \/ calls[n].view = i /\ calls[n].op # "remove"
                     \/ calls[n].op \in {"send", "remove"} /\ calls[n].id = id}

(* --- localStorage --------------------------------------------------------- *)
Nothing == [is |-> "nothing"]
Legacy == [is |-> "legacy"]  \* what an older version left: one conversation's id
Conversation(v) == [is |-> "list", active |-> v.active,
                    list |-> [k \in DOMAIN v.list |-> ConversationSummary(v, v.list[k])]]
PersistConversations(v) == stored' = Conversation(v)

(* loadConversations, and the conversation created when there is none; id is fresh. *)
LoadConversations(id) ==
    CASE stored.is = "nothing" -> [list |-> <<id>>, title |-> [c \in Ids |-> "new"]]
      [] stored.is = "legacy" -> [list |-> <<id>>, title |-> [c \in Ids |-> "given"]]
      [] stored.is = "list" ->
            [list |-> [k \in DOMAIN stored.list |-> stored.list[k].id],
             title |-> [c \in Ids |-> IF \E item \in ToSet(stored.list) : item.id = c
                                      THEN (CHOOSE item \in ToSet(stored.list) : item.id = c).title
                                      ELSE "new"]]

ActiveOf(list) == IF stored.is = "list" /\ stored.active \in ToSet(list) THEN stored.active ELSE list[1]

ViewOf(id) ==
    LET known == LoadConversations(id)
    IN  [list |-> known.list, title |-> known.title, active |-> ActiveOf(known.list),
         messages |-> <<>>, sending |-> FALSE, renaming |-> None]

(* --- Opening and leaving the page ------------------------------------------ *)
Opened == Len(views)

(* setup and onMounted: the list is stored again, the active messages are asked. *)
Mount ==
    LET v == ViewOf(created + 1) IN
    /\ mounted = 0 /\ budget.views > 0 /\ Free # {}
    /\ budget' = [budget EXCEPT !.views = @ - 1]
    /\ views' = Append(views, v)
    /\ mounted' = Opened + 1
    /\ created' = IF stored.is = "list" THEN created ELSE created + 1
    /\ PersistConversations(v)
    /\ Ask(Opened + 1, "history", v.active, None)
    /\ disturbed' = \E n \in Running : calls[n].id = v.active
    /\ UNCHANGED <<history, abandoned>>

(* Another page is shown: the handlers under way go on. *)
Leave ==
    /\ mounted # 0
    /\ mounted' = 0
    /\ abandoned' = (abandoned \/ Of(mounted) # {})
    /\ UNCHANGED <<stored, views, calls, history, created, budget, disturbed>>

(* The tab is loaded again: nothing of the page goes on, and what has been asked *)
(* may still be done.                                                            *)
Reload ==
    /\ Opened > 0
    /\ mounted' = 0
    /\ calls' = [n \in Slots |-> IF n \in Running /\ calls[n].answer = "sent" /\ calls[n].op \in {"send", "remove"}
                                 THEN [calls[n] EXCEPT !.view = 0] ELSE Idle]
    /\ abandoned' = (abandoned \/ Running # {})
    /\ views' = [i \in DOMAIN views |-> [views[i] EXCEPT !.sending = FALSE]]
    /\ UNCHANGED <<stored, history, created, budget, disturbed>>

(* --- The user -------------------------------------------------------------- *)
Shown == views[mounted]
Update(v) == views' = [views EXCEPT ![mounted] = v]

(* The dialog that renames covers the page. *)
Act ==
    /\ mounted # 0 /\ budget.acts > 0
    /\ Shown.renaming = None
    /\ budget' = [budget EXCEPT !.acts = @ - 1]
    /\ UNCHANGED <<mounted, history, abandoned>>

(* The text in the composer, each time another one. *)
Composed == budget.acts

(* Mutant: Enter sends while an answer is awaited. *)
SendAnyTime ==
    /\ Act /\ Free # {}
    /\ Update([Shown EXCEPT !.messages = Append(@, HistoryMessage("user", Composed)), !.sending = TRUE])
    /\ Ask(mounted, "send", Shown.active, Composed)
    /\ disturbed' = (disturbed \/ Touching(mounted, Shown.active) # {})
    /\ UNCHANGED <<stored, created>>

Send ==
    /\ Act /\ Free # {}
    /\ ~Shown.sending
    /\ Update([Shown EXCEPT !.messages = Append(@, HistoryMessage("user", Composed)), !.sending = TRUE])
    /\ Ask(mounted, "send", Shown.active, Composed)
    /\ disturbed' = (disturbed \/ Touching(mounted, Shown.active) # {})
    /\ UNCHANGED <<stored, created>>

SelectConversation(id) ==
    LET v == [Shown EXCEPT !.active = id, !.messages = <<>>] IN
    /\ Act /\ Free # {}
    /\ ~Shown.sending /\ id \in ToSet(Shown.list) /\ id # Shown.active
    /\ Update(v)
    /\ PersistConversations(v)
    /\ Ask(mounted, "history", id, None)
    /\ disturbed' = (Touching(mounted, id) # {})
    /\ UNCHANGED created

(* Mutant: the messages of the conversation before stay. *)
NewConversationOverOld ==
    LET id == created + 1
        v == [Shown EXCEPT !.list = <<id>> \o @, !.active = id]
    IN  /\ Act
        /\ ~Shown.sending
        /\ Update(v)
        /\ created' = id
        /\ PersistConversations(v)
        /\ disturbed' = (Touching(mounted, id) # {})
        /\ UNCHANGED calls

NewConversation ==
    LET id == created + 1
        v == [Shown EXCEPT !.list = <<id>> \o @, !.active = id, !.messages = <<>>]
    IN  /\ Act
        /\ ~Shown.sending
        /\ Update(v)
        /\ created' = id
        /\ PersistConversations(v)
        /\ disturbed' = (Touching(mounted, id) # {})
        /\ UNCHANGED calls

RenameConversation(id) ==
    /\ mounted # 0 /\ Shown.renaming = None
    /\ ~Shown.sending /\ id \in ToSet(Shown.list)
    /\ budget.acts > 0
    /\ Update([Shown EXCEPT !.renaming = id])
    /\ UNCHANGED <<stored, mounted, calls, history, created, budget, disturbed, abandoned>>

(* The dialog holds the conversation itself, which may leave the list meanwhile. *)
SubmitRename(title) ==
    LET v == [Shown EXCEPT !.title[Shown.renaming] = title, !.renaming = None] IN
    /\ mounted # 0 /\ budget.acts > 0
    /\ Shown.renaming # None
    /\ budget' = [budget EXCEPT !.acts = @ - 1]
    /\ Update(v)
    /\ PersistConversations(v)
    /\ UNCHANGED <<mounted, calls, history, created, disturbed, abandoned>>

CancelRename ==
    /\ mounted # 0 /\ Shown.renaming # None
    /\ Update([Shown EXCEPT !.renaming = None])
    /\ UNCHANGED <<stored, mounted, calls, history, created, budget, disturbed, abandoned>>

(* The confirmation of a row may be clicked again until the row goes. *)
RemoveConversation(id) ==
    /\ Act /\ Free # {}
    /\ ~Shown.sending /\ id \in ToSet(Shown.list)
    /\ Ask(mounted, "remove", id, None)
    /\ disturbed' = (disturbed \/ (id = Shown.active /\ Touching(mounted, id) # {}))
    /\ UNCHANGED <<stored, views, created>>

(* --- The server ------------------------------------------------------------ *)

(* A turn: the text and the model's answer, with tools or without. *)
Turns(n) ==
    {history[calls[n].id] \o <<HistoryMessage("user", calls[n].text), HistoryMessage(role, calls[n].text)>> :
        role \in {"assistant", "worked"}}

(* What is recorded of a text before its answer, which of it being left open:    *)
(* nothing (a command, a vote that is refused, a text while a call waits for     *)
(* approval); the text, alone or with calls of tools (approval is asked, or the  *)
(* model fails); or, when a call waited and is settled, by a vote or by the      *)
(* first text after it expired, its result.                                      *)
Waits(messages) == messages # <<>> /\ Last(messages)[1] = "tools"
Kept(n) ==
    LET before == history[calls[n].id]
        user == HistoryMessage("user", calls[n].text)
        tools == HistoryMessage("tools", calls[n].text)
    IN  {before, Append(before, user), before \o <<user, tools>>}
        \union {after \in {Append(before, tools)} : Waits(before)}

(* What else than a turn a text can make of its conversation: also the model may *)
(* answer once a call is settled, and /reset empties it.                         *)
Asides(n) ==
    LET before == history[calls[n].id]
    IN  Kept(n) \union {<<>>}
        \union {after \in {Append(before, HistoryMessage("worked", calls[n].text))} : Waits(before)}

(* What the server tells of a conversation while it works on a text of it. *)
Readings(id) ==
    {history[id]} \union
        UNION {Kept(n) : n \in {m \in Running : calls[m].op = "send" /\ calls[m].answer = "sent" /\ calls[m].id = id}}

Answered(n, value) ==
    calls' = IF calls[n].view = 0 THEN [calls EXCEPT ![n] = Idle]
             ELSE [calls EXCEPT ![n].answer = "answer", ![n].value = value]
Failed(n) ==
    calls' = IF calls[n].view = 0 THEN [calls EXCEPT ![n] = Idle]
             ELSE [calls EXCEPT ![n].answer = "failure"]

Serve(n) ==
    /\ n \in Running /\ calls[n].answer = "sent"
    /\ LET id == calls[n].id IN
       CASE calls[n].op = "send" ->
              /\ \E after \in Turns(n) : history' = [history EXCEPT ![id] = after]
              /\ Answered(n, <<>>)
         [] calls[n].op = "remove" ->
              /\ history' = [history EXCEPT ![id] = <<>>]
              /\ Answered(n, <<>>)
         [] calls[n].op \in {"history", "replacement"} ->
              /\ \E value \in Readings(id) : Answered(n, value)
              /\ UNCHANGED history
    /\ UNCHANGED <<stored, views, mounted, created, budget, disturbed, abandoned>>

(* A text that is answered with something that is not recorded: the reply to a   *)
(* command, the prompt that asks for approval, the answer of a vote, which is    *)
(* not recorded itself, the words that processing failed.                        *)
AnswerAside(n) ==
    /\ budget.troubles > 0
    /\ n \in Running /\ calls[n].answer = "sent" /\ calls[n].op = "send"
    /\ \E after \in Asides(n) : history' = [history EXCEPT ![calls[n].id] = after]
    /\ Answered(n, <<>>)
    /\ budget' = [budget EXCEPT !.troubles = @ - 1]
    /\ disturbed' = TRUE
    /\ UNCHANGED <<stored, views, mounted, created, abandoned>>

(* A request fails when it was done, when a part of it was, or nothing. *)
Trouble(n) ==
    /\ budget.troubles > 0
    /\ n \in Running /\ calls[n].answer = "sent"
    /\ Failed(n)
    /\ LET id == calls[n].id IN
       CASE calls[n].op = "send" ->
              \E after \in Turns(n) \union Asides(n) : history' = [history EXCEPT ![id] = after]
         [] calls[n].op = "remove" -> history' \in {history, [history EXCEPT ![id] = <<>>]}
         [] calls[n].op \in {"history", "replacement"} -> UNCHANGED history
    /\ budget' = [budget EXCEPT !.troubles = @ - 1]
    /\ disturbed' = TRUE
    /\ UNCHANGED <<stored, views, mounted, created, abandoned>>

(* --- The handlers that go on, each with the refs of its view --------------- *)
Returned(n) == n \in Running /\ calls[n].answer # "sent"
Its(n) == views[calls[n].view]
Change(n, v) == views' = [views EXCEPT ![calls[n].view] = v]
Same == UNCHANGED <<mounted, history, budget, abandoned>>

(* activeConversation: the active one of the list, or the first. *)
ActiveConversation(v) == IF v.active \in ToSet(v.list) THEN v.active ELSE v.list[1]

(* The answer is shown where the view is by now, and titles what is active by now. *)
SendAnswered(n) ==
    LET titled == ActiveConversation(Its(n))
        untitled == Its(n).title[titled] = "new"
        v == [Its(n) EXCEPT !.messages = Append(@, ChatResponse(calls[n].text)), !.sending = FALSE,
                            !.title[titled] = IF untitled THEN "auto" ELSE @]
    IN  /\ Returned(n) /\ calls[n].op = "send" /\ calls[n].answer = "answer"
        /\ Change(n, v)
        /\ IF untitled THEN PersistConversations(v) ELSE UNCHANGED stored
        /\ Drop(n)
        /\ Same /\ UNCHANGED <<created, disturbed>>

(* Mutant: the flag is cleared after the answer only, not in a finally. *)
SendFailedSending(n) ==
    /\ Returned(n) /\ calls[n].op = "send" /\ calls[n].answer = "failure"
    /\ Drop(n)
    /\ Same /\ UNCHANGED <<stored, views, created, disturbed>>

SendFailed(n) ==
    /\ Returned(n) /\ calls[n].op = "send" /\ calls[n].answer = "failure"
    /\ Change(n, [Its(n) EXCEPT !.sending = FALSE])
    /\ Drop(n)
    /\ Same /\ UNCHANGED <<stored, created, disturbed>>

(* Mutant: the list is not stored after the active conversation was removed. *)
HistoryLoadedUnstored(n) ==
    LET v == IF calls[n].answer = "answer" THEN [Its(n) EXCEPT !.messages = calls[n].value] ELSE Its(n)
    IN  /\ Returned(n) /\ calls[n].op \in {"history", "replacement"}
        /\ Change(n, v)
        /\ Drop(n)
        /\ Same /\ UNCHANGED <<stored, created, disturbed>>

(* loadHistory after its await; a removal then stores the list. *)
HistoryLoaded(n) ==
    LET v == IF calls[n].answer = "answer" THEN [Its(n) EXCEPT !.messages = calls[n].value] ELSE Its(n)
    IN  /\ Returned(n) /\ calls[n].op \in {"history", "replacement"}
        /\ Change(n, v)
        /\ IF calls[n].op = "replacement" THEN PersistConversations(v) ELSE UNCHANGED stored
        /\ Drop(n)
        /\ Same /\ UNCHANGED <<created, disturbed>>

(* Mutant: the one after the removed one. *)
NeighbourAfter(rest, at, fresh) == IF at <= Len(rest) THEN rest[at] ELSE fresh

(* The neighbour that becomes active when the active one is removed: the one    *)
(* before it, or the first, or a new one when there is none at that place.      *)
Neighbour(rest, at, fresh) ==
    LET before == IF at <= 1 THEN 1 ELSE at - 1
    IN  IF before <= Len(rest) THEN rest[before] ELSE fresh

(* The place of a conversation in the list, 0 when it is not listed, and the    *)
(* others of the list; a conversation is listed once (ActiveIsListed).          *)
PlaceOf(list, id) == IF id \in ToSet(list) THEN CHOOSE k \in DOMAIN list : list[k] = id ELSE 0
Without(list, id) == IF id \in ToSet(list) THEN RemoveAt(list, PlaceOf(list, id)) ELSE list

Removed(n) ==
    LET id == calls[n].id
        rest == Without(Its(n).list, id)
        next == Neighbour(rest, PlaceOf(Its(n).list, id), created + 1)
        shorter == [Its(n) EXCEPT !.list = rest]
        moved == [Its(n) EXCEPT !.list = IF rest = <<>> THEN <<next>> ELSE rest,
                                !.active = next, !.messages = <<>>]
    IN  /\ Returned(n) /\ calls[n].op = "remove" /\ calls[n].answer = "answer"
        /\ IF id = Its(n).active
           THEN /\ Change(n, moved)
                /\ created' = IF next = created + 1 THEN next ELSE created
                /\ calls' = [calls EXCEPT ![n] = Call(calls[n].view, "replacement", next, None)]
                /\ disturbed' = (disturbed \/ Touching(calls[n].view, next) \ {n} # {})
                /\ UNCHANGED stored
           ELSE /\ Change(n, shorter)
                /\ PersistConversations(shorter)
                /\ Drop(n)
                /\ UNCHANGED <<created, disturbed>>
        /\ Same

RemoveFailed(n) ==
    /\ Returned(n) /\ calls[n].op = "remove" /\ calls[n].answer = "failure"
    /\ Drop(n)
    /\ Same /\ UNCHANGED <<stored, views, created, disturbed>>

Resume(n) == SendAnswered(n) \/ SendFailed(n) \/ HistoryLoaded(n) \/ Removed(n) \/ RemoveFailed(n)

(* --- Specification --------------------------------------------------------- *)
Init ==
    /\ stored \in {Nothing, Legacy}
    /\ views = <<>> /\ mounted = 0
    /\ calls = [n \in Slots |-> Idle]
    /\ history = [c \in Ids |-> <<>>]
    /\ created = 0 /\ budget \in Budgets
    /\ disturbed = FALSE /\ abandoned = FALSE

UserStep ==
    \/ Mount \/ Leave \/ Reload
    \/ Send \/ NewConversation \/ CancelRename
    \/ \E id \in Ids : SelectConversation(id) \/ RenameConversation(id) \/ RemoveConversation(id)
    \/ \E title \in {"new", "given"} : SubmitRename(title)

Next == UserStep \/ \E n \in Slots : Serve(n) \/ AnswerAside(n) \/ Trouble(n) \/ Resume(n)

Spec == Init /\ [][Next]_vars

(* The server answers, or the request fails; the handler that waited goes on. *)
Fairness == \A n \in Slots : WF_vars(Serve(n)) /\ WF_vars(Resume(n))
FairSpec == Spec /\ Fairness

(* --- Properties ------------------------------------------------------------ *)

(* Whatever has been created, selected and removed while answers were under way, *)
(* a view has a conversation, each listed once, and the active one is listed     *)
(* (removeConversation picks a replacement after its await).                     *)
ActiveIsListed ==
    \A i \in 1..Opened :
        /\ views[i].active \in ToSet(views[i].list)
        /\ \A j, k \in DOMAIN views[i].list : j # k => views[i].list[j] # views[i].list[k]

(* Messages as the page shows them when it waited for them: an answer without the *)
(* calls and results of tools before it.                                         *)
AsSaid(message) == IF message[1] = "worked" THEN ChatResponse(message[2]) ELSE message
Said(messages) == [k \in DOMAIN messages |-> AsSaid(messages[k])]

(* At rest the page shows the messages the server has of the active conversation, *)
(* but for the calls and results of tools that came before an answer: what send   *)
(* pushed is what was recorded, in its order, and nothing is left of another      *)
(* conversation, whichever texts, selections, removals and visits brought it      *)
(* there.  That is since the messages were last asked for or emptied, and unless  *)
(* since then a call failed; a text was not answered by a turn, when what the     *)
(* page shows is not what is recorded; a call that changes the conversation on    *)
(* the server overlapped; or two calls overlapped that show their answer in the   *)
(* view, even for two conversations: loadHistory does not ask whether the answer  *)
(* is still of the active one.                                                    *)
ShownMatchesServer ==
    mounted # 0 /\ Running = {} /\ ~disturbed => Said(Shown.messages) = Said(history[Shown.active])

(* What localStorage has is what the page shows, so that a reload brings the same *)
(* list, titles and active conversation back, unless a removal of the active one  *)
(* is still loading or a page was left with a call under way, whose handler may   *)
(* store the list of a view that is gone.                                         *)
StoredIsSeen ==
    mounted # 0 /\ ~abandoned /\ (\A n \in Running : calls[n].op # "replacement")
        => stored = Conversation(Shown)

(* A view waits for one answer at a time, and only while its text is under way:  *)
(* the composer is never locked for nothing, and no text is sent twice.          *)
SendingMeansAsked ==
    \A i \in 1..Opened :
        LET asked == {n \in Of(i) : calls[n].op = "send"}
        IN  /\ views[i].sending <=> asked # {}
            /\ \A m, n \in asked : m = n

(* A page that waits for an answer can be typed into again in the end, if it is  *)
(* not left (fetch resolves or rejects, and send's finally clears the flag).     *)
SendingEnds ==
    (mounted # 0 /\ Shown.sending) ~> (mounted # 0 => ~Shown.sending)
==============================================================================
