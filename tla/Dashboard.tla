------------------------------ MODULE Dashboard ------------------------------
(* The dashboard in one tab: the router shows one page at a time, a page's     *)
(* handlers go on when it has been left, the stores outlive every page, and    *)
(* the server serves what they ask in any order.  The chat page, which does    *)
(* not ask for tables, is in DashboardChat.                                    *)
EXTENDS DashboardTasks, DashboardModels, DashboardKnowledge, DashboardBiliWatch, DashboardMonitor

Routes == {"overview", "models", "tools", "scheduled-tasks", "knowledge", "biliwatch", "logs",
           "settings"}

ASSUME BoundsAssumption ==
    /\ MaxJobs \in Nat /\ MaxJobs >= 2
    /\ Budgets \subseteq [pages : SUBSET Routes, jobs : Nat, acts : Nat, visits : Nat,
                          others : Nat, failures : Nat, menu : Nat]

(* A page as it is set up, and the first thing its onMounted does. *)
Setup(p) ==
    CASE p = "overview" -> OverviewSetup
      [] p = "models" -> ModelsSetup
      [] p = "tools" -> ToolsSetup
      [] p = "scheduled-tasks" -> TasksSetup
      [] p = "knowledge" -> KnowledgeSetup
      [] p = "biliwatch" -> BiliWatchSetup
      [] p = "logs" -> LogsSetup
      [] p = "settings" -> SettingsSetup

OnMounted(p) ==
    CASE p = "overview" -> OverviewOnMounted
      [] p = "models" -> ModelsOnMounted
      [] p = "tools" -> ToolsOnMounted
      [] p = "scheduled-tasks" -> TasksOnMounted
      [] p = "knowledge" -> KnowledgeOnMounted
      [] p = "biliwatch" -> BiliWatchOnMounted
      [] p = "logs" -> LogsOnMounted
      [] p = "settings" -> SettingsOnMounted

MountJob(p, number) ==
    [op |-> OnMounted(p).op, id |-> None, form |-> None, visit |-> number,
     asks |-> Asked(OnMounted(p).asks)]

MountStores(p, s) ==
    CASE p = "overview" -> RefreshRuntime(s)
      [] p = "models" -> RefreshRuntime(RefreshModels(s))
      [] OTHER -> s

(* Mutant: the page of the logs does not clear its interval. *)
IntervalGoesOn == timer

(* onBeforeUnmount, and onMounted of the page that comes. *)
ClearInterval == 0
SetInterval(p, number, old) == IF p = "logs" THEN number ELSE old

(* The first row of each table is listed, and nobody has changed anything. *)
OldRow == CHOOSE r \in Rows : TRUE
OldValue == CHOOSE v \in Values : TRUE
Only1(value) == [r \in Rows |-> IF r = OldRow THEN value ELSE None]

InitialServer ==
    [tasks |-> Only1([def |-> OldValue, enabled |-> TRUE]), runs |-> [r \in Rows |-> 0],
     profiles |-> Only1(OldValue), active |-> None,
     collections |-> Collections, documents |-> Only1(CHOOSE c \in Collections : TRUE),
     retrieval |-> [k \in Kinds |-> FALSE],
     config |-> [settings |-> OldValue, cookie |-> FALSE], subscriptions |-> Only1(OldValue),
     deliveries |-> 0, logs |-> 1]

(* App.vue asks for the status; the router mounts the page of the address. *)
AppRefresh == [op |-> "refresh", id |-> None, form |-> None, visit |-> 0, asks |-> Asked({"status"})]

Init ==
    /\ budget \in Budgets
    /\ page \in budget.pages
    /\ visit = 1
    /\ server = InitialServer
    /\ refs = Setup(page)
    /\ stores = MountStores(page, RefreshRuntime(StoresSetup))
    /\ jobs = [n \in Slots |-> CASE n = 1 -> AppRefresh
                                 [] n = 2 -> MountJob(page, 1)
                                 [] OTHER -> Idle]
    /\ timer = SetInterval(page, 1, 0)
    /\ sure = TRUE

(* --- The user ------------------------------------------------------------ *)

(* A link of the sidebar: the page is left, its interval cleared, its handlers *)
(* go on; the next page is mounted.                                            *)
Navigate(p) ==
    /\ p \in budget.pages \ {page}
    /\ budget.visits > 0 /\ Free # {}
    /\ budget' = [budget EXCEPT !.visits = @ - 1]
    /\ page' = p
    /\ visit' = visit + 1
    /\ refs' = Setup(p)
    /\ stores' = MountStores(p, CloseSidebar)
    /\ jobs' = [jobs EXCEPT ![CHOOSE m \in Free : TRUE] = MountJob(p, visit + 1)]
    /\ timer' = SetInterval(p, visit + 1, ClearInterval)
    /\ sure' = (Reading(OnMounted(p).asks) = {})
    /\ UNCHANGED server

ToggleMenu ==
    /\ budget.menu > 0
    /\ budget' = [budget EXCEPT !.menu = @ - 1]
    /\ stores' = ToggleSidebar
    /\ UNCHANGED <<server, page, visit, refs, jobs, sure, timer>>

(* The button and the scrim of the sidebar, which are there when it is open. *)
CloseMenu ==
    /\ stores.sidebarOpen
    /\ stores' = CloseSidebar
    /\ UNCHANGED <<server, page, visit, refs, jobs, sure, timer, budget>>

(* A handler that asks the server. *)
Ask ==
    /\ Act
    /\ \/ page = "scheduled-tasks" /\ TasksAsk /\ UNCHANGED stores
       \/ page = "models" /\ ModelsAsk
       \/ page = "knowledge" /\ KnowledgeAsk /\ UNCHANGED stores
       \/ page = "biliwatch" /\ BiliWatchAsk /\ UNCHANGED stores
       \/ MonitorAsk
    /\ UNCHANGED <<server, page, visit, timer>>

(* One that only opens or closes something. *)
OpenOrClose ==
    /\ \/ page = "scheduled-tasks" /\ TasksOpenOrClose /\ UNCHANGED stores
       \/ page = "models" /\ ModelsOpenOrClose
       \/ page = "biliwatch" /\ BiliWatchOpenOrClose /\ UNCHANGED stores
       \/ page = "logs" /\ PauseLogs /\ UNCHANGED stores
    /\ UNCHANGED <<server, page, visit, timer, budget>>

(* --- The interval, the server, the handlers that go on -------------------- *)
Interval ==
    /\ page = "logs" /\ Tick
    /\ UNCHANGED <<server, page, visit, stores, timer, budget>>

Reply(job, a) ==
    CASE a \in TaskRequests -> TaskReply(job, a)
      [] a \in StoreRequests -> StoreReply(job, a)
      [] a \in ModelRequests -> ModelReply(job, a)
      [] a \in KnowledgeRequests -> KnowledgeReply(job, a)
      [] a \in BiliWatchRequests -> BiliWatchReply(job, a)
      [] a \in MonitorRequests -> MonitorReply(job, a)

Waiting(n) == {a \in DOMAIN jobs[n].asks : jobs[n].asks[a] = Sent}

(* The request is served.  What was done for a page that has been left is not  *)
(* read again by the page that is shown.                                       *)
Serve(n) ==
    \E a \in Waiting(n) :
        LET reply == Reply(jobs[n], a) IN
        /\ server' = reply.server
        /\ jobs' = [jobs EXCEPT ![n].asks[a] = IF reply.ok THEN Answer(reply.value) ELSE Failure]
        /\ sure' = (sure /\ (reply.server = server \/ jobs[n].visit = visit))
        /\ UNCHANGED <<page, visit, refs, stores, timer, budget>>

(* fetch fails, or the answer is no JSON: the request was done, or it was not. *)
Lose(n) ==
    /\ budget.failures > 0
    /\ \E a \in Waiting(n) :
          /\ server' \in {server, Reply(jobs[n], a).server}
          /\ jobs' = [jobs EXCEPT ![n].asks[a] = Failure]
    /\ budget' = [budget EXCEPT !.failures = @ - 1]
    /\ sure' = FALSE
    /\ UNCHANGED <<page, visit, refs, stores, timer>>

(* What a chat command, a tool of the agent, the scheduler or another tab does. *)
Elsewhere ==
    /\ budget.others > 0
    /\ budget' = [budget EXCEPT !.others = @ - 1]
    /\ \/ /\ "scheduled-tasks" \in budget.pages
          /\ \E r \in Rows, t \in ScheduledTask \union {None} :
                server' = [server EXCEPT !.tasks[r] = t, !.runs[r] = 0]
       \/ /\ "models" \in budget.pages
          /\ \E r \in Rows \union {None} :
                /\ r # None => server.profiles[r] # None
                /\ server' = [server EXCEPT !.active = r]
       \/ /\ "biliwatch" \in budget.pages /\ server.deliveries < MaxDeliveries
          /\ server' = [server EXCEPT !.deliveries = @ + 1]
       \/ /\ "logs" \in budget.pages /\ server.logs < MaxLogs
          /\ server' = [server EXCEPT !.logs = @ + 1]
    /\ sure' = FALSE
    /\ UNCHANGED <<page, visit, refs, stores, jobs, timer>>

Resume(n) ==
    /\ \/ TasksResume(n) /\ UNCHANGED stores
       \/ ModelsResume(n)
       \/ KnowledgeResume(n) /\ UNCHANGED stores
       \/ BiliWatchResume(n) /\ UNCHANGED stores
       \/ MonitorResume(n)
       \/ RefreshAlone(n)
    /\ UNCHANGED <<server, page, visit, timer, budget>>

Next ==
    \/ \E p \in Routes : Navigate(p)
    \/ ToggleMenu \/ CloseMenu \/ Ask \/ OpenOrClose \/ Interval \/ Elsewhere
    \/ \E n \in Slots : Serve(n) \/ Lose(n) \/ Resume(n)

Spec == Init /\ [][Next]_<<vars, timer>>

(* A request is served or fails, a handler goes on, the interval fires. *)
Fairness ==
    /\ \A n \in Slots : WF_<<vars, timer>>(Serve(n)) /\ WF_<<vars, timer>>(Resume(n))
    /\ WF_<<vars, timer>>(Interval)

FairSpec == Spec /\ Fairness

(* --- Properties ---------------------------------------------------------- *)

(* The refs of the mounted page, the stores and the handlers have their types. *)
TypeOK ==
    /\ page \in Routes
    /\ refs \in CASE page = "scheduled-tasks" -> TasksRefs
                  [] page = "models" -> ModelsRefs
                  [] page = "knowledge" -> KnowledgeRefs
                  [] page = "biliwatch" -> BiliWatchRefs
                  [] OTHER -> MonitorRefs
    /\ [profiles |-> stores.profiles, profilesLoading |-> stores.profilesLoading] \in ModelStore
    /\ [status |-> stores.status, statusLoading |-> stores.statusLoading,
        statusError |-> stores.statusError] \in RuntimeStore
    /\ [sidebarOpen |-> stores.sidebarOpen] \in UiStore
    /\ \A n \in Running : jobs[n].visit \in 0..visit
    /\ timer \in {0, visit}

(* When nothing is under way, and nothing has failed, been done elsewhere or    *)
(* been overtaken by an older reading since the page was last loaded, the page *)
(* shows what the server holds: every handler that changes something loads it  *)
(* again (load, loadDocuments and refresh at the end of the handlers).         *)
SettledShowsServer ==
    Running = {} /\ sure =>
        CASE page = "scheduled-tasks" -> TasksShown
          [] page = "models" -> ModelsShown
          [] page = "knowledge" -> DocumentsShown
          [] page = "biliwatch" -> BiliWatchShown
          [] OTHER -> MonitorShown

(* A spinner, or a button that is disabled, belongs to a request of this page   *)
(* that is under way: no order of answers leaves one on for ever (the finally  *)
(* of each handler; the flags are shared by several handlers).                 *)
BusyMeansAsked ==
    /\ StoresBusy
    /\ CASE page = "scheduled-tasks" -> TasksBusy
         [] page = "models" -> ModelsBusy
         [] page = "knowledge" -> KnowledgeBusy
         [] page = "biliwatch" -> BiliWatchBusy
         [] OTHER -> MonitorBusy

(* What a form saves goes to the row it was opened for, and a new row is       *)
(* created only from a form that was opened empty, whatever was edited or      *)
(* saved before (editingId, editing and form are set apart from each other).   *)
SavedWhereOpened ==
    \A n \in Running :
        /\ jobs[n].op \in {"save", "saveSubscription"} => jobs[n].form.of = jobs[n].id
        /\ jobs[n].op = "submitEdit" => jobs[n].form.of \in {jobs[n].id, None}
        /\ jobs[n].op = "submitSingle" => jobs[n].form.of = None

(* On a page of logs that stays, and stays live, the newest entries are shown   *)
(* in the end, whatever readings overlapped or failed before (LogsView.vue's   *)
(* interval).                                                                  *)
LiveLogsCatchUp ==
    <>[](page = "logs" /\ refs.live) => <>[](page = "logs" => refs.logs = server.logs)

(* The card of the knowledge page says that it lists the documents of the      *)
(* current collection.                                                         *)
ListedAreOfSelected ==
    page = "knowledge" /\ Running = {} =>
        \A d \in Rows : refs.documents[d] \in {None, refs.selected}
==============================================================================
