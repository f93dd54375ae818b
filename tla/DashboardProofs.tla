--------------------------- MODULE DashboardProofs ---------------------------
(***************************************************************************)
(* TypeOK, SavedWhereOpened, BusyMeansAsked and SettledShowsServer for any *)
(* tables, values, collections and bounds, any number of handlers under    *)
(* way, of pages that are shown or have been left, and any order of their  *)
(* answers.                                                                *)
(*                                                                         *)
(* The argument: what a handler asks for is known from which handler it is *)
(* (Questions), and so is what it takes from the answers; a handler of the *)
(* mounted visit is one of the mounted page's (Hands), so that it knows    *)
(* the refs it assigns to.  A flag that says that something is under way   *)
(* names a handler, which keeps its slot until it takes the flag back.     *)
(*                                                                         *)
(* What a page shows at rest follows from what it shows, is reading or is  *)
(* going to read meanwhile (Settles): while the page is sure, a handler    *)
(* that has changed something will load the page again (Owes), or what is  *)
(* shown of each thing is what the server holds, unless a handler reads it *)
(* whose answers, so far, are what the server holds (Reads, Right).        *)
(***************************************************************************)
EXTENDS Dashboard, TLAPS

TaskOps == {"load", "save", "delete", "run", "toggle", "history"}
ModelPageOps == ModelOps \union {"loadModels", "test"}

OpsOf(p) ==
    CASE p = "scheduled-tasks" -> TaskOps
      [] p = "models" -> ModelPageOps
      [] p = "knowledge" -> KnowledgeOps
      [] p = "biliwatch" -> BiliWatchOps
      [] p = "overview" -> {"loadOverview"}
      [] p = "logs" -> {"loadLogs"}
      [] p = "tools" -> {"loadTools"}
      [] p = "settings" -> {"loadSettings"}

\* What a handler asks for at a time: first what it is for, then the lists again.
TaskQuestions(op) ==
    CASE op = "load" -> {TaskList}
      [] op = "save" -> {{"createScheduledTask"}, {"updateScheduledTask"}, TaskList}
      [] op = "delete" -> {{"deleteScheduledTask"}, TaskList}
      [] op = "run" -> {{"runScheduledTask"}, TaskList}
      [] op = "toggle" -> {{"updateScheduledTask"}, TaskList}
      [] op = "history" -> {{"scheduledTaskRuns"}}

ModelQuestions(op) ==
    CASE op = "loadModels" -> {ModelsLoad}
      [] op \in {"submitSingle", "submitBulk"} -> {{"importModels"}, ModelsLoad}
      [] op = "submitEdit" -> {{"updateModel"}, ModelsLoad}
      [] op = "activate" -> {{"activateModel"}, ModelsLoad}
      [] op = "useEnvironment" -> {{"activateEnvironment"}, ModelsLoad}
      [] op = "remove" -> {{"deleteModel"}, ModelsLoad}
      [] op = "test" -> {{"testModel"}}

KnowledgeQuestions(op) ==
    CASE op = "collections" -> {{"knowledgeBases"}, {"knowledgeDocuments"}, {"knowledgeModels"}}
      [] op = "documents" -> {{"knowledgeDocuments"}}
      [] op = "upload" -> {{"uploadKnowledgeDocument"}, {"knowledgeDocuments"}}
      [] op = "importUrl" -> {{"importKnowledgeUrl"}, {"knowledgeDocuments"}}
      [] op = "removeDocument" -> {{"deleteKnowledgeDocument"}, {"knowledgeDocuments"}}
      [] op = "search" -> {{"searchKnowledge"}}
      [] op = "rebuild" -> {{"rebuildKnowledge"}}
      [] op = "testModel" -> {{"testKnowledgeModel"}}
      [] op = "saveModel" -> {{"importKnowledgeModel"}, {"knowledgeModels"}}

BiliWatchQuestions(op) ==
    CASE op = "loadBiliWatch" -> {BiliWatchLoad}
      [] op = "saveSubscription" ->
            {{"createBiliWatchSubscription"}, {"updateBiliWatchSubscription"}, BiliWatchLoad}
      [] op = "removeSubscription" -> {{"deleteBiliWatchSubscription"}, BiliWatchLoad}
      [] op = "saveConfig" -> {{"updateBiliWatchConfig"}, BiliWatchLoad}
      [] op = "testCookie" -> {{"testBiliWatchCookie"}}

MonitorQuestions(op) ==
    CASE op = "loadOverview" -> {OverviewLoad}
      [] op = "loadLogs" -> {{"logs"}}
      [] op = "loadTools" -> {{"tools"}}
      [] op = "loadSettings" -> {{"config"}}

MonitorOps == {"loadOverview", "loadLogs", "loadTools", "loadSettings"}

Questions(op) ==
    CASE op \in TaskOps -> TaskQuestions(op)
      [] op \in ModelPageOps -> ModelQuestions(op)
      [] op \in KnowledgeOps -> KnowledgeQuestions(op)
      [] op \in BiliWatchOps -> BiliWatchQuestions(op)
      [] op \in MonitorOps -> MonitorQuestions(op)
      [] op = "refresh" -> {{"models"}, {"status"}, StoreRequests}
      [] op = "idle" -> {{}}

Ops == TaskOps \union ModelPageOps \union KnowledgeOps \union BiliWatchOps \union MonitorOps
           \union {"refresh", "idle"}

\* What the server needs of a handler to serve its request.
Fit(j, a) ==
    /\ a \in TaskRequests => j.id \in Rows \union {None}
    /\ a \in {"createScheduledTask", "updateScheduledTask"} =>
          j.form \in ScheduledTaskRequest /\ j.form.def \in Values
    /\ a \in ModelRequests => j.id \in Rows \union {None}
    /\ a \in {"importModels", "updateModel"} => j.form \in ModelProfileInput
    /\ a \in {"knowledgeDocuments", "uploadKnowledgeDocument", "importKnowledgeUrl",
              "searchKnowledge"} => j.id \in Collections
    /\ a = "deleteKnowledgeDocument" => j.form \in Rows
    /\ a = "importKnowledgeModel" => j.form \in Kinds
    /\ a \in BiliWatchRequests => j.id \in Rows \union {None}
    /\ a \in {"createBiliWatchSubscription", "updateBiliWatchSubscription"} =>
          j.form \in BiliWatchSubscriptionRequest /\ j.form.target \in Rows
    /\ a = "updateBiliWatchConfig" => j.form \in BiliWatchConfigUpdate

\* What the server answers.
Replied(a, value) ==
    /\ a = "scheduledTasks" => value \in [Rows -> ScheduledTask \union {None}]
    /\ a = "scheduledTaskHandlers" => value \in BOOLEAN
    /\ a = "scheduledTaskRuns" => value \in TaskRuns
    /\ a = "models" => value \in ModelProfiles
    /\ a = "status" => value \in RuntimeStatus
    /\ a = "knowledgeBases" => value \in KnowledgeCollections
    /\ a = "knowledgeDocuments" => value \in KnowledgeDocuments
    /\ a = "searchKnowledge" => value \in KnowledgeSearchResults
    /\ a = "knowledgeModels" => value \in KnowledgeModelConfig
    /\ a \in {"biliWatchConfig", "updateBiliWatchConfig"} => value \in BiliWatchConfig
    /\ a = "biliWatchSubscriptions" => value \in BiliWatchSubscriptions
    /\ a = "biliWatchDeliveries" => value \in BiliWatchDeliveries
    /\ a = "onebotBots" => value \in ConnectedOneBots
    /\ a = "logs" => value \in LogEntries
    /\ a \in {"onebotActions", "tools", "config"} => value \in {0}

Stands(a, state) ==
    \/ state \in {Sent, Failure}
    \/ state = Taken /\ a \in StoreRequests
    \/ state = Answer(state.value) /\ Replied(a, state.value)

Handler(j) ==
    /\ j = [op |-> j.op, id |-> j.id, form |-> j.form, visit |-> j.visit, asks |-> j.asks]
    /\ j.asks = [a \in DOMAIN j.asks |-> j.asks[a]]
    /\ j.op \in Ops /\ DOMAIN j.asks \in Questions(j.op)
    /\ \A a \in DOMAIN j.asks : Fit(j, a) /\ Stands(a, j.asks[a])

Tables ==
    [tasks : [Rows -> ScheduledTask \union {None}], runs : [Rows -> 0..MaxRuns],
     profiles : [Rows -> Values \union {None}], active : Rows \union {None},
     collections : KnowledgeCollections, documents : KnowledgeDocuments,
     retrieval : KnowledgeModelConfig, config : BiliWatchConfig,
     subscriptions : BiliWatchSubscriptions, deliveries : BiliWatchDeliveries, logs : LogEntries]

Stores ==
    [profiles : ModelProfiles, profilesLoading : BOOLEAN,
     status : RuntimeStatus \union {None}, statusLoading : BOOLEAN, statusError : BOOLEAN,
     sidebarOpen : BOOLEAN]

RefsOf(p) ==
    CASE p = "scheduled-tasks" -> TasksRefs
      [] p = "models" -> ModelsRefs
      [] p = "knowledge" -> KnowledgeRefs
      [] p = "biliwatch" -> BiliWatchRefs
      [] p = "overview" -> [logs : LogEntries, actions : OneBotActionRecords \union {None}]
      [] p = "logs" -> [logs : LogEntries, live : BOOLEAN, error : BOOLEAN]
      [] p = "tools" -> [tools : ToolInfos \union {None}, loading : BOOLEAN]
      [] p = "settings" -> [config : DashboardConfig \union {None}]

\* A handler that assigns to the refs of the mounted page is one of that page's.
Hand(j) ==
    /\ Handler(j)
    /\ j.visit \in 0..visit
    /\ j.visit = visit => j.op \in OpsOf(page) \union {"refresh"}

Hands ==
    /\ jobs = [n \in Slots |-> jobs[n]]
    /\ \A n \in Slots : Hand(jobs[n])

Shapes ==
    /\ page \in Routes /\ visit \in Nat \ {0} /\ timer \in {0, visit}
    /\ server \in Tables /\ stores \in Stores
    /\ refs \in RefsOf(page)

\* The row that is being edited is the one the form was filled from.
FormOpened ==
    /\ page = "scheduled-tasks" => refs.form.of = refs.editingId
    /\ page = "biliwatch" => refs.form.of = refs.editing
    /\ page = "models" =>
          /\ refs.dialog = "single" => refs.form.of = None
          /\ refs.dialog = "edit" => refs.form.of \in {refs.editing, None}

IInv == Shapes /\ Hands /\ BusyMeansAsked /\ FormOpened /\ SavedWhereOpened
------------------------------------------------------------------------------
(* Handlers and slots.                                                       *)

\* A handler begins in a slot that is free.
Begun(op, id, form, requests) ==
    [op |-> op, id |-> id, form |-> form, visit |-> visit, asks |-> Asked(requests)]

\* Slot n holds j from now on; the page stays.
Holds(n, j) ==
    /\ n \in Slots /\ jobs' = [jobs EXCEPT ![n] = j]
    /\ page' = page /\ visit' = visit

LEMMA BeginHolds ==
    ASSUME Free # {}, NEW op, NEW id, NEW form, NEW requests,
           Begin(op, id, form, requests), page' = page, visit' = visit
    PROVE  \E n \in Slots : jobs[n].op = "idle" /\ Holds(n, Begun(op, id, form, requests))
<1> DEFINE n == CHOOSE m \in Free : TRUE
<1>1. n \in Free
  OBVIOUS
<1>2. n \in Slots /\ jobs[n].op = "idle"
  BY <1>1 DEF Free, Running
<1>3. jobs' = [jobs EXCEPT ![n] = Begun(op, id, form, requests)]
  BY DEF Begin, Begun
<1> QED
  BY <1>2, <1>3 DEF Holds

LEMMA HoldsHands ==
    ASSUME Hands, NEW n, NEW j, Holds(n, j), Hand(j)
    PROVE  /\ Hands'
           /\ jobs'[n] = j
           /\ \A m \in Slots \ {n} : jobs'[m] = jobs[m]
<1>1. /\ jobs'[n] = j
      /\ \A m \in Slots \ {n} : jobs'[m] = jobs[m]
      /\ jobs' = [m \in Slots |-> jobs'[m]]
  BY DEF Hands, Holds
<1>2. \A m \in Slots : Hand(jobs'[m])
  BY <1>1 DEF Hands
<1>3. ASSUME NEW m \in Slots
      PROVE  Hand(jobs[m])'
  <2>1. Hand(jobs'[m])
    BY <1>2
  <2> QED
    BY <2>1 DEF Hand, Holds
<1> QED
  BY <1>1, <1>3 DEF Hands

LEMMA AskedStands ==
    ASSUME NEW requests
    PROVE  /\ DOMAIN Asked(requests) = requests
           /\ \A a \in requests : Asked(requests)[a] = Sent /\ Stands(a, Asked(requests)[a])
           /\ Asked(requests) = [a \in DOMAIN Asked(requests) |-> Asked(requests)[a]]
BY DEF Asked, Stands

LEMMA BegunHand ==
    ASSUME visit \in Nat \ {0},
           NEW op \in OpsOf(page) \union {"refresh"}, NEW id, NEW form, NEW requests,
           op \in Ops, requests \in Questions(op),
           \A a \in requests : Fit(Begun(op, id, form, requests), a)
    PROVE  /\ Hand(Begun(op, id, form, requests))
           /\ Begun(op, id, form, requests).op = op
           /\ Begun(op, id, form, requests).id = id
           /\ Begun(op, id, form, requests).form = form
           /\ Begun(op, id, form, requests).visit = visit
           /\ Begun(op, id, form, requests).asks = Asked(requests)
<1> DEFINE j == Begun(op, id, form, requests)
<1>1. /\ j.op = op /\ j.id = id /\ j.form = form /\ j.visit = visit /\ j.asks = Asked(requests)
      /\ j = [op |-> j.op, id |-> j.id, form |-> j.form, visit |-> j.visit, asks |-> j.asks]
  BY DEF Begun
<1> HIDE DEF j
<1>2. \A a \in requests : Fit(j, a)
  BY DEF j
<1>3. Handler(j)
  BY <1>1, <1>2, AskedStands DEF Handler
<1> QED
  BY <1>1, <1>3 DEF Hand, j

\* The same handler, that asks for something else.
LEMMA AskAgain ==
    ASSUME NEW j, Hand(j), NEW asks
    PROVE  LET k == [j EXCEPT !.asks = asks] IN
           /\ k.op = j.op /\ k.id = j.id /\ k.form = j.form /\ k.visit = j.visit /\ k.asks = asks
           /\ k = [op |-> k.op, id |-> k.id, form |-> k.form, visit |-> k.visit, asks |-> k.asks]
           /\ \A a : Fit(k, a) <=> Fit(j, a)
<1> DEFINE k == [j EXCEPT !.asks = asks]
<1>1. /\ k.op = j.op /\ k.id = j.id /\ k.form = j.form /\ k.visit = j.visit /\ k.asks = asks
      /\ k = [op |-> k.op, id |-> k.id, form |-> k.form, visit |-> k.visit, asks |-> k.asks]
  BY DEF Hand, Handler
<1> HIDE DEF k
<1>2. \A a : Fit(k, a) <=> Fit(j, a)
  BY <1>1 DEF Fit
<1> QED
  BY <1>1, <1>2 DEF k

LEMMA AskAgainHand ==
    ASSUME NEW j, Hand(j), NEW requests, requests \in Questions(j.op),
           \A a \in requests : Fit(j, a)
    PROVE  LET k == [j EXCEPT !.asks = Asked(requests)] IN
           /\ Hand(k)
           /\ k.op = j.op /\ k.id = j.id /\ k.form = j.form /\ k.visit = j.visit
           /\ k.asks = Asked(requests)
<1> DEFINE k == [j EXCEPT !.asks = Asked(requests)]
<1>1. /\ k.op = j.op /\ k.id = j.id /\ k.form = j.form /\ k.visit = j.visit
      /\ k.asks = Asked(requests)
      /\ k = [op |-> k.op, id |-> k.id, form |-> k.form, visit |-> k.visit, asks |-> k.asks]
      /\ \A a \in requests : Fit(k, a)
  BY AskAgain
<1> HIDE DEF k
<1>2. Handler(k)
  BY <1>1, AskedStands DEF Hand, Handler
<1>3. Hand(k)
  BY <1>1, <1>2 DEF Hand
<1> QED
  BY <1>1, <1>3 DEF k

LEMMA IdleHand ==
    ASSUME visit \in Nat \ {0}
    PROVE  /\ Hand(Idle) /\ Idle.op = "idle" /\ Idle.visit = 0
           /\ Idle.asks = Asked({}) /\ DOMAIN Idle.asks = {}
<1>1. /\ Idle.op = "idle" /\ Idle.visit = 0 /\ Idle.asks = Asked({})
      /\ Idle = [op |-> Idle.op, id |-> Idle.id, form |-> Idle.form, visit |-> Idle.visit,
                 asks |-> Idle.asks]
  BY DEF Idle
<1>2. "idle" \in Ops /\ {} \in Questions("idle")
  BY DEF Ops, Questions, TaskOps, ModelPageOps, ModelOps, Submits, KnowledgeOps, BiliWatchOps,
         BiliWatchSaves, MonitorOps
<1>3. Handler(Idle)
  BY <1>1, <1>2, AskedStands DEF Handler
<1> QED
  BY <1>1, <1>3, AskedStands DEF Hand
------------------------------------------------------------------------------
(* The server.                                                               *)

Requests == TaskRequests \union StoreRequests \union ModelRequests \union KnowledgeRequests
                \union BiliWatchRequests \union MonitorRequests

\* No two pages have a handler of the same name.
LEMMA OpsApart ==
    /\ TaskOps \intersect ModelPageOps = {} /\ TaskOps \intersect KnowledgeOps = {}
    /\ TaskOps \intersect BiliWatchOps = {} /\ TaskOps \intersect MonitorOps = {}
    /\ ModelPageOps \intersect KnowledgeOps = {} /\ ModelPageOps \intersect BiliWatchOps = {}
    /\ ModelPageOps \intersect MonitorOps = {} /\ KnowledgeOps \intersect BiliWatchOps = {}
    /\ KnowledgeOps \intersect MonitorOps = {} /\ BiliWatchOps \intersect MonitorOps = {}
<1>1. TaskOps \intersect ModelPageOps = {}
  BY DEF TaskOps, ModelPageOps, ModelOps, Submits
<1>2. TaskOps \intersect KnowledgeOps = {}
  BY DEF TaskOps, KnowledgeOps
<1>3. TaskOps \intersect BiliWatchOps = {}
  BY DEF TaskOps, BiliWatchOps, BiliWatchSaves
<1>4. TaskOps \intersect MonitorOps = {}
  BY DEF TaskOps, MonitorOps
<1>5. ModelPageOps \intersect KnowledgeOps = {}
  BY DEF ModelPageOps, ModelOps, Submits, KnowledgeOps
<1>6. ModelPageOps \intersect BiliWatchOps = {}
  BY DEF ModelPageOps, ModelOps, Submits, BiliWatchOps, BiliWatchSaves
<1>7. ModelPageOps \intersect MonitorOps = {}
  BY DEF ModelPageOps, ModelOps, Submits, MonitorOps
<1>8. KnowledgeOps \intersect BiliWatchOps = {}
  BY DEF KnowledgeOps, BiliWatchOps, BiliWatchSaves
<1>9. KnowledgeOps \intersect MonitorOps = {}
  BY DEF KnowledgeOps, MonitorOps
<1>10. BiliWatchOps \intersect MonitorOps = {}
  BY DEF BiliWatchOps, BiliWatchSaves, MonitorOps
<1> QED
  BY <1>1, <1>2, <1>3, <1>4, <1>5, <1>6, <1>7, <1>8, <1>9, <1>10

\* Which handler asks for what.
LEMMA TaskAsks ==
    ASSUME NEW op \in TaskOps, NEW D \in Questions(op)
    PROVE  /\ D \in TaskQuestions(op) /\ D \subseteq TaskRequests /\ D # {}
           /\ op \notin ModelPageOps \union KnowledgeOps \union BiliWatchOps \union MonitorOps
BY DEF Questions, TaskOps, TaskQuestions, TaskRequests, TaskList, ModelPageOps, ModelOps, Submits,
       KnowledgeOps, BiliWatchOps, BiliWatchSaves, MonitorOps

LEMMA ModelAsks ==
    ASSUME NEW op \in ModelPageOps, NEW D \in Questions(op)
    PROVE  /\ D \in ModelQuestions(op) /\ D # {}
           /\ D = ModelsLoad \/ D \subseteq ModelRequests
           /\ op \notin TaskOps \union KnowledgeOps \union BiliWatchOps \union MonitorOps
<1>1. op \notin TaskOps \union KnowledgeOps \union BiliWatchOps \union MonitorOps
  BY OpsApart
<1>2. D \in ModelQuestions(op)
  <2>1. op # "refresh" /\ op # "idle"
    BY DEF ModelPageOps, ModelOps, Submits
  <2> QED
    BY <1>1, <2>1 DEF Questions
<1>3. D # {} /\ (D = ModelsLoad \/ D \subseteq ModelRequests)
  BY <1>2 DEF ModelQuestions, ModelsLoad, ModelRequests, ModelPageOps, ModelOps, Submits
<1> QED
  BY <1>1, <1>2, <1>3

LEMMA KnowledgeAsks ==
    ASSUME NEW op \in KnowledgeOps, NEW D \in Questions(op)
    PROVE  /\ D \in KnowledgeQuestions(op) /\ D \subseteq KnowledgeRequests /\ D # {}
           /\ op \notin TaskOps \union ModelPageOps \union BiliWatchOps \union MonitorOps
<1>1. op \notin TaskOps \union ModelPageOps \union BiliWatchOps \union MonitorOps
  BY OpsApart
<1>2. D \in KnowledgeQuestions(op)
  <2>1. op # "refresh" /\ op # "idle"
    BY DEF KnowledgeOps
  <2> QED
    BY <1>1, <2>1 DEF Questions
<1>3. D # {} /\ D \subseteq KnowledgeRequests
  BY <1>2 DEF KnowledgeQuestions, KnowledgeRequests, KnowledgeOps
<1> QED
  BY <1>1, <1>2, <1>3

LEMMA BiliWatchAsks ==
    ASSUME NEW op \in BiliWatchOps, NEW D \in Questions(op)
    PROVE  /\ D \in BiliWatchQuestions(op) /\ D \subseteq BiliWatchRequests /\ D # {}
           /\ op \notin TaskOps \union ModelPageOps \union KnowledgeOps \union MonitorOps
<1>1. op \notin TaskOps \union ModelPageOps \union KnowledgeOps \union MonitorOps
  BY OpsApart
<1>2. D \in BiliWatchQuestions(op)
  <2>1. op # "refresh" /\ op # "idle"
    BY DEF BiliWatchOps, BiliWatchSaves
  <2> QED
    BY <1>1, <2>1 DEF Questions
<1>3. D # {} /\ D \subseteq BiliWatchRequests
  BY <1>2 DEF BiliWatchQuestions, BiliWatchRequests, BiliWatchLoad, BiliWatchOps, BiliWatchSaves
<1> QED
  BY <1>1, <1>2, <1>3

LEMMA MonitorAsks ==
    ASSUME NEW op \in MonitorOps, NEW D \in Questions(op)
    PROVE  /\ D \in MonitorQuestions(op) /\ D # {}
           /\ D = OverviewLoad \/ D \subseteq MonitorRequests
           /\ op \notin TaskOps \union ModelPageOps \union KnowledgeOps \union BiliWatchOps
<1>1. op \notin TaskOps \union ModelPageOps \union KnowledgeOps \union BiliWatchOps
  BY OpsApart
<1>2. D \in MonitorQuestions(op)
  <2>1. op # "refresh" /\ op # "idle"
    BY DEF MonitorOps
  <2> QED
    BY <1>1, <2>1 DEF Questions
<1>3. D # {} /\ (D = OverviewLoad \/ D \subseteq MonitorRequests)
  BY <1>2 DEF MonitorQuestions, MonitorRequests, OverviewLoad, MonitorOps
<1> QED
  BY <1>1, <1>2, <1>3

LEMMA OtherAsks ==
    ASSUME NEW op \in {"refresh", "idle"}, NEW D \in Questions(op)
    PROVE  /\ op = "refresh" => D \in {{"models"}, {"status"}, StoreRequests}
           /\ op = "idle" => D = {}
           /\ op \notin TaskOps \union ModelPageOps \union KnowledgeOps \union BiliWatchOps
                           \union MonitorOps
<1>1. op \notin TaskOps \union ModelPageOps \union KnowledgeOps \union BiliWatchOps \union MonitorOps
  BY DEF TaskOps, ModelPageOps, ModelOps, Submits, KnowledgeOps, BiliWatchOps, BiliWatchSaves,
         MonitorOps
<1> QED
  BY <1>1 DEF Questions

LEMMA AsksKnown ==
    ASSUME NEW op \in Ops, NEW D \in Questions(op)
    PROVE  D \subseteq Requests
<1>1. /\ StoreRequests \subseteq Requests /\ ModelsLoad \subseteq Requests
      /\ OverviewLoad \subseteq Requests /\ {"models"} \subseteq Requests
      /\ {"status"} \subseteq Requests /\ {} \subseteq Requests
  BY DEF StoreRequests, ModelsLoad, OverviewLoad, MonitorRequests, Requests
<1>2. /\ TaskRequests \subseteq Requests /\ ModelRequests \subseteq Requests
      /\ KnowledgeRequests \subseteq Requests /\ BiliWatchRequests \subseteq Requests
      /\ MonitorRequests \subseteq Requests
  BY DEF Requests
<1>3. CASE op \in TaskOps
  BY <1>2, <1>3, TaskAsks
<1>4. CASE op \in ModelPageOps
  BY <1>1, <1>2, <1>4, ModelAsks
<1>5. CASE op \in KnowledgeOps
  BY <1>2, <1>5, KnowledgeAsks
<1>6. CASE op \in BiliWatchOps
  BY <1>2, <1>6, BiliWatchAsks
<1>7. CASE op \in MonitorOps
  BY <1>1, <1>2, <1>7, MonitorAsks
<1>8. CASE op \in {"refresh", "idle"}
  BY <1>1, <1>8, OtherAsks
<1> QED
  BY <1>3, <1>4, <1>5, <1>6, <1>7, <1>8 DEF Ops

\* Each endpoint leaves tables behind and answers what its page expects.
LEMMA TaskReplies ==
    ASSUME server \in Tables, NEW j, NEW a \in TaskRequests, Fit(j, a)
    PROVE  TaskReply(j, a).server \in Tables /\ Replied(a, TaskReply(j, a).value)
<1> USE RunsAssumption
<1>1. j.id \in Rows \union {None}
  BY DEF Fit
<1>2. ASSUME a \in {"scheduledTasks", "scheduledTaskHandlers"}
      PROVE  TaskReply(j, a).server \in Tables /\ Replied(a, TaskReply(j, a).value)
  BY <1>2 DEF TaskReply, Tables, Replied
<1>3. ASSUME a \in {"createScheduledTask", "updateScheduledTask"}
      PROVE  TaskReply(j, a).server \in Tables /\ Replied(a, TaskReply(j, a).value)
  <2>1. [def |-> j.form.def, enabled |-> j.form.enabled] \in ScheduledTask
    BY <1>3 DEF Fit, ScheduledTaskRequest, ScheduledTask
  <2>2. \A r \in Rows : [server EXCEPT !.tasks[r] = [def |-> j.form.def, enabled |-> j.form.enabled]]
                            \in Tables
    BY <2>1 DEF Tables
  <2> QED
    BY <1>1, <1>3, <2>2 DEF TaskReply, Replied
<1>4. ASSUME a = "deleteScheduledTask"
      PROVE  TaskReply(j, a).server \in Tables /\ Replied(a, TaskReply(j, a).value)
  <2>1. ASSUME NEW r \in Rows
        PROVE  [server EXCEPT !.tasks[r] = None, !.runs[r] = 0] \in Tables
    <3>1. /\ [server.tasks EXCEPT ![r] = None] \in [Rows -> ScheduledTask \union {None}]
          /\ [server.runs EXCEPT ![r] = 0] \in [Rows -> 0..MaxRuns]
      BY DEF Tables
    <3>2. [server EXCEPT !.tasks = [server.tasks EXCEPT ![r] = None],
                         !.runs = [server.runs EXCEPT ![r] = 0]] \in Tables
      BY <3>1 DEF Tables
    <3> QED
      BY <3>2
  <2> QED
    BY <1>1, <1>4, <2>1 DEF TaskReply, Replied
<1>5. ASSUME a = "runScheduledTask"
      PROVE  TaskReply(j, a).server \in Tables /\ Replied(a, TaskReply(j, a).value)
  <2>1. \A r \in Rows : server.runs[r] < MaxRuns =>
            [server EXCEPT !.runs[r] = @ + 1] \in Tables
    BY DEF Tables
  <2> QED
    BY <1>1, <1>5, <2>1 DEF TaskReply, Replied
<1>6. ASSUME a = "scheduledTaskRuns"
      PROVE  TaskReply(j, a).server \in Tables /\ Replied(a, TaskReply(j, a).value)
  <2>1. \A r \in Rows : server.runs[r] \in 0..MaxRuns
    BY DEF Tables
  <2> QED
    BY <1>1, <1>6, <2>1 DEF TaskReply, Replied, TaskRuns
<1> QED
  BY <1>2, <1>3, <1>4, <1>5, <1>6 DEF TaskRequests, TaskList
LEMMA ModelReplies ==
    ASSUME server \in Tables, NEW j, NEW a \in ModelRequests, Fit(j, a)
    PROVE  ModelReply(j, a).server \in Tables /\ Replied(a, ModelReply(j, a).value)
<1>1. j.id \in Rows \union {None}
  BY DEF Fit
<1>2. Replied(a, ModelReply(j, a).value)
  BY DEF Replied, ModelRequests
<1>3. ASSUME a = "importModels"
      PROVE  ModelReply(j, a).server \in Tables
  <2>1. \A r \in Rows : j.form.def # None => [server EXCEPT !.profiles[r] = j.form.def] \in Tables
    BY <1>3 DEF Fit, ModelProfileInput, Tables
  <2> QED
    BY <1>3, <2>1 DEF ModelReply
<1>4. ASSUME a = "updateModel"
      PROVE  ModelReply(j, a).server \in Tables
  <2>1. \A r \in Rows : j.form.def # None => [server EXCEPT !.profiles[r] = j.form.def] \in Tables
    BY <1>4 DEF Fit, ModelProfileInput, Tables
  <2> QED
    BY <1>1, <1>4, <2>1 DEF ModelReply
<1>5. ASSUME a \in {"activateModel", "activateEnvironment"}
      PROVE  ModelReply(j, a).server \in Tables
  <2>1. \A r \in Rows \union {None} : [server EXCEPT !.active = r] \in Tables
    BY DEF Tables
  <2> QED
    BY <1>1, <1>5, <2>1 DEF ModelReply
<1>6. ASSUME a = "deleteModel"
      PROVE  ModelReply(j, a).server \in Tables
  <2>1. \A r \in Rows : [server EXCEPT !.profiles[r] = None] \in Tables
    BY DEF Tables
  <2> QED
    BY <1>1, <1>6, <2>1 DEF ModelReply
<1>7. ASSUME a = "testModel"
      PROVE  ModelReply(j, a).server \in Tables
  BY <1>7 DEF ModelReply
<1> QED
  BY <1>2, <1>3, <1>4, <1>5, <1>6, <1>7 DEF ModelRequests

LEMMA StoreReplies ==
    ASSUME server \in Tables, NEW j, NEW a \in StoreRequests
    PROVE  StoreReply(j, a).server \in Tables /\ Replied(a, StoreReply(j, a).value)
BY DEF StoreReply, StoreRequests, Replied, Tables, ModelProfiles, RuntimeStatus, ActiveModel

LEMMA MonitorReplies ==
    ASSUME server \in Tables, NEW j, NEW a \in MonitorRequests
    PROVE  MonitorReply(j, a).server \in Tables /\ Replied(a, MonitorReply(j, a).value)
BY DEF MonitorReply, MonitorRequests, Replied, Tables

LEMMA DocumentsType ==
    ASSUME server \in Tables, NEW c \in Collections
    PROVE  DocumentsOf(c) \in KnowledgeDocuments
BY DEF DocumentsOf, KnowledgeDocuments

LEMMA KnowledgeReplies ==
    ASSUME server \in Tables, NEW j, NEW a \in KnowledgeRequests, Fit(j, a)
    PROVE  KnowledgeReply(j, a).server \in Tables /\ Replied(a, KnowledgeReply(j, a).value)
<1>1. ASSUME a = "knowledgeBases"
      PROVE  KnowledgeReply(j, a).server \in Tables /\ Replied(a, KnowledgeReply(j, a).value)
  BY <1>1 DEF KnowledgeReply, Replied, Tables
<1>2. ASSUME a = "knowledgeDocuments"
      PROVE  KnowledgeReply(j, a).server \in Tables /\ Replied(a, KnowledgeReply(j, a).value)
  <2>1. DocumentsOf(j.id) \in KnowledgeDocuments
    BY <1>2, DocumentsType DEF Fit
  <2> QED
    BY <1>2, <2>1 DEF KnowledgeReply, Replied
<1>3. ASSUME a \in {"uploadKnowledgeDocument", "importKnowledgeUrl"}
      PROVE  KnowledgeReply(j, a).server \in Tables /\ Replied(a, KnowledgeReply(j, a).value)
  <2>1. \A d \in Rows : [server EXCEPT !.documents[d] = j.id] \in Tables
    BY <1>3 DEF Tables, Fit, KnowledgeDocuments
  <2> QED
    BY <1>3, <2>1 DEF KnowledgeReply, Replied
<1>4. ASSUME a = "deleteKnowledgeDocument"
      PROVE  KnowledgeReply(j, a).server \in Tables /\ Replied(a, KnowledgeReply(j, a).value)
  <2>1. [server EXCEPT !.documents[j.form] = None] \in Tables
    BY <1>4 DEF Tables, Fit, KnowledgeDocuments
  <2> QED
    BY <1>4, <2>1 DEF KnowledgeReply, Replied
<1>5. ASSUME a \in {"searchKnowledge", "knowledgeModels", "rebuildKnowledge", "testKnowledgeModel"}
      PROVE  KnowledgeReply(j, a).server \in Tables /\ Replied(a, KnowledgeReply(j, a).value)
  BY <1>5 DEF KnowledgeReply, Replied, Tables, Fit, KnowledgeSearchResults
<1>6. ASSUME a = "importKnowledgeModel"
      PROVE  KnowledgeReply(j, a).server \in Tables /\ Replied(a, KnowledgeReply(j, a).value)
  <2>1. [server EXCEPT !.retrieval[j.form] = TRUE] \in Tables
    BY <1>6 DEF Tables, Fit, KnowledgeModelConfig
  <2> QED
    BY <1>6, <2>1 DEF KnowledgeReply, Replied
<1> QED
  BY <1>1, <1>2, <1>3, <1>4, <1>5, <1>6 DEF KnowledgeRequests

LEMMA BiliWatchReplies ==
    ASSUME server \in Tables, NEW j, NEW a \in BiliWatchRequests, Fit(j, a)
    PROVE  BiliWatchReply(j, a).server \in Tables /\ Replied(a, BiliWatchReply(j, a).value)
<1>1. j.id \in Rows \union {None}
  BY DEF Fit
<1>2. ASSUME a \in {"biliWatchConfig", "biliWatchSubscriptions", "biliWatchDeliveries", "onebotBots",
                    "testBiliWatchCookie"}
      PROVE  BiliWatchReply(j, a).server \in Tables /\ Replied(a, BiliWatchReply(j, a).value)
  BY <1>2 DEF BiliWatchReply, Replied, Tables, ConnectedOneBots
<1>3. ASSUME a = "updateBiliWatchConfig"
      PROVE  BiliWatchReply(j, a).server \in Tables /\ Replied(a, BiliWatchReply(j, a).value)
  <2> DEFINE config == [settings |-> j.form.settings,
                        cookie |-> server.config.cookie \/ j.form.cookie]
  <2>1. config \in BiliWatchConfig
    <3>1. j.form.settings \in Values /\ j.form.cookie \in BOOLEAN
      BY <1>3, ValuesAssumption DEF Fit, BiliWatchConfigUpdate
    <3>2. server.config.cookie \in BOOLEAN
      BY DEF Tables, BiliWatchConfig
    <3> QED
      BY <3>1, <3>2 DEF BiliWatchConfig
  <2> HIDE DEF config
  <2>2. [server EXCEPT !.config = config] \in Tables
    BY <2>1 DEF Tables
  <2> QED
    BY <1>3, <2>1, <2>2 DEF BiliWatchReply, Replied, config
<1>4. ASSUME a = "createBiliWatchSubscription"
      PROVE  BiliWatchReply(j, a).server \in Tables /\ Replied(a, BiliWatchReply(j, a).value)
  <2>1. [server EXCEPT !.subscriptions[j.form.target] = j.form.def] \in Tables
    BY <1>4 DEF Tables, Fit, BiliWatchSubscriptions, BiliWatchSubscriptionRequest
  <2> QED
    BY <1>4, <2>1 DEF BiliWatchReply, Replied
<1>5. ASSUME a = "updateBiliWatchSubscription"
      PROVE  BiliWatchReply(j, a).server \in Tables /\ Replied(a, BiliWatchReply(j, a).value)
  <2>1. \A r \in Rows : [server EXCEPT !.subscriptions[r] = j.form.def] \in Tables
    BY <1>5 DEF Tables, Fit, BiliWatchSubscriptions, BiliWatchSubscriptionRequest
  <2> QED
    BY <1>1, <1>5, <2>1 DEF BiliWatchReply, Replied
<1>6. ASSUME a = "deleteBiliWatchSubscription"
      PROVE  BiliWatchReply(j, a).server \in Tables /\ Replied(a, BiliWatchReply(j, a).value)
  <2>1. \A r \in Rows : [server EXCEPT !.subscriptions[r] = None] \in Tables
    BY DEF Tables, BiliWatchSubscriptions
  <2> QED
    BY <1>1, <1>6, <2>1 DEF BiliWatchReply, Replied
<1> QED
  BY <1>2, <1>3, <1>4, <1>5, <1>6 DEF BiliWatchRequests, BiliWatchLoad

\* No two modules of the dashboard use the same endpoint.
LEMMA RequestsApart ==
    /\ StoreRequests \intersect TaskRequests = {}
    /\ ModelRequests \intersect (TaskRequests \union StoreRequests) = {}
    /\ KnowledgeRequests \intersect (TaskRequests \union StoreRequests \union ModelRequests) = {}
    /\ BiliWatchRequests \intersect (TaskRequests \union StoreRequests \union ModelRequests
                                         \union KnowledgeRequests) = {}
    /\ MonitorRequests \intersect (TaskRequests \union StoreRequests \union ModelRequests
                                       \union KnowledgeRequests \union BiliWatchRequests) = {}
<1> USE DEF TaskRequests, TaskList
<1>1. StoreRequests \intersect TaskRequests = {}
  BY DEF StoreRequests
<1>2. ModelRequests \intersect (TaskRequests \union StoreRequests) = {}
  BY DEF StoreRequests, ModelRequests
<1>3. KnowledgeRequests \intersect (TaskRequests \union StoreRequests \union ModelRequests) = {}
  BY DEF KnowledgeRequests, StoreRequests, ModelRequests
<1>4. BiliWatchRequests \intersect TaskRequests = {}
  BY DEF BiliWatchRequests, BiliWatchLoad
<1>5. BiliWatchRequests \intersect (StoreRequests \union ModelRequests) = {}
  BY DEF BiliWatchRequests, BiliWatchLoad, StoreRequests, ModelRequests
<1>6. BiliWatchRequests \intersect KnowledgeRequests = {}
  BY DEF BiliWatchRequests, BiliWatchLoad, KnowledgeRequests
<1>7. MonitorRequests \intersect (TaskRequests \union StoreRequests) = {}
  BY DEF MonitorRequests, StoreRequests
<1>8. MonitorRequests \intersect (ModelRequests \union KnowledgeRequests) = {}
  BY DEF MonitorRequests, ModelRequests, KnowledgeRequests
<1>9. MonitorRequests \intersect BiliWatchRequests = {}
  BY DEF MonitorRequests, BiliWatchRequests, BiliWatchLoad
<1> HIDE DEF TaskRequests, TaskList
<1> QED
  BY <1>1, <1>2, <1>3, <1>4, <1>5, <1>6, <1>7, <1>8, <1>9

LEMMA Replies ==
    ASSUME server \in Tables, NEW j, NEW a \in Requests, Fit(j, a)
    PROVE  Reply(j, a).server \in Tables /\ Replied(a, Reply(j, a).value)
<1>1. CASE a \in TaskRequests
  <2>1. Reply(j, a) = TaskReply(j, a)
    BY <1>1, RequestsApart DEF Reply
  <2> QED
    BY <1>1, <2>1, TaskReplies
<1>2. CASE a \in StoreRequests
  <2>1. Reply(j, a) = StoreReply(j, a)
    BY <1>2, RequestsApart DEF Reply
  <2> QED
    BY <1>2, <2>1, StoreReplies
<1>3. CASE a \in ModelRequests
  <2>1. Reply(j, a) = ModelReply(j, a)
    BY <1>3, RequestsApart DEF Reply
  <2> QED
    BY <1>3, <2>1, ModelReplies
<1>4. CASE a \in KnowledgeRequests
  <2>1. Reply(j, a) = KnowledgeReply(j, a)
    BY <1>4, RequestsApart DEF Reply
  <2> QED
    BY <1>4, <2>1, KnowledgeReplies
<1>5. CASE a \in BiliWatchRequests
  <2>1. Reply(j, a) = BiliWatchReply(j, a)
    BY <1>5, RequestsApart DEF Reply
  <2> QED
    BY <1>5, <2>1, BiliWatchReplies
<1>6. CASE a \in MonitorRequests
  <2>1. Reply(j, a) = MonitorReply(j, a)
    BY <1>6, RequestsApart DEF Reply
  <2> QED
    BY <1>6, <2>1, MonitorReplies
<1> QED
  BY <1>1, <1>2, <1>3, <1>4, <1>5, <1>6 DEF Requests
------------------------------------------------------------------------------
(* What the handlers that are under way stand for.                           *)

\* What j saves goes where its form was opened.
Saved(j) ==
    /\ j.op \in {"save", "saveSubscription"} => j.form.of = j.id
    /\ j.op = "submitEdit" => j.form.of \in {j.id, None}
    /\ j.op = "submitSingle" => j.form.of = None

\* Someone waits for a of the stores.
Awaited(a) == \E n \in Running : a \in DOMAIN jobs[n].asks /\ jobs[n].asks[a] # Taken

LEMMA SavedJobs == SavedWhereOpened <=> \A n \in Running : Saved(jobs[n])
BY DEF SavedWhereOpened, Saved

LEMMA StoresAwaited ==
    StoresBusy <=> /\ stores.profilesLoading => Awaited("models")
                   /\ stores.statusLoading => Awaited("status")
BY DEF StoresBusy, Awaited

\* The handlers in the other slots go on.
LEMMA OthersStay ==
    ASSUME Hands, NEW n, NEW j, Holds(n, j)
    PROVE  /\ jobs'[n] = j
           /\ n \in Running' <=> j.op # "idle"
           /\ \A m \in Running : m # n => m \in Running' /\ jobs'[m] = jobs[m]
           /\ \A m \in Running' : m # n => m \in Running /\ jobs'[m] = jobs[m]
<1>1. /\ jobs'[n] = j
      /\ \A m \in Slots \ {n} : jobs'[m] = jobs[m]
  BY DEF Hands, Holds
<1> QED
  BY <1>1 DEF Running, Holds, Slots

LEMMA HoldsSaved ==
    ASSUME Hands, SavedWhereOpened, NEW n, NEW j, Holds(n, j), Saved(j)
    PROVE  SavedWhereOpened'
<1>1. \A m \in Running' : Saved(jobs'[m])
  BY OthersStay, SavedJobs
<1> QED
  BY <1>1 DEF SavedWhereOpened, Saved

LEMMA HoldsAwaited ==
    ASSUME Hands, NEW n, NEW j, Holds(n, j), NEW a, Awaited(a),
           j.op # "idle",
           a \in DOMAIN jobs[n].asks => a \in DOMAIN j.asks
                                        /\ (jobs[n].asks[a] # Taken => j.asks[a] # Taken)
    PROVE  Awaited(a)'
<1>1. PICK m \in Running : a \in DOMAIN jobs[m].asks /\ jobs[m].asks[a] # Taken
  BY DEF Awaited
<1>2. CASE m = n
  BY <1>1, <1>2, OthersStay DEF Awaited
<1>3. CASE m # n
  BY <1>1, <1>3, OthersStay DEF Awaited
<1> QED
  BY <1>2, <1>3

LEMMA OthersAwaited ==
    ASSUME Hands, NEW n, NEW j, Holds(n, j), NEW a, Awaited(a),
           a \in DOMAIN jobs[n].asks => jobs[n].asks[a] = Taken
    PROVE  Awaited(a)'
<1>1. PICK m \in Running : a \in DOMAIN jobs[m].asks /\ jobs[m].asks[a] # Taken
  BY DEF Awaited
<1>2. m # n
  BY <1>1
<1> QED
  BY <1>1, <1>2, OthersStay DEF Awaited

\* A handler that does not ask for a of the stores neither holds nor releases it.
LEMMA StoresStayBusy ==
    ASSUME Hands, StoresBusy, NEW n, NEW j, Holds(n, j),
           StoreRequests \intersect DOMAIN jobs[n].asks = {},
           stores'.profilesLoading = stores.profilesLoading,
           stores'.statusLoading = stores.statusLoading
    PROVE  StoresBusy'
<1>1. "models" \in StoreRequests /\ "status" \in StoreRequests
  BY DEF StoreRequests
<1>2. stores.profilesLoading => Awaited("models")'
  BY <1>1, OthersAwaited, StoresAwaited
<1>3. stores.statusLoading => Awaited("status")'
  BY <1>1, OthersAwaited, StoresAwaited
<1> QED
  BY <1>2, <1>3 DEF StoresBusy, Awaited

------------------------------------------------------------------------------
(* An answer comes to a handler, or an error does.                           *)

\* j with the answer to a.
Told(j, a, state) == [j EXCEPT !.asks[a] = state]

LEMMA ToldHand ==
    ASSUME NEW j, Hand(j), NEW a \in DOMAIN j.asks, NEW state, Stands(a, state)
    PROVE  LET k == Told(j, a, state) IN
           /\ Hand(k)
           /\ k.op = j.op /\ k.id = j.id /\ k.form = j.form /\ k.visit = j.visit
           /\ DOMAIN k.asks = DOMAIN j.asks
           /\ k.asks[a] = state /\ \A b \in DOMAIN j.asks : b # a => k.asks[b] = j.asks[b]
<1> DEFINE asks == [j.asks EXCEPT ![a] = state]
           k == [j EXCEPT !.asks = asks]
<1>1. /\ k.op = j.op /\ k.id = j.id /\ k.form = j.form /\ k.visit = j.visit /\ k.asks = asks
      /\ k = [op |-> k.op, id |-> k.id, form |-> k.form, visit |-> k.visit, asks |-> k.asks]
      /\ \A b : Fit(k, b) <=> Fit(j, b)
  BY AskAgain
<1>2. /\ DOMAIN asks = DOMAIN j.asks /\ asks[a] = state
      /\ \A b \in DOMAIN j.asks : b # a => asks[b] = j.asks[b]
      /\ asks = [b \in DOMAIN asks |-> asks[b]]
  BY DEF Hand, Handler
<1>3. Told(j, a, state) = k
  BY DEF Told, Hand, Handler
<1> HIDE DEF k, asks
<1>4. /\ Handler(j) /\ j.op \in Ops /\ DOMAIN j.asks \in Questions(j.op)
      /\ \A b \in DOMAIN j.asks : Fit(j, b) /\ Stands(b, j.asks[b])
  BY DEF Hand, Handler
<1>5. Handler(k)
  BY <1>1, <1>2, <1>4 DEF Handler
<1>6. Hand(k)
  BY <1>1, <1>5 DEF Hand
<1> QED
  BY <1>1, <1>2, <1>3, <1>6

\* A handler that stays what it is, and takes nothing, keeps every flag on.
LEMMA SameHandler ==
    ASSUME IInv, NEW n \in Slots, NEW j, Holds(n, j), Hand(j), n \in Running,
           j.op = jobs[n].op, j.id = jobs[n].id, j.form = jobs[n].form,
           j.visit = jobs[n].visit, DOMAIN j.asks = DOMAIN jobs[n].asks,
           \A a \in DOMAIN j.asks : j.asks[a] = Taken => jobs[n].asks[a] = Taken,
           refs' = refs, stores' = stores
    PROVE  Hands' /\ BusyMeansAsked' /\ FormOpened' /\ SavedWhereOpened'
<1> USE DEF IInv
<1>1. /\ Hands' /\ page' = page /\ visit' = visit
      /\ jobs'[n] = j /\ n \in Running'
      /\ \A m \in Running : m # n => m \in Running' /\ jobs'[m] = jobs[m]
  <2>1. j.op # "idle"
    BY DEF Running
  <2>2. Hands' /\ page' = page /\ visit' = visit
    BY HoldsHands DEF Holds
  <2> QED
    BY <2>1, <2>2, OthersStay
<1>2. SavedWhereOpened'
  BY SavedJobs, HoldsSaved DEF Saved
<1>3. FormOpened'
  BY <1>1 DEF FormOpened
<1>4. StoresBusy'
  <2>1. j.op # "idle"
    BY DEF Running
  <2>2. \A a : Awaited(a) => Awaited(a)'
    BY <2>1, HoldsAwaited
  <2> QED
    BY <2>2, StoresAwaited DEF StoresBusy, Awaited, BusyMeansAsked
<1>5. \A m \in Running : /\ m \in Running'
                         /\ jobs'[m].op = jobs[m].op /\ jobs'[m].id = jobs[m].id
                         /\ jobs'[m].form = jobs[m].form /\ jobs'[m].visit = jobs[m].visit
                         /\ DOMAIN jobs'[m].asks = DOMAIN jobs[m].asks
  BY <1>1
<1>6. TasksBusy => TasksBusy'
  BY <1>1, <1>5 DEF TasksBusy, AsksFor
<1>7. ModelsBusy => ModelsBusy'
  BY <1>1, <1>5 DEF ModelsBusy
<1>8. KnowledgeBusy => KnowledgeBusy'
  BY <1>1, <1>5 DEF KnowledgeBusy
<1>9. BiliWatchBusy => BiliWatchBusy'
  BY <1>1, <1>5 DEF BiliWatchBusy, AsksFor
<1>10. MonitorBusy => MonitorBusy'
  BY <1>1, <1>5 DEF MonitorBusy, AsksFor
<1> QED
  BY <1>1, <1>2, <1>3, <1>4, <1>6, <1>7, <1>8, <1>9, <1>10 DEF BusyMeansAsked

\* What waits for the server is what a running handler asks for.
LEMMA WaitingRuns ==
    ASSUME Hands, NEW n \in Slots, NEW a \in Waiting(n)
    PROVE  /\ Hand(jobs[n]) /\ a \in DOMAIN jobs[n].asks /\ jobs[n].asks[a] = Sent
           /\ a \in Requests /\ Fit(jobs[n], a)
           /\ n \in Running
<1>1. /\ Hand(jobs[n]) /\ a \in DOMAIN jobs[n].asks /\ jobs[n].asks[a] = Sent
      /\ Fit(jobs[n], a) /\ jobs[n].op \in Ops /\ DOMAIN jobs[n].asks \in Questions(jobs[n].op)
  BY DEF Waiting, Hands, Hand, Handler
<1>2. a \in Requests
  BY <1>1, AsksKnown
<1>3. jobs[n].op # "idle"
  BY <1>1, OtherAsks
<1> QED
  BY <1>1, <1>2, <1>3 DEF Running

LEMMA ServeKeeps ==
    ASSUME IInv, NEW n \in Slots, Serve(n)
    PROVE  IInv'
<1> USE DEF IInv
<1>1. PICK a \in Waiting(n) :
        /\ server' = Reply(jobs[n], a).server
        /\ jobs' = [jobs EXCEPT ![n].asks[a] = IF Reply(jobs[n], a).ok
                                               THEN Answer(Reply(jobs[n], a).value) ELSE Failure]
        /\ UNCHANGED <<page, visit, refs, stores, timer, budget>>
  BY DEF Serve
<1> DEFINE state == IF Reply(jobs[n], a).ok THEN Answer(Reply(jobs[n], a).value) ELSE Failure
<1>2. /\ Hand(jobs[n]) /\ a \in DOMAIN jobs[n].asks /\ a \in Requests /\ Fit(jobs[n], a)
      /\ n \in Running
  BY WaitingRuns
<1>3. /\ Reply(jobs[n], a).server \in Tables /\ Stands(a, state) /\ state # Taken
  <2>1. /\ Reply(jobs[n], a).server \in Tables
        /\ Replied(a, Reply(jobs[n], a).value)
    BY <1>2, Replies DEF Shapes
  <2> QED
    BY <2>1 DEF Stands, Answer, Failure, Taken
<1> HIDE DEF state
<1>4. Holds(n, Told(jobs[n], a, state))
  BY <1>1 DEF Holds, Told, state
<1>5. Hands' /\ BusyMeansAsked' /\ FormOpened' /\ SavedWhereOpened'
  BY <1>1, <1>2, <1>3, <1>4, ToldHand, SameHandler
<1>6. Shapes'
  BY <1>1, <1>3 DEF Shapes, RefsOf
<1> QED
  BY <1>5, <1>6

LEMMA LoseKeeps ==
    ASSUME IInv, NEW n \in Slots, Lose(n)
    PROVE  IInv'
<1> USE DEF IInv
<1>1. PICK a \in Waiting(n) :
        /\ server' \in {server, Reply(jobs[n], a).server}
        /\ jobs' = [jobs EXCEPT ![n].asks[a] = Failure]
        /\ UNCHANGED <<page, visit, refs, stores, timer>>
  BY DEF Lose
<1>2. /\ Hand(jobs[n]) /\ a \in DOMAIN jobs[n].asks /\ a \in Requests /\ Fit(jobs[n], a)
      /\ n \in Running
  BY WaitingRuns
<1>3. /\ Reply(jobs[n], a).server \in Tables /\ Stands(a, Failure) /\ Failure # Taken
  <2>1. Reply(jobs[n], a).server \in Tables
    BY <1>2, Replies DEF Shapes
  <2> QED
    BY <2>1 DEF Stands, Failure, Taken
<1>4. Holds(n, Told(jobs[n], a, Failure))
  BY <1>1 DEF Holds, Told
<1>5. Hands' /\ BusyMeansAsked' /\ FormOpened' /\ SavedWhereOpened'
  BY <1>1, <1>2, <1>3, <1>4, ToldHand, SameHandler
<1>6. Shapes'
  BY <1>1, <1>3 DEF Shapes, RefsOf
<1> QED
  BY <1>5, <1>6
------------------------------------------------------------------------------
(* What every page's steps have in common.                                   *)

\* A handler of the mounted page begins: it and all others are under way.
LEMMA BeginKeeps ==
    ASSUME IInv, Free # {}, page' = page, visit' = visit,
           NEW op \in OpsOf(page), op \in Ops, op # "idle",
           NEW id, NEW form, NEW requests \in Questions(op), Begin(op, id, form, requests),
           \A a \in requests : Fit(Begun(op, id, form, requests), a),
           Saved(Begun(op, id, form, requests)),
           stores'.profilesLoading => stores.profilesLoading \/ "models" \in requests,
           stores'.statusLoading => stores.statusLoading \/ "status" \in requests
    PROVE  /\ Hands' /\ SavedWhereOpened' /\ StoresBusy'
           /\ \E n \in Running' : jobs'[n] = Begun(op, id, form, requests)
           /\ \A m \in Running : m \in Running' /\ jobs'[m] = jobs[m]
<1> USE DEF IInv
<1> DEFINE j == Begun(op, id, form, requests)
<1>1. PICK n \in Slots : jobs[n].op = "idle" /\ Holds(n, j)
  BY BeginHolds
<1>2. /\ Hand(j) /\ j.op = op /\ j.asks = Asked(requests)
  BY BegunHand DEF Shapes
<1> HIDE DEF j
<1>3. Hands' /\ SavedWhereOpened'
  BY <1>1, <1>2, HoldsHands, HoldsSaved DEF j
<1>4. /\ jobs'[n] = j /\ n \in Running'
      /\ \A m \in Running : m \in Running' /\ jobs'[m] = jobs[m]
  <2>1. n \notin Running
    BY <1>1 DEF Running
  <2> QED
    BY <2>1, <1>1, <1>2, OthersStay
<1>5. \A a \in requests : a \in DOMAIN j.asks /\ j.asks[a] # Taken
  BY <1>2, AskedStands DEF Sent, Taken
<1>6. \A a : Awaited(a) \/ a \in requests => Awaited(a)'
  <2>1. \A a : Awaited(a) => Awaited(a)'
    BY <1>4 DEF Awaited
  <2>2. \A a \in requests : Awaited(a)'
    BY <1>4, <1>5 DEF Awaited
  <2> QED
    BY <2>1, <2>2
<1>7. StoresBusy'
  <2>1. /\ stores'.profilesLoading => Awaited("models")'
        /\ stores'.statusLoading => Awaited("status")'
    BY <1>6, StoresAwaited DEF BusyMeansAsked
  <2> QED
    BY <2>1 DEF StoresBusy, Awaited
<1> QED
  BY <1>3, <1>4, <1>7 DEF j

\* A handler goes on, or ends: of the stores it has asked for nothing before.
LEMMA GoesOn ==
    ASSUME IInv, NEW n \in Slots, NEW j, Holds(n, j), Hand(j), Saved(j),
           StoreRequests \intersect DOMAIN jobs[n].asks = {},
           stores'.profilesLoading => \/ stores.profilesLoading
                                      \/ /\ j.op # "idle" /\ "models" \in DOMAIN j.asks
                                         /\ j.asks["models"] # Taken,
           stores'.statusLoading => \/ stores.statusLoading
                                    \/ /\ j.op # "idle" /\ "status" \in DOMAIN j.asks
                                       /\ j.asks["status"] # Taken
    PROVE  /\ Hands' /\ SavedWhereOpened' /\ StoresBusy'
           /\ jobs'[n] = j /\ (j.op # "idle" => n \in Running')
           /\ \A m \in Running : m # n => m \in Running' /\ jobs'[m] = jobs[m]
<1> USE DEF IInv
<1>1. Hands' /\ SavedWhereOpened'
  BY HoldsHands, HoldsSaved
<1>2. /\ jobs'[n] = j /\ (j.op # "idle" => n \in Running')
      /\ \A m \in Running : m # n => m \in Running' /\ jobs'[m] = jobs[m]
  BY OthersStay
<1>3. "models" \in StoreRequests /\ "status" \in StoreRequests
  BY DEF StoreRequests
<1>4. stores'.profilesLoading => Awaited("models")'
  <2>1. Awaited("models") => Awaited("models")'
    BY <1>3, OthersAwaited
  <2>2. /\ stores.profilesLoading => Awaited("models")
    BY StoresAwaited DEF BusyMeansAsked
  <2>3. /\ j.op # "idle" /\ "models" \in DOMAIN j.asks /\ j.asks["models"] # Taken
           => Awaited("models")'
    BY <1>2 DEF Awaited
  <2> QED
    BY <2>1, <2>2, <2>3
<1>5. stores'.statusLoading => Awaited("status")'
  <2>1. Awaited("status") => Awaited("status")'
    BY <1>3, OthersAwaited
  <2>2. /\ stores.statusLoading => Awaited("status")
    BY StoresAwaited DEF BusyMeansAsked
  <2>3. /\ j.op # "idle" /\ "status" \in DOMAIN j.asks /\ j.asks["status"] # Taken
           => Awaited("status")'
    BY <1>2 DEF Awaited
  <2> QED
    BY <2>1, <2>2, <2>3
<1>6. StoresBusy'
  BY <1>4, <1>5 DEF StoresBusy, Awaited
<1> QED
  BY <1>1, <1>2, <1>6

LEMMA ContinueKeeps ==
    ASSUME IInv, NEW n \in Slots, NEW requests, Continue(n, requests),
           jobs[n].op # "idle", requests \in Questions(jobs[n].op),
           \A a \in requests : Fit(jobs[n], a),
           StoreRequests \intersect DOMAIN jobs[n].asks = {},
           stores'.profilesLoading => stores.profilesLoading \/ "models" \in requests,
           stores'.statusLoading => stores.statusLoading \/ "status" \in requests,
           page' = page, visit' = visit
    PROVE  /\ Hands' /\ SavedWhereOpened' /\ StoresBusy'
           /\ jobs'[n].op = jobs[n].op /\ jobs'[n].id = jobs[n].id /\ jobs'[n].form = jobs[n].form
           /\ jobs'[n].visit = jobs[n].visit /\ jobs'[n].asks = Asked(requests)
           /\ n \in Running'
           /\ \A m \in Running : m # n => m \in Running' /\ jobs'[m] = jobs[m]
<1> USE DEF IInv
<1> DEFINE j == [jobs[n] EXCEPT !.asks = Asked(requests)]
<1>1. Hand(jobs[n]) /\ n \in Running
  BY DEF Hands, Running
<1>2. /\ Hand(j)
      /\ j.op = jobs[n].op /\ j.id = jobs[n].id /\ j.form = jobs[n].form
      /\ j.visit = jobs[n].visit /\ j.asks = Asked(requests)
  BY <1>1, AskAgainHand
<1>3. Holds(n, j)
  BY DEF Continue, Holds
<1> HIDE DEF j
<1>4. Saved(jobs[n])
  BY <1>1, SavedJobs
<1>5. Saved(j)
  BY <1>2, <1>4 DEF Saved
<1>6. \A a \in requests : a \in DOMAIN j.asks /\ j.asks[a] # Taken
  BY <1>2, AskedStands DEF Sent, Taken
<1> QED
  BY <1>2, <1>3, <1>5, <1>6, GoesOn

LEMMA EndKeeps ==
    ASSUME IInv, NEW n \in Slots, End(n),
           StoreRequests \intersect DOMAIN jobs[n].asks = {},
           stores' = stores, page' = page, visit' = visit
    PROVE  /\ Hands' /\ SavedWhereOpened' /\ StoresBusy'
           /\ \A m \in Running : m # n => m \in Running' /\ jobs'[m] = jobs[m]
<1> USE DEF IInv
<1>1. Hand(Idle) /\ Idle.op = "idle"
  BY IdleHand DEF Shapes
<1>2. Saved(Idle)
  BY <1>1 DEF Saved
<1>3. Holds(n, Idle)
  BY DEF End, Holds
<1> QED
  BY <1>1, <1>2, <1>3, GoesOn

\* Nothing but the refs of the page changes.
LEMMA OnlyRefs ==
    ASSUME IInv, jobs' = jobs, page' = page, visit' = visit,
           stores'.profilesLoading = stores.profilesLoading,
           stores'.statusLoading = stores.statusLoading
    PROVE  Hands' /\ SavedWhereOpened' /\ StoresBusy' /\ Running' = Running
<1> USE DEF IInv
<1>1. Running' = Running
  BY DEF Running
<1>2. Hands'
  BY DEF Hands, Hand
<1>3. SavedWhereOpened' /\ StoresBusy'
  BY <1>1 DEF SavedWhereOpened, StoresBusy, BusyMeansAsked
<1> QED
  BY <1>1, <1>2, <1>3
LEMMA AnswerValue ==
    ASSUME NEW j, Handler(j), NEW a \in DOMAIN j.asks, j.asks[a].is = "answer"
    PROVE  Replied(a, j.asks[a].value)
BY DEF Handler, Stands, Sent, Failure, Taken

\* Of a page that has been left nothing is seen.
Kept ==
    /\ Hands' /\ SavedWhereOpened' /\ BusyMeansAsked' /\ FormOpened'
    /\ refs' \in RefsOf(page)

LEMMA LeftPageKept ==
    ASSUME IInv, NEW n \in Slots, jobs[n].visit # visit,
           Hands', SavedWhereOpened', StoresBusy',
           \A m \in Running : m # n => m \in Running' /\ jobs'[m] = jobs[m],
           UNCHANGED <<page, visit, refs>>
    PROVE  Kept
<1> USE DEF IInv
<1>1. refs' \in RefsOf(page) /\ FormOpened'
  BY DEF Shapes, FormOpened
<1>2. \A m \in Running : jobs[m].visit = visit => m \in Running' /\ jobs'[m] = jobs[m]
  OBVIOUS
<1>3. TasksBusy => TasksBusy'
  BY <1>2 DEF TasksBusy, AsksFor
<1>4. ModelsBusy => ModelsBusy'
  BY <1>2 DEF ModelsBusy
<1>5. KnowledgeBusy => KnowledgeBusy'
  BY <1>2 DEF KnowledgeBusy
<1>6. BiliWatchBusy => BiliWatchBusy'
  BY <1>2 DEF BiliWatchBusy, AsksFor
<1>7. MonitorBusy => MonitorBusy'
  BY <1>2 DEF MonitorBusy, AsksFor
<1>8. BusyMeansAsked'
  BY <1>3, <1>4, <1>5, <1>6, <1>7 DEF BusyMeansAsked
<1> QED
  BY <1>1, <1>8 DEF Kept

LEMMA LeftPageContinues ==
    ASSUME IInv, NEW n \in Slots, NEW requests, Continue(n, requests),
           jobs[n].op # "idle", requests \in Questions(jobs[n].op),
           \A a \in requests : Fit(jobs[n], a),
           StoreRequests \intersect DOMAIN jobs[n].asks = {}, jobs[n].visit # visit,
           UNCHANGED <<page, visit, refs, stores>>
    PROVE  Kept
BY ContinueKeeps, LeftPageKept

LEMMA LeftPageEnds ==
    ASSUME IInv, NEW n \in Slots, End(n),
           StoreRequests \intersect DOMAIN jobs[n].asks = {}, jobs[n].visit # visit,
           UNCHANGED <<page, visit, refs, stores>>
    PROVE  Kept
BY EndKeeps, LeftPageKept

------------------------------------------------------------------------------
(* The page of the scheduled tasks.                                          *)

LEMMA TaskQuestion ==
    ASSUME NEW op \in TaskOps, NEW D \in TaskQuestions(op)
    PROVE  /\ op \in OpsOf("scheduled-tasks") /\ op \in Ops /\ op # "idle"
           /\ D \in Questions(op) /\ StoreRequests \intersect D = {}
<1>1. op \in OpsOf("scheduled-tasks") /\ op \in Ops /\ op # "idle"
  BY DEF OpsOf, Ops, TaskOps
<1>2. D \in Questions(op)
  BY OpsApart DEF Questions, TaskOps
<1> QED
  BY <1>1, <1>2, TaskAsks, RequestsApart

LEMMA TasksHere ==
    ASSUME IInv, page = "scheduled-tasks"
    PROVE  refs \in TasksRefs /\ TasksBusy /\ refs.form.of = refs.editingId
BY DEF IInv, Shapes, RefsOf, BusyMeansAsked, FormOpened

\* What a step of this page has to leave behind.
TasksKept ==
    /\ Hands' /\ SavedWhereOpened' /\ StoresBusy' /\ TasksBusy'
    /\ refs' \in TasksRefs /\ refs'.form.of = refs'.editingId

LEMMA TasksBegin ==
    ASSUME IInv, page = "scheduled-tasks", Free # {}, UNCHANGED <<page, visit, stores>>,
           NEW op \in TaskOps, NEW id, NEW form, NEW D \in TaskQuestions(op),
           Begin(op, id, form, D), \A a \in D : Fit(Begun(op, id, form, D), a),
           Saved(Begun(op, id, form, D)),
           refs' \in TasksRefs, refs'.form.of = refs'.editingId,
           refs'.loading => refs.loading \/ D = TaskList,
           refs'.saving => refs.saving \/ op \in {"save", "delete"},
           refs'.togglingId \in {refs.togglingId, None} \/ (op = "toggle" /\ refs'.togglingId = id)
    PROVE  TasksKept
<1> DEFINE j == Begun(op, id, form, D)
<1>1. /\ Hands' /\ SavedWhereOpened' /\ StoresBusy'
      /\ \E n \in Running' : jobs'[n] = j
      /\ \A m \in Running : m \in Running' /\ jobs'[m] = jobs[m]
  BY TaskQuestion, BeginKeeps
<1>2. /\ j.op = op /\ j.id = id /\ j.visit = visit /\ DOMAIN j.asks = D
  BY AskedStands DEF Begun
<1> HIDE DEF j
<1>3. TasksBusy
  BY TasksHere
<1>4. refs'.loading => \E n \in Running' : jobs'[n].visit = visit /\ DOMAIN jobs'[n].asks = TaskList
  BY <1>1, <1>2, <1>3 DEF TasksBusy, AsksFor
<1>5. refs'.saving => \E n \in Running' : jobs'[n].visit = visit /\ jobs'[n].op \in {"save", "delete"}
  BY <1>1, <1>2, <1>3 DEF TasksBusy
<1>6. refs'.togglingId # None => \E n \in Running' : /\ jobs'[n].visit = visit
                                                    /\ jobs'[n].op = "toggle"
                                                    /\ jobs'[n].id = refs'.togglingId
  BY <1>1, <1>2, <1>3 DEF TasksBusy
<1>7. TasksBusy'
  BY <1>4, <1>5, <1>6 DEF TasksBusy, AsksFor
<1> QED
  BY <1>1, <1>7 DEF TasksKept

LEMMA TasksAskKeeps ==
    ASSUME IInv, page = "scheduled-tasks", Free # {}, TasksAsk, UNCHANGED <<page, visit, stores>>
    PROVE  TasksKept
<1>1. refs \in TasksRefs /\ refs.form.of = refs.editingId
  BY TasksHere
<1>2. ASSUME NEW typed \in Typed, NEW on \in BOOLEAN, SaveTask(typed, on)
      PROVE  TasksKept
  <2> DEFINE form == FillTaskForm(typed, on)
             D == {IF refs.editingId # None THEN "updateScheduledTask" ELSE "createScheduledTask"}
  <2>1. /\ form \in ScheduledTaskRequest /\ form.def = typed /\ form.of = refs.form.of
        /\ typed \in Values
    BY <1>1, ValuesAssumption DEF FillTaskForm, TasksRefs, ScheduledTaskRequest
  <2>2. refs' = [refs EXCEPT !.saving = TRUE, !.form = form]
    BY <1>2 DEF SaveTask
  <2>3. Begin("save", refs.editingId, form, D)
    BY <1>2 DEF SaveTask
  <2> HIDE DEF form
  <2>4. /\ refs' \in TasksRefs /\ refs'.form = form /\ refs'.editingId = refs.editingId
        /\ refs'.loading = refs.loading /\ refs'.togglingId = refs.togglingId
    BY <1>1, <2>1, <2>2 DEF TasksRefs
  <2>5. D \in TaskQuestions("save") /\ "save" \in TaskOps
    BY DEF TaskQuestions, TaskOps
  <2>6. \A a \in D : Fit(Begun("save", refs.editingId, form, D), a)
    BY <1>1, <2>1 DEF Fit, Begun, TasksRefs, ModelRequests, KnowledgeRequests, BiliWatchRequests,
                      BiliWatchLoad
  <2>7. Saved(Begun("save", refs.editingId, form, D))
    BY <1>1, <2>1 DEF Saved, Begun
  <2> HIDE DEF D
  <2> QED
    BY <1>1, <2>1, <2>3, <2>4, <2>5, <2>6, <2>7, TasksBegin
<1>3. ASSUME DeleteTask
      PROVE  TasksKept
  <2> DEFINE D == {"deleteScheduledTask"}
  <2>1. refs' = [refs EXCEPT !.saving = TRUE] /\ Begin("delete", refs.deletingTask, None, D)
    BY <1>3 DEF DeleteTask
  <2>2. /\ refs' \in TasksRefs /\ refs'.form = refs.form /\ refs'.editingId = refs.editingId
        /\ refs'.loading = refs.loading /\ refs'.togglingId = refs.togglingId
    BY <1>1, <2>1 DEF TasksRefs
  <2>3. D \in TaskQuestions("delete") /\ "delete" \in TaskOps
    BY DEF TaskQuestions, TaskOps
  <2>4. /\ \A a \in D : Fit(Begun("delete", refs.deletingTask, None, D), a)
        /\ Saved(Begun("delete", refs.deletingTask, None, D))
    BY <1>1 DEF Fit, Begun, Saved, TasksRefs, ModelRequests, KnowledgeRequests, BiliWatchRequests,
                BiliWatchLoad
  <2> HIDE DEF D
  <2> QED
    BY <1>1, <2>1, <2>2, <2>3, <2>4, TasksBegin
<1>4. ASSUME NEW t \in Rows, RunTaskNow(t)
      PROVE  TasksKept
  <2> DEFINE D == {"runScheduledTask"}
  <2>1. refs' = refs /\ Begin("run", t, None, D)
    BY <1>4 DEF RunTaskNow
  <2>3. D \in TaskQuestions("run") /\ "run" \in TaskOps
    BY DEF TaskQuestions, TaskOps
  <2>4. /\ \A a \in D : Fit(Begun("run", t, None, D), a)
        /\ Saved(Begun("run", t, None, D))
    BY DEF Fit, Begun, Saved, ModelRequests, KnowledgeRequests, BiliWatchRequests, BiliWatchLoad
  <2> HIDE DEF D
  <2> QED
    BY <1>1, <2>1, <2>3, <2>4, TasksBegin
<1>5. ASSUME NEW t \in Rows, ToggleTask(t)
      PROVE  TasksKept
  <2> DEFINE D == {"updateScheduledTask"}
             form == [of |-> t, def |-> refs.tasks[t].def, enabled |-> ~refs.tasks[t].enabled]
  <2>1. refs' = [refs EXCEPT !.togglingId = t] /\ Begin("toggle", t, form, D)
    BY <1>5 DEF ToggleTask
  <2>2. /\ refs' \in TasksRefs /\ refs'.form = refs.form /\ refs'.editingId = refs.editingId
        /\ refs'.loading = refs.loading /\ refs'.saving = refs.saving /\ refs'.togglingId = t
    BY <1>1, <2>1 DEF TasksRefs
  <2>3. D \in TaskQuestions("toggle") /\ "toggle" \in TaskOps
    BY DEF TaskQuestions, TaskOps
  <2>4. form \in ScheduledTaskRequest /\ form.def \in Values
    <3>1. refs.tasks[t] \in ScheduledTask
      BY <1>1, <1>5 DEF ToggleTask, TaskRow, TasksRefs
    <3> QED
      BY <3>1 DEF ScheduledTask, ScheduledTaskRequest
  <2> HIDE DEF form
  <2>5. /\ \A a \in D : Fit(Begun("toggle", t, form, D), a)
        /\ Saved(Begun("toggle", t, form, D))
    BY <2>4 DEF Fit, Begun, Saved, ModelRequests, KnowledgeRequests, BiliWatchRequests, BiliWatchLoad
  <2> HIDE DEF D
  <2> QED
    BY <1>1, <2>1, <2>2, <2>3, <2>5, TasksBegin
<1>6. ASSUME NEW t \in Rows, ShowTaskHistory(t)
      PROVE  TasksKept
  <2> DEFINE D == {"scheduledTaskRuns"}
  <2>1. refs' = refs /\ Begin("history", t, None, D)
    BY <1>6 DEF ShowTaskHistory
  <2>3. D \in TaskQuestions("history") /\ "history" \in TaskOps
    BY DEF TaskQuestions, TaskOps
  <2>4. /\ \A a \in D : Fit(Begun("history", t, None, D), a)
        /\ Saved(Begun("history", t, None, D))
    BY DEF Fit, Begun, Saved, ModelRequests, KnowledgeRequests, BiliWatchRequests, BiliWatchLoad
  <2> HIDE DEF D
  <2> QED
    BY <1>1, <2>1, <2>3, <2>4, TasksBegin
<1>7. ASSUME ReloadTasks
      PROVE  TasksKept
  <2>1. refs' = [refs EXCEPT !.loading = TRUE] /\ Begin("load", None, None, TaskList)
    BY <1>7 DEF ReloadTasks, TasksAreLoading
  <2>2. /\ refs' \in TasksRefs /\ refs'.form = refs.form /\ refs'.editingId = refs.editingId
        /\ refs'.saving = refs.saving /\ refs'.togglingId = refs.togglingId
    BY <1>1, <2>1 DEF TasksRefs
  <2>3. TaskList \in TaskQuestions("load") /\ "load" \in TaskOps
    BY DEF TaskQuestions, TaskOps
  <2>4. /\ \A a \in TaskList : Fit(Begun("load", None, None, TaskList), a)
        /\ Saved(Begun("load", None, None, TaskList))
    BY DEF TaskList, Fit, Begun, Saved, ModelRequests, KnowledgeRequests, BiliWatchRequests,
           BiliWatchLoad
  <2> QED
    BY <1>1, <2>1, <2>2, <2>3, <2>4, TasksBegin
<1> QED
  BY <1>2, <1>3, <1>4, <1>5, <1>6, <1>7 DEF TasksAsk

LEMMA TasksAreKept ==
    ASSUME page = "scheduled-tasks", page' = page, TasksKept
    PROVE  Kept
BY DEF Kept, TasksKept, BusyMeansAsked, FormOpened, RefsOf

LEMMA TasksOpenKeeps ==
    ASSUME IInv, page = "scheduled-tasks", TasksOpenOrClose, UNCHANGED <<page, visit, stores>>
    PROVE  TasksKept
<1>1. refs \in TasksRefs /\ refs.form.of = refs.editingId /\ TasksBusy
  BY TasksHere
<1>2. jobs' = jobs
  BY DEF TasksOpenOrClose, OpenCreateTask, OpenEditTask, AskRemoveTask, CancelTaskForm,
         CancelRemoveTask, CloseTaskHistory
<1>3. Hands' /\ SavedWhereOpened' /\ StoresBusy' /\ Running' = Running
  BY <1>2, OnlyRefs
<1> DEFINE Opened == /\ refs' \in TasksRefs /\ refs'.form.of = refs'.editingId
                     /\ refs'.loading = refs.loading /\ refs'.saving = refs.saving
                     /\ refs'.togglingId = refs.togglingId
<1>4. Opened
  <2>1. CASE OpenCreateTask
    BY <1>1, <2>1 DEF OpenCreateTask, TasksRefs, EmptyForm, ScheduledTaskRequest
  <2>2. ASSUME NEW t \in Rows, OpenEditTask(t)
        PROVE  Opened
    <3>1. refs.tasks[t] \in ScheduledTask
      BY <1>1, <2>2 DEF OpenEditTask, TaskRow, TasksRefs
    <3> DEFINE form == [of |-> t, def |-> refs.tasks[t].def, enabled |-> refs.tasks[t].enabled]
    <3>2. form \in ScheduledTaskRequest /\ form.of = t
      BY <3>1 DEF ScheduledTask, ScheduledTaskRequest
    <3>3. refs' = [refs EXCEPT !.editingId = t, !.showForm = TRUE, !.form = form]
      BY <2>2 DEF OpenEditTask
    <3> HIDE DEF form
    <3> QED
      BY <1>1, <3>2, <3>3 DEF TasksRefs
  <2>3. ASSUME NEW t \in Rows, AskRemoveTask(t)
        PROVE  Opened
    BY <1>1, <2>3 DEF AskRemoveTask, TasksRefs
  <2>4. CASE CancelTaskForm \/ CancelRemoveTask \/ CloseTaskHistory
    BY <1>1, <2>4 DEF CancelTaskForm, CancelRemoveTask, CloseTaskHistory, TasksRefs
  <2> QED
    BY <2>1, <2>2, <2>3, <2>4 DEF TasksOpenOrClose
<1>5. TasksBusy'
  BY <1>1, <1>2, <1>3, <1>4 DEF TasksBusy, AsksFor
<1> QED
  BY <1>3, <1>4, <1>5 DEF TasksKept

\* What is known of a handler of this page that goes on.
LEMMA TaskHandler ==
    ASSUME IInv, NEW n \in Slots, jobs[n].op \in TaskOps
    PROVE  /\ n \in Running /\ Handler(jobs[n])
           /\ DOMAIN jobs[n].asks \in TaskQuestions(jobs[n].op)
           /\ StoreRequests \intersect DOMAIN jobs[n].asks = {}
           /\ jobs[n].id \in Rows \union {None}
           /\ jobs[n].visit = visit => page = "scheduled-tasks"
<1> USE DEF IInv
<1>1. Hand(jobs[n]) /\ Handler(jobs[n])
  BY DEF Hands, Hand
<1>2. DOMAIN jobs[n].asks \in Questions(jobs[n].op) /\ jobs[n].op # "idle"
  BY <1>1, TaskQuestion DEF Handler, TaskOps
<1>3. /\ DOMAIN jobs[n].asks \in TaskQuestions(jobs[n].op)
      /\ DOMAIN jobs[n].asks \subseteq TaskRequests /\ DOMAIN jobs[n].asks # {}
  BY <1>2, TaskAsks
<1>4. jobs[n].id \in Rows \union {None}
  BY <1>1, <1>3 DEF Handler, Fit
<1>5. jobs[n].visit = visit => page = "scheduled-tasks"
  <2>1. ASSUME jobs[n].visit = visit
        PROVE  jobs[n].op \in OpsOf(page)
    BY <1>1, <2>1 DEF Hand, TaskOps
  <2>2. \A p \in Routes : p # "scheduled-tasks" => OpsOf(p) \intersect TaskOps = {}
    BY OpsApart DEF Routes, OpsOf, MonitorOps
  <2> QED
    BY <2>1, <2>2 DEF Shapes
<1> QED
  BY <1>1, <1>2, <1>3, <1>4, <1>5, RequestsApart DEF Running

LEMMA TaskListOps ==
    ASSUME IInv, NEW n \in Slots, AsksFor(n, TaskList)
    PROVE  jobs[n].op \in TaskOps
<1>1. /\ jobs[n].op \in Ops /\ DOMAIN jobs[n].asks \in Questions(jobs[n].op)
      /\ DOMAIN jobs[n].asks = TaskList
  BY DEF IInv, Hands, Hand, Handler, AsksFor
<1>2. "scheduledTasks" \in TaskRequests /\ "scheduledTasks" \in TaskList
  BY DEF TaskRequests, TaskList
<1>3. /\ "scheduledTasks" \notin ModelRequests \union KnowledgeRequests
      /\ "scheduledTasks" \notin BiliWatchRequests \union MonitorRequests
      /\ "scheduledTasks" \notin ModelsLoad \union OverviewLoad \union StoreRequests
  BY <1>2, RequestsApart DEF ModelsLoad, OverviewLoad
<1>4. jobs[n].op \notin ModelPageOps
  BY <1>1, <1>2, <1>3, ModelAsks
<1>5. jobs[n].op \notin KnowledgeOps
  BY <1>1, <1>2, <1>3, KnowledgeAsks
<1>6. jobs[n].op \notin BiliWatchOps
  BY <1>1, <1>2, <1>3, BiliWatchAsks
<1>7. jobs[n].op \notin MonitorOps
  BY <1>1, <1>2, <1>3, MonitorAsks
<1>8. jobs[n].op \notin {"refresh", "idle"}
  BY <1>1, <1>2, <1>3, OtherAsks DEF StoreRequests
<1> QED
  BY <1>1, <1>4, <1>5, <1>6, <1>7, <1>8 DEF Ops

LEMMA TaskChangedKeeps ==
    ASSUME IInv, NEW n \in Slots, TaskChanged(n), UNCHANGED <<page, visit, stores>>
    PROVE  Kept
<1> DEFINE op == jobs[n].op
           closed == [refs EXCEPT !.showForm = IF op = "save" THEN FALSE ELSE @,
                                  !.deletingTask = IF op = "delete" THEN None ELSE @]
<1>1. /\ op \in {"save", "delete", "run", "toggle"} /\ op \in TaskOps
      /\ Show(n, TasksAreLoading(closed)) /\ Continue(n, TaskList)
  BY DEF TaskChanged, Reload, TaskOps
<1>2. /\ n \in Running /\ Handler(jobs[n]) /\ StoreRequests \intersect DOMAIN jobs[n].asks = {}
      /\ jobs[n].id \in Rows \union {None} /\ (jobs[n].visit = visit => page = "scheduled-tasks")
  BY <1>1, TaskHandler
<1>3. TaskList \in TaskQuestions(op) /\ op # "idle"
  BY <1>1 DEF TaskQuestions
<1>4. TaskList \in Questions(op)
  BY <1>1, <1>3, TaskQuestion
<1>5. \A a \in TaskList : Fit(jobs[n], a)
  BY <1>2 DEF Fit, TaskList, ModelRequests, KnowledgeRequests, BiliWatchRequests, BiliWatchLoad
<1>6. CASE jobs[n].visit # visit
  <2>1. refs' = refs
    BY <1>1, <1>6 DEF Show
  <2> QED
    BY <1>1, <1>2, <1>3, <1>4, <1>5, <1>6, <2>1, LeftPageContinues
<1>7. CASE jobs[n].visit = visit
  <2>1. page = "scheduled-tasks" /\ refs' = TasksAreLoading(closed)
    BY <1>1, <1>2, <1>7 DEF Show
  <2>2. refs \in TasksRefs /\ TasksBusy /\ refs.form.of = refs.editingId
    BY <2>1, TasksHere
  <2>3. /\ Hands' /\ SavedWhereOpened' /\ StoresBusy'
        /\ jobs'[n].op = jobs[n].op /\ jobs'[n].id = jobs[n].id
        /\ jobs'[n].visit = jobs[n].visit /\ DOMAIN jobs'[n].asks = TaskList /\ n \in Running'
        /\ \A m \in Running : m # n => m \in Running' /\ jobs'[m] = jobs[m]
    BY <1>1, <1>2, <1>3, <1>4, <1>5, ContinueKeeps, AskedStands
  <2>4. /\ refs' \in TasksRefs /\ refs'.form = refs.form /\ refs'.editingId = refs.editingId
        /\ refs'.saving = refs.saving /\ refs'.togglingId = refs.togglingId
    BY <2>1, <2>2 DEF TasksRefs, TasksAreLoading
  <2>5. TasksBusy'
    BY <1>7, <2>2, <2>3, <2>4 DEF TasksBusy, AsksFor
  <2> QED
    BY <2>1, <2>2, <2>3, <2>4, <2>5, TasksAreKept DEF TasksKept
<1> QED
  BY <1>6, <1>7

LEMMA TaskRefusedKeeps ==
    ASSUME IInv, NEW n \in Slots, TaskRefused(n), UNCHANGED <<page, visit, stores>>
    PROVE  Kept
<1> DEFINE op == jobs[n].op
<1>1. /\ op \in TaskOps /\ ~AsksFor(n, TaskList)
      /\ Show(n, TaskHandlerEnds(op, refs)) /\ End(n)
  BY DEF TaskRefused, TaskOps
<1>2. /\ n \in Running /\ StoreRequests \intersect DOMAIN jobs[n].asks = {}
      /\ jobs[n].visit = visit => page = "scheduled-tasks"
  BY <1>1, TaskHandler
<1>3. CASE jobs[n].visit # visit
  <2>1. refs' = refs
    BY <1>1, <1>3 DEF Show
  <2> QED
    BY <1>1, <1>2, <1>3, <2>1, LeftPageEnds
<1>4. CASE jobs[n].visit = visit
  <2>1. page = "scheduled-tasks" /\ refs' = TaskHandlerEnds(op, refs)
    BY <1>1, <1>2, <1>4 DEF Show
  <2>2. refs \in TasksRefs /\ TasksBusy /\ refs.form.of = refs.editingId
    BY <2>1, TasksHere
  <2>3. /\ Hands' /\ SavedWhereOpened' /\ StoresBusy'
        /\ \A m \in Running : m # n => m \in Running' /\ jobs'[m] = jobs[m]
    BY <1>1, <1>2, EndKeeps
  <2>4. /\ refs' \in TasksRefs /\ refs'.form = refs.form /\ refs'.editingId = refs.editingId
        /\ refs'.loading = refs.loading
        /\ refs'.saving = IF op \in {"save", "delete"} THEN FALSE ELSE refs.saving
        /\ refs'.togglingId = IF op = "toggle" THEN None ELSE refs.togglingId
    BY <2>1, <2>2 DEF TasksRefs, TaskHandlerEnds
  <2>5. TasksBusy'
    BY <1>1, <2>2, <2>3, <2>4 DEF TasksBusy, AsksFor
  <2> QED
    BY <2>1, <2>2, <2>3, <2>4, <2>5, TasksAreKept DEF TasksKept
<1> QED
  BY <1>3, <1>4

LEMMA TasksLoadedKeeps ==
    ASSUME IInv, NEW n \in Slots, TasksLoaded(n), UNCHANGED <<page, visit, stores>>
    PROVE  Kept
<1> DEFINE op == jobs[n].op
           shown == IF SomeFailed(n) THEN refs
                    ELSE [refs EXCEPT !.tasks = Value(n, "scheduledTasks"),
                                      !.handlers = Value(n, "scheduledTaskHandlers")]
<1>1. /\ AsksFor(n, TaskList) /\ (AllAnswered(n) \/ SomeFailed(n))
      /\ Show(n, TaskHandlerEnds(op, [shown EXCEPT !.loading = FALSE])) /\ End(n)
  BY DEF TasksLoaded
<1>2. /\ op \in TaskOps /\ n \in Running /\ Handler(jobs[n])
      /\ StoreRequests \intersect DOMAIN jobs[n].asks = {}
      /\ jobs[n].visit = visit => page = "scheduled-tasks"
  BY <1>1, TaskListOps, TaskHandler
<1>3. CASE jobs[n].visit # visit
  <2>1. refs' = refs
    BY <1>1, <1>3 DEF Show
  <2> QED
    BY <1>1, <1>2, <1>3, <2>1, LeftPageEnds
<1>4. CASE jobs[n].visit = visit
  <2>1. /\ page = "scheduled-tasks"
        /\ refs' = TaskHandlerEnds(op, [shown EXCEPT !.loading = FALSE])
    BY <1>1, <1>2, <1>4 DEF Show
  <2>2. refs \in TasksRefs /\ TasksBusy /\ refs.form.of = refs.editingId
    BY <2>1, TasksHere
  <2>3. /\ Hands' /\ SavedWhereOpened' /\ StoresBusy'
        /\ \A m \in Running : m # n => m \in Running' /\ jobs'[m] = jobs[m]
    BY <1>1, <1>2, EndKeeps
  <2>4. ~SomeFailed(n) => /\ Value(n, "scheduledTasks") \in [Rows -> ScheduledTask \union {None}]
                          /\ Value(n, "scheduledTaskHandlers") \in BOOLEAN
    <3>1. ~SomeFailed(n) => \A a \in TaskList : Replied(a, Value(n, a))
      BY <1>1, <1>2, AnswerValue DEF AllAnswered, AsksFor, Value
    <3> QED
      BY <3>1 DEF Replied, TaskList
  <2>5. /\ shown \in TasksRefs /\ shown.form = refs.form /\ shown.editingId = refs.editingId
        /\ shown.saving = refs.saving /\ shown.togglingId = refs.togglingId
    BY <2>2, <2>4 DEF TasksRefs
  <2> HIDE DEF shown
  <2>6. /\ refs' \in TasksRefs /\ refs'.form = refs.form /\ refs'.editingId = refs.editingId
        /\ refs'.loading = FALSE
        /\ refs'.saving = IF op \in {"save", "delete"} THEN FALSE ELSE refs.saving
        /\ refs'.togglingId = IF op = "toggle" THEN None ELSE refs.togglingId
    BY <2>1, <2>5 DEF TasksRefs, TaskHandlerEnds
  <2>7. TasksBusy'
    BY <2>2, <2>3, <2>6 DEF TasksBusy, AsksFor
  <2> QED
    BY <2>1, <2>2, <2>3, <2>6, <2>7, TasksAreKept DEF TasksKept
<1> QED
  BY <1>3, <1>4

LEMMA TaskHistoryLoadedKeeps ==
    ASSUME IInv, NEW n \in Slots, TaskHistoryLoaded(n), UNCHANGED <<page, visit, stores>>
    PROVE  Kept
<1>1. /\ jobs[n].op = "history" /\ AllAnswered(n) /\ End(n)
      /\ Show(n, [refs EXCEPT !.runs = Value(n, "scheduledTaskRuns"), !.showRuns = TRUE])
  BY DEF TaskHistoryLoaded
<1>2. /\ n \in Running /\ Handler(jobs[n]) /\ StoreRequests \intersect DOMAIN jobs[n].asks = {}
      /\ DOMAIN jobs[n].asks = {"scheduledTaskRuns"}
      /\ jobs[n].visit = visit => page = "scheduled-tasks"
  BY <1>1, TaskHandler DEF TaskOps, TaskQuestions
<1>3. CASE jobs[n].visit # visit
  <2>1. refs' = refs
    BY <1>1, <1>3 DEF Show
  <2> QED
    BY <1>1, <1>2, <1>3, <2>1, LeftPageEnds
<1>4. CASE jobs[n].visit = visit
  <2>1. /\ page = "scheduled-tasks"
        /\ refs' = [refs EXCEPT !.runs = Value(n, "scheduledTaskRuns"), !.showRuns = TRUE]
    BY <1>1, <1>2, <1>4 DEF Show
  <2>2. refs \in TasksRefs /\ TasksBusy /\ refs.form.of = refs.editingId
    BY <2>1, TasksHere
  <2>3. /\ Hands' /\ SavedWhereOpened' /\ StoresBusy'
        /\ \A m \in Running : m # n => m \in Running' /\ jobs'[m] = jobs[m]
    BY <1>1, <1>2, EndKeeps
  <2>4. Value(n, "scheduledTaskRuns") \in TaskRuns
    BY <1>1, <1>2, AnswerValue DEF AllAnswered, Value, Replied
  <2>5. /\ refs' \in TasksRefs /\ refs'.form = refs.form /\ refs'.editingId = refs.editingId
        /\ refs'.loading = refs.loading /\ refs'.saving = refs.saving
        /\ refs'.togglingId = refs.togglingId
    BY <2>1, <2>2, <2>4 DEF TasksRefs
  <2>6. TasksBusy'
    BY <1>1, <1>2, <2>2, <2>3, <2>5 DEF TasksBusy, AsksFor, TaskList
  <2> QED
    BY <2>1, <2>2, <2>3, <2>5, <2>6, TasksAreKept DEF TasksKept
<1> QED
  BY <1>3, <1>4

LEMMA TasksResumeKeeps ==
    ASSUME IInv, NEW n \in Slots, TasksResume(n), UNCHANGED <<page, visit, stores>>
    PROVE  Kept
BY TaskChangedKeeps, TaskRefusedKeeps, TasksLoadedKeeps, TaskHistoryLoadedKeeps DEF TasksResume
------------------------------------------------------------------------------
(* The stores: what comes is taken, and what is still awaited is left alone. *)

LEMMA RefreshedType ==
    ASSUME IInv, NEW n \in Slots, NEW a \in StoreRequests, a \in DOMAIN jobs[n].asks
    PROVE  LET s == Refreshed(stores, n, a) IN
           /\ s \in Stores
           /\ s.profilesLoading => stores.profilesLoading /\ a # "models"
           /\ s.statusLoading => stores.statusLoading /\ a # "status"
<1>1. stores \in Stores /\ Handler(jobs[n])
  BY DEF IInv, Shapes, Hands, Hand
<1>2. jobs[n].asks[a].is = "answer" => Replied(a, Value(n, a))
  BY <1>1, AnswerValue DEF Value
<1>3. CASE a = "models"
  <2>1. jobs[n].asks[a].is = "answer" => Value(n, a) \in ModelProfiles
    BY <1>2, <1>3 DEF Replied
  <2> QED
    BY <1>1, <1>3, <2>1 DEF Refreshed, ModelsRefreshed, Stores
<1>4. CASE a = "status"
  <2>1. jobs[n].asks[a].is = "answer" => Value(n, a) \in RuntimeStatus
    BY <1>2, <1>4 DEF Replied
  <2> QED
    BY <1>1, <1>4, <2>1 DEF Refreshed, RuntimeRefreshed, Stores
<1> QED
  BY <1>3, <1>4 DEF StoreRequests

LEMMA TakenIs ==
    ASSUME NEW j, Handler(j), NEW a \in DOMAIN j.asks
    PROVE  j.asks[a].is = "taken" <=> j.asks[a] = Taken
BY DEF Handler, Stands, Sent, Failure, Taken, Answer

\* What is left of a handler that has taken a.
LeftOf(n, a, j) ==
    /\ Holds(n, j) /\ Hand(j) /\ Saved(j)
    /\ \A b \in StoreRequests \ {a} :
          b \in DOMAIN jobs[n].asks /\ jobs[n].asks[b] # Taken =>
             j.op # "idle" /\ b \in DOMAIN j.asks /\ j.asks[b] # Taken
    /\ ~Ends(n, a) => /\ j.op = jobs[n].op /\ j.id = jobs[n].id /\ j.visit = jobs[n].visit
                      /\ DOMAIN j.asks = DOMAIN jobs[n].asks
                      /\ \A b \in DOMAIN j.asks : b # a => j.asks[b] = jobs[n].asks[b]

LEMMA TakeLeaves ==
    ASSUME IInv, NEW n \in Running, NEW a \in DOMAIN jobs[n].asks,
           a \in StoreRequests \/ Ends(n, a), TakeAnswer(n, a), page' = page, visit' = visit
    PROVE  \E j : LeftOf(n, a, j)
<1> USE DEF IInv
<1>1. /\ n \in Slots /\ Hand(jobs[n]) /\ Handler(jobs[n]) /\ jobs[n].op # "idle"
      /\ Saved(jobs[n]) /\ visit \in Nat \ {0}
  BY SavedJobs DEF Running, Hands, Hand, Shapes
<1> DEFINE rest == {b \in StoreRequests \cap DOMAIN jobs[n].asks : b # a /\ ~Ready(n, b)}
<1>2. \A b \in StoreRequests : b \in DOMAIN jobs[n].asks /\ b # a /\ jobs[n].asks[b] # Taken
                                   => b \in rest
  BY <1>1, TakenIs DEF Ready
<1>3. \A b \in rest : jobs[n].asks[b] # Taken
  BY <1>1, TakenIs DEF Ready
<1>4. CASE Ends(n, a) /\ rest = {}
  <2>1. Holds(n, Idle)
    BY <1>1, <1>4 DEF TakeAnswer, LeftAlone, Holds
  <2>2. Hand(Idle) /\ Saved(Idle)
    BY <1>1, IdleHand DEF Saved
  <2> QED
    BY <1>2, <1>4, <2>1, <2>2 DEF LeftOf
<1>5. CASE Ends(n, a) /\ rest # {}
  <2> DEFINE asks == [b \in rest |-> jobs[n].asks[b]]
             j == [op |-> "refresh", id |-> None, form |-> None, visit |-> jobs[n].visit,
                   asks |-> asks]
  <2>1. [jobs[n] EXCEPT !.op = "refresh", !.id = None, !.form = None, !.asks = asks] = j
    <3> HIDE DEF asks
    <3>1. DOMAIN jobs[n] = {"op", "id", "form", "visit", "asks"}
      BY <1>1 DEF Handler
    <3> DEFINE k == [jobs[n] EXCEPT !.op = "refresh", !.id = None, !.form = None, !.asks = asks]
    <3>2. /\ DOMAIN k = {"op", "id", "form", "visit", "asks"}
          /\ k.op = "refresh" /\ k.id = None /\ k.form = None /\ k.visit = jobs[n].visit
          /\ k.asks = asks
          /\ k = [x \in DOMAIN k |-> k[x]]
      BY <3>1
    <3> HIDE DEF k
    <3>3. k = j
      BY <3>2
    <3> QED
      BY <3>3 DEF k
  <2>2. Holds(n, j)
    BY <1>1, <1>5, <2>1 DEF TakeAnswer, LeftAlone, Holds
  <2>3. DOMAIN asks = rest /\ rest \in {{"models"}, {"status"}, StoreRequests}
    BY <1>5 DEF StoreRequests
  <2>4. rest \in Questions("refresh") /\ "refresh" \in Ops
    <3>1. "refresh" \notin TaskOps \union ModelPageOps
      BY DEF TaskOps, ModelPageOps, ModelOps, Submits
    <3>2. "refresh" \notin KnowledgeOps \union BiliWatchOps \union MonitorOps
      BY DEF KnowledgeOps, BiliWatchOps, BiliWatchSaves, MonitorOps
    <3> QED
      BY <2>3, <3>1, <3>2 DEF Questions, Ops
  <2>5. \A b \in rest : Fit(j, b) /\ Stands(b, asks[b])
    <3>1. \A b \in rest : Fit(j, b)
      BY RequestsApart DEF Fit, StoreRequests, TaskRequests, ModelRequests, KnowledgeRequests,
                           BiliWatchRequests, BiliWatchLoad
    <3>2. \A b \in rest : Stands(b, jobs[n].asks[b])
      BY <1>1 DEF Handler
    <3> QED
      BY <3>1, <3>2
  <2>6. /\ j.op = "refresh" /\ j.visit = jobs[n].visit /\ j.asks = asks
        /\ j = [op |-> j.op, id |-> j.id, form |-> j.form, visit |-> j.visit, asks |-> j.asks]
        /\ asks = [b \in DOMAIN asks |-> asks[b]]
        /\ \A b \in rest : asks[b] = jobs[n].asks[b]
    OBVIOUS
  <2> HIDE DEF j, asks, rest
  <2>7. Handler(j)
    BY <2>3, <2>4, <2>5, <2>6 DEF Handler
  <2>8. Hand(j) /\ Saved(j)
    BY <1>1, <2>6, <2>7 DEF Hand, Saved
  <2> QED
    BY <1>2, <1>3, <1>5, <2>2, <2>3, <2>6, <2>8 DEF LeftOf
<1>6. CASE ~Ends(n, a)
  <2> DEFINE j == Told(jobs[n], a, Taken)
  <2>1. Holds(n, j)
    BY <1>1, <1>6 DEF TakeAnswer, Holds, Told
  <2>2. Stands(a, Taken)
    BY <1>6 DEF Stands
  <2>3. /\ Hand(j) /\ j.op = jobs[n].op /\ j.id = jobs[n].id /\ j.form = jobs[n].form
        /\ j.visit = jobs[n].visit /\ DOMAIN j.asks = DOMAIN jobs[n].asks
        /\ \A b \in DOMAIN j.asks : b # a => j.asks[b] = jobs[n].asks[b]
    BY <1>1, <2>2, ToldHand
  <2> HIDE DEF j
  <2>4. Saved(j)
    BY <1>1, <2>3 DEF Saved
  <2> QED
    BY <1>1, <1>6, <2>1, <2>3, <2>4 DEF LeftOf
<1> QED
  BY <1>4, <1>5, <1>6

LEMMA TakeKeeps ==
    ASSUME IInv, NEW n \in Running, NEW a, NEW j, LeftOf(n, a, j),
           stores'.profilesLoading => stores.profilesLoading /\ a # "models",
           stores'.statusLoading => stores.statusLoading /\ a # "status"
    PROVE  /\ Hands' /\ SavedWhereOpened' /\ StoresBusy'
           /\ jobs'[n] = j /\ (j.op # "idle" => n \in Running')
           /\ \A m \in Running : m # n => m \in Running' /\ jobs'[m] = jobs[m]
<1> USE DEF IInv
<1>1. Holds(n, j) /\ Hand(j) /\ Saved(j)
  BY DEF LeftOf
<1>2. Hands' /\ SavedWhereOpened'
  BY <1>1, HoldsHands, HoldsSaved
<1>3. /\ jobs'[n] = j /\ (j.op # "idle" => n \in Running')
      /\ \A m \in Running : m # n => m \in Running' /\ jobs'[m] = jobs[m]
  BY <1>1, OthersStay
<1>4. ASSUME NEW b \in StoreRequests \ {a}, Awaited(b)
      PROVE  Awaited(b)'
  <2>1. PICK m \in Running : b \in DOMAIN jobs[m].asks /\ jobs[m].asks[b] # Taken
    BY <1>4 DEF Awaited
  <2>2. CASE m = n
    BY <1>3, <2>1, <2>2 DEF LeftOf, Awaited
  <2>3. CASE m # n
    BY <1>3, <2>1, <2>3 DEF Awaited
  <2> QED
    BY <2>2, <2>3
<1>5. /\ stores'.profilesLoading => Awaited("models")'
      /\ stores'.statusLoading => Awaited("status")'
  BY <1>4, StoresAwaited DEF StoreRequests, BusyMeansAsked
<1> QED
  BY <1>2, <1>3, <1>5 DEF StoresBusy, Awaited
------------------------------------------------------------------------------
(* The page of the models.                                                   *)

LEMMA ModelQuestion ==
    ASSUME NEW op \in ModelPageOps, NEW D \in ModelQuestions(op)
    PROVE  /\ op \in OpsOf("models") /\ op \in Ops /\ op # "idle"
           /\ D \in Questions(op) /\ (D = ModelsLoad \/ StoreRequests \intersect D = {})
<1>1. op \in OpsOf("models") /\ op \in Ops /\ op # "idle" /\ op # "refresh"
  BY DEF OpsOf, Ops, ModelPageOps, ModelOps, Submits
<1>2. D \in Questions(op)
  BY <1>1, OpsApart DEF Questions
<1> QED
  BY <1>1, <1>2, ModelAsks, RequestsApart

\* A form that creates a profile was opened empty, one that edits was filled from its row.
ProfileOpened(r) ==
    /\ r.dialog = "single" => r.form.of = None
    /\ r.dialog = "edit" => r.form.of \in {r.editing, None}

LEMMA ModelsHere ==
    ASSUME IInv, page = "models"
    PROVE  refs \in ModelsRefs /\ ModelsBusy /\ ProfileOpened(refs) /\ stores \in Stores
BY DEF IInv, Shapes, RefsOf, BusyMeansAsked, FormOpened, ProfileOpened

ModelsKept ==
    /\ Hands' /\ SavedWhereOpened' /\ StoresBusy' /\ ModelsBusy'
    /\ refs' \in ModelsRefs /\ ProfileOpened(refs')

LEMMA ModelsAreKept ==
    ASSUME page = "models", page' = page, ModelsKept
    PROVE  Kept
BY DEF Kept, ModelsKept, BusyMeansAsked, FormOpened, RefsOf, ProfileOpened

LEMMA ModelsBegin ==
    ASSUME IInv, page = "models", Free # {}, UNCHANGED <<page, visit, stores>>,
           NEW op \in ModelPageOps, NEW id, NEW form, NEW a, {a} \in ModelQuestions(op),
           Begin(op, id, form, {a}), Fit(Begun(op, id, form, {a}), a),
           Saved(Begun(op, id, form, {a})),
           refs' \in ModelsRefs, ProfileOpened(refs'),
           refs'.saving => refs.saving \/ op \in Submits,
           refs'.testing \in {refs.testing, None} \/ (op = "test" /\ refs'.testing = id)
    PROVE  ModelsKept
<1> DEFINE j == Begun(op, id, form, {a})
<1>1. /\ Hands' /\ SavedWhereOpened' /\ StoresBusy'
      /\ \E n \in Running' : jobs'[n] = j
      /\ \A m \in Running : m \in Running' /\ jobs'[m] = jobs[m]
  BY ModelQuestion, BeginKeeps
<1>2. /\ j.op = op /\ j.id = id /\ j.visit = visit
  BY DEF Begun
<1> HIDE DEF j
<1>3. ModelsBusy
  BY ModelsHere
<1>4. refs'.saving => \E n \in Running' : jobs'[n].visit = visit /\ jobs'[n].op \in Submits
  BY <1>1, <1>2, <1>3 DEF ModelsBusy
<1>5. refs'.testing # None => \E n \in Running' : /\ jobs'[n].visit = visit
                                                 /\ jobs'[n].op = "test"
                                                 /\ jobs'[n].id = refs'.testing
  BY <1>1, <1>2, <1>3 DEF ModelsBusy
<1>6. ModelsBusy'
  BY <1>4, <1>5 DEF ModelsBusy
<1> QED
  BY <1>1, <1>6 DEF ModelsKept

\* Endpoints of the models are served by id and by form.
LEMMA ModelFit ==
    ASSUME NEW j, NEW a \in ModelRequests, j.id \in Rows \union {None},
           a \in {"importModels", "updateModel"} => j.form \in ModelProfileInput
    PROVE  Fit(j, a)
BY RequestsApart DEF Fit, TaskRequests, TaskList, KnowledgeRequests, BiliWatchRequests, BiliWatchLoad

LEMMA ModelsAskKeeps ==
    ASSUME IInv, page = "models", Free # {}, ModelsAsk, UNCHANGED <<page, visit>>
    PROVE  ModelsKept /\ stores' = stores
<1>1. refs \in ModelsRefs /\ ProfileOpened(refs)
  BY ModelsHere
<1>2. stores' = stores
  BY DEF ModelsAsk, SubmitSingle, SubmitBulk, ActivateModel, TestConnection, UseEnvironment,
         RemoveModel, Asking
<1>3. ASSUME NEW typed \in Typed, SubmitSingle(typed)
      PROVE  ModelsKept
  <2> DEFINE form == FillModelForm(typed)
             edit == refs.dialog = "edit" /\ refs.editing # None
             op == IF edit THEN "submitEdit" ELSE "submitSingle"
             id == IF edit THEN refs.editing ELSE None
             a == IF edit THEN "updateModel" ELSE "importModels"
  <2>1. /\ refs.dialog \in {"single", "edit"}
        /\ refs' = [refs EXCEPT !.saving = TRUE, !.form = form]
        /\ Begin(op, id, form, {a})
    BY <1>3 DEF SubmitSingle, Asking
  <2>2. form \in ModelProfileInput /\ form.of = refs.form.of
    BY <1>1, ValuesAssumption DEF FillModelForm, ModelsRefs, ModelProfileInput
  <2> HIDE DEF form
  <2>3. /\ refs' \in ModelsRefs /\ refs'.form = form /\ refs'.dialog = refs.dialog
        /\ refs'.editing = refs.editing /\ refs'.testing = refs.testing
    BY <1>1, <2>1, <2>2 DEF ModelsRefs
  <2>4. ProfileOpened(refs')
    BY <1>1, <2>2, <2>3 DEF ProfileOpened
  <2>5. /\ op \in ModelPageOps /\ op \in Submits /\ {a} \in ModelQuestions(op)
        /\ a \in ModelRequests /\ id \in Rows \union {None}
    BY <1>1 DEF ModelPageOps, ModelOps, Submits, ModelQuestions, ModelRequests, ModelsRefs
  <2>6. Fit(Begun(op, id, form, {a}), a)
    <3> DEFINE j == Begun(op, id, form, {a})
    <3>1. j.id = id /\ j.form = form
      BY DEF Begun
    <3> HIDE DEF j, op, id, a
    <3> QED
      BY <2>2, <2>5, <3>1, ModelFit DEF j
  <2>7. Saved(Begun(op, id, form, {a}))
    BY <1>1, <2>1, <2>2 DEF Saved, Begun, ProfileOpened
  <2> HIDE DEF op, id, a
  <2> QED
    BY <1>2, <2>1, <2>3, <2>4, <2>5, <2>6, <2>7, ModelsBegin
<1>4. ASSUME NEW typed \in Typed, SubmitBulk(typed)
      PROVE  ModelsKept
  <2> DEFINE form == [of |-> None, def |-> typed]
  <2>1. /\ refs' = [refs EXCEPT !.saving = TRUE]
        /\ Begin("submitBulk", None, form, {"importModels"})
    BY <1>4 DEF SubmitBulk, Asking
  <2>2. form \in ModelProfileInput
    BY ValuesAssumption DEF ModelProfileInput
  <2> HIDE DEF form
  <2>3. /\ refs' \in ModelsRefs /\ refs'.form = refs.form /\ refs'.dialog = refs.dialog
        /\ refs'.editing = refs.editing /\ refs'.testing = refs.testing
    BY <1>1, <2>1 DEF ModelsRefs
  <2>4. ProfileOpened(refs')
    BY <1>1, <2>3 DEF ProfileOpened
  <2>5. /\ "submitBulk" \in ModelPageOps /\ "submitBulk" \in Submits
        /\ {"importModels"} \in ModelQuestions("submitBulk") /\ "importModels" \in ModelRequests
    BY DEF ModelPageOps, ModelOps, Submits, ModelQuestions, ModelRequests
  <2>6. Fit(Begun("submitBulk", None, form, {"importModels"}), "importModels")
    BY <2>2, <2>5, ModelFit DEF Begun
  <2>7. Saved(Begun("submitBulk", None, form, {"importModels"}))
    BY DEF Saved, Begun
  <2> QED
    BY <1>2, <2>1, <2>3, <2>4, <2>5, <2>6, <2>7, ModelsBegin
<1>5. ASSUME NEW p \in Rows, ActivateModel(p)
      PROVE  ModelsKept
  <2>1. refs' = refs /\ Begin("activate", p, None, {"activateModel"})
    BY <1>5 DEF ActivateModel, Asking
  <2>5. /\ "activate" \in ModelPageOps /\ {"activateModel"} \in ModelQuestions("activate")
        /\ "activateModel" \in ModelRequests
    BY DEF ModelPageOps, ModelOps, Submits, ModelQuestions, ModelRequests
  <2>6. Fit(Begun("activate", p, None, {"activateModel"}), "activateModel")
    BY <2>5, ModelFit DEF Begun
  <2>7. Saved(Begun("activate", p, None, {"activateModel"}))
    BY DEF Saved, Begun
  <2> QED
    BY <1>1, <1>2, <2>1, <2>5, <2>6, <2>7, ModelsBegin
<1>6. ASSUME NEW p \in Rows, TestConnection(p)
      PROVE  ModelsKept
  <2>1. refs' = [refs EXCEPT !.testing = p] /\ Begin("test", p, None, {"testModel"})
    BY <1>6 DEF TestConnection, Asking
  <2>3. /\ refs' \in ModelsRefs /\ refs'.form = refs.form /\ refs'.dialog = refs.dialog
        /\ refs'.editing = refs.editing /\ refs'.saving = refs.saving /\ refs'.testing = p
    BY <1>1, <2>1 DEF ModelsRefs
  <2>4. ProfileOpened(refs')
    BY <1>1, <2>3 DEF ProfileOpened
  <2>5. /\ "test" \in ModelPageOps /\ {"testModel"} \in ModelQuestions("test")
        /\ "testModel" \in ModelRequests
    BY DEF ModelPageOps, ModelOps, Submits, ModelQuestions, ModelRequests
  <2>6. Fit(Begun("test", p, None, {"testModel"}), "testModel")
    BY <2>5, ModelFit DEF Begun
  <2>7. Saved(Begun("test", p, None, {"testModel"}))
    BY DEF Saved, Begun
  <2> QED
    BY <1>2, <2>1, <2>3, <2>4, <2>5, <2>6, <2>7, ModelsBegin
<1>7. ASSUME UseEnvironment
      PROVE  ModelsKept
  <2>1. refs' = refs /\ Begin("useEnvironment", None, None, {"activateEnvironment"})
    BY <1>7 DEF UseEnvironment, Asking
  <2>5. /\ "useEnvironment" \in ModelPageOps
        /\ {"activateEnvironment"} \in ModelQuestions("useEnvironment")
        /\ "activateEnvironment" \in ModelRequests
    BY DEF ModelPageOps, ModelOps, Submits, ModelQuestions, ModelRequests
  <2>6. Fit(Begun("useEnvironment", None, None, {"activateEnvironment"}), "activateEnvironment")
    BY <2>5, ModelFit DEF Begun
  <2>7. Saved(Begun("useEnvironment", None, None, {"activateEnvironment"}))
    BY DEF Saved, Begun
  <2> QED
    BY <1>1, <1>2, <2>1, <2>5, <2>6, <2>7, ModelsBegin
<1>8. ASSUME NEW p \in Rows, RemoveModel(p)
      PROVE  ModelsKept
  <2>1. refs' = refs /\ Begin("remove", p, None, {"deleteModel"})
    BY <1>8 DEF RemoveModel, Asking
  <2>5. /\ "remove" \in ModelPageOps /\ {"deleteModel"} \in ModelQuestions("remove")
        /\ "deleteModel" \in ModelRequests
    BY DEF ModelPageOps, ModelOps, Submits, ModelQuestions, ModelRequests
  <2>6. Fit(Begun("remove", p, None, {"deleteModel"}), "deleteModel")
    BY <2>5, ModelFit DEF Begun
  <2>7. Saved(Begun("remove", p, None, {"deleteModel"}))
    BY DEF Saved, Begun
  <2> QED
    BY <1>1, <1>2, <2>1, <2>5, <2>6, <2>7, ModelsBegin
<1>9. ModelsKept
  BY <1>3, <1>4, <1>5, <1>6, <1>7, <1>8 DEF ModelsAsk
<1> QED
  BY <1>2, <1>9

LEMMA ModelsOpenKeeps ==
    ASSUME IInv, page = "models", ModelsOpenOrClose, UNCHANGED <<page, visit>>
    PROVE  ModelsKept /\ stores' = stores
<1>1. refs \in ModelsRefs /\ ProfileOpened(refs) /\ ModelsBusy /\ stores \in Stores
  BY ModelsHere
<1>2. jobs' = jobs /\ stores' = stores
  BY DEF ModelsOpenOrClose, OpenCreateModel, OpenBulkImport, CancelModelDialog, OpenEditModel, Only
<1>3. Hands' /\ SavedWhereOpened' /\ StoresBusy' /\ Running' = Running
  BY <1>2, OnlyRefs
<1> DEFINE Opened == /\ refs' \in ModelsRefs /\ ProfileOpened(refs')
                     /\ refs'.saving = refs.saving /\ refs'.testing = refs.testing
<1>4. Opened
  <2>1. CASE OpenCreateModel
    BY <1>1, <2>1 DEF OpenCreateModel, Only, ResetModelForm, BlankProfile, ModelsRefs, ModelDialogs,
                      ModelProfileInput, ProfileOpened
  <2>2. CASE OpenBulkImport
    BY <1>1, <2>2 DEF OpenBulkImport, Only, ModelsRefs, ModelDialogs, ProfileOpened
  <2>3. CASE CancelModelDialog
    BY <1>1, <2>3 DEF CancelModelDialog, CloseModelDialog, Only, ModelsRefs, ModelDialogs,
                      ProfileOpened
  <2>4. ASSUME NEW p \in Rows, OpenEditModel(p)
        PROVE  Opened
    <3> DEFINE form == [of |-> p, def |-> stores.profiles.rows[p]]
    <3>1. form \in ModelProfileInput /\ form.of = p
      BY <1>1 DEF Stores, ModelProfiles, ModelProfileInput
    <3>2. refs' = [refs EXCEPT !.form = form, !.editing = p, !.dialog = "edit"]
      BY <2>4 DEF OpenEditModel, Only
    <3> HIDE DEF form
    <3> QED
      BY <1>1, <3>1, <3>2 DEF ModelsRefs, ModelDialogs, ProfileOpened
  <2> QED
    BY <2>1, <2>2, <2>3, <2>4 DEF ModelsOpenOrClose
<1>5. ModelsBusy'
  BY <1>1, <1>2, <1>3, <1>4 DEF ModelsBusy
<1> QED
  BY <1>2, <1>3, <1>4, <1>5 DEF ModelsKept

LEMMA ModelHandler ==
    ASSUME IInv, NEW n \in Slots, jobs[n].op \in ModelPageOps
    PROVE  /\ n \in Running /\ Handler(jobs[n])
           /\ DOMAIN jobs[n].asks \in ModelQuestions(jobs[n].op)
           /\ ~AsksFor(n, ModelsLoad) =>
                /\ StoreRequests \intersect DOMAIN jobs[n].asks = {}
                /\ jobs[n].id \in Rows \union {None}
           /\ jobs[n].visit = visit => page = "models"
<1> USE DEF IInv
<1>1. Hand(jobs[n]) /\ Handler(jobs[n])
  BY DEF Hands, Hand
<1>2. DOMAIN jobs[n].asks \in Questions(jobs[n].op) /\ jobs[n].op \notin {"idle", "refresh"}
  BY <1>1 DEF Handler, ModelPageOps, ModelOps, Submits
<1>3. /\ DOMAIN jobs[n].asks \in ModelQuestions(jobs[n].op) /\ DOMAIN jobs[n].asks # {}
      /\ ~AsksFor(n, ModelsLoad) => DOMAIN jobs[n].asks \subseteq ModelRequests
  BY <1>2, ModelAsks DEF AsksFor
<1>4. ~AsksFor(n, ModelsLoad) => jobs[n].id \in Rows \union {None}
  BY <1>1, <1>3 DEF Handler, Fit
<1>5. jobs[n].visit = visit => page = "models"
  <2>1. ASSUME jobs[n].visit = visit
        PROVE  jobs[n].op \in OpsOf(page)
    BY <1>1, <1>2, <2>1 DEF Hand
  <2>2. \A p \in Routes : p # "models" => OpsOf(p) \intersect ModelPageOps = {}
    BY OpsApart DEF Routes, OpsOf, MonitorOps
  <2> QED
    BY <2>1, <2>2 DEF Shapes
<1> QED
  BY <1>1, <1>2, <1>3, <1>4, <1>5, RequestsApart DEF Running

LEMMA ModelsLoadFit ==
    ASSUME NEW j, NEW a \in StoreRequests
    PROVE  Fit(j, a)
BY RequestsApart DEF Fit, StoreRequests, TaskRequests, TaskList, ModelRequests, KnowledgeRequests,
                     BiliWatchRequests, BiliWatchLoad

LEMMA ModelChangedKeeps ==
    ASSUME IInv, NEW n \in Slots, ModelChanged(n), UNCHANGED <<page, visit>>
    PROVE  Kept /\ stores' \in Stores
<1> DEFINE op == jobs[n].op
           shown == IF op \in Submits THEN CloseModelDialog(refs) ELSE refs
<1>1. /\ op \in ModelOps /\ op \in ModelPageOps /\ ~AsksFor(n, ModelsLoad)
      /\ Show(n, shown) /\ Continue(n, ModelsLoad)
      /\ stores' = ModelsAreLoading
  BY DEF ModelChanged, Reload, ModelPageOps
<1>2. stores' \in Stores
  BY <1>1 DEF IInv, Shapes, ModelsAreLoading, RefreshRuntime, RefreshModels, Stores
<1>3. /\ n \in Running /\ Handler(jobs[n]) /\ StoreRequests \intersect DOMAIN jobs[n].asks = {}
      /\ jobs[n].visit = visit => page = "models"
  BY <1>1, ModelHandler
<1>4. ModelsLoad \in Questions(op) /\ op # "idle"
  <2>1. ModelsLoad \in ModelQuestions(op)
    BY <1>1 DEF ModelQuestions, ModelOps, Submits
  <2> QED
    BY <1>1, <2>1, ModelQuestion
<1>5. \A a \in ModelsLoad : Fit(jobs[n], a)
  BY ModelsLoadFit DEF ModelsLoad, StoreRequests
<1>6. /\ Hands' /\ SavedWhereOpened' /\ StoresBusy'
      /\ jobs'[n].op = jobs[n].op /\ jobs'[n].visit = jobs[n].visit /\ n \in Running'
      /\ \A m \in Running : m # n => m \in Running' /\ jobs'[m] = jobs[m]
  <2>1. "models" \in ModelsLoad /\ "status" \in ModelsLoad
    BY DEF ModelsLoad
  <2> QED
    BY <1>1, <1>3, <1>4, <1>5, <2>1, ContinueKeeps
<1>7. CASE jobs[n].visit # visit
  <2>1. refs' = refs
    BY <1>1, <1>7 DEF Show
  <2> QED
    BY <1>2, <1>6, <1>7, <2>1, LeftPageKept
<1>8. CASE jobs[n].visit = visit
  <2>1. page = "models" /\ refs' = shown
    BY <1>1, <1>3, <1>8 DEF Show
  <2>2. refs \in ModelsRefs /\ ModelsBusy /\ ProfileOpened(refs)
    BY <2>1, ModelsHere
  <2>3. /\ refs' \in ModelsRefs /\ ProfileOpened(refs')
        /\ refs'.saving = refs.saving /\ refs'.testing = refs.testing
    BY <2>1, <2>2 DEF ModelsRefs, CloseModelDialog, ProfileOpened, ModelDialogs
  <2>4. \A m \in Running : m \in Running' /\ jobs'[m].op = jobs[m].op /\ jobs'[m].visit = jobs[m].visit
    BY <1>6
  <2>5. op # "test"
    BY <1>1 DEF ModelOps, Submits
  <2>6. ModelsBusy'
    <3>1. refs'.saving => \E m \in Running' : jobs'[m].visit = visit /\ jobs'[m].op \in Submits
      BY <2>2, <2>3, <2>4 DEF ModelsBusy
    <3>2. refs'.testing # None => \E m \in Running' : /\ jobs'[m].visit = visit
                                                     /\ jobs'[m].op = "test"
                                                     /\ jobs'[m].id = refs'.testing
      BY <1>6, <2>2, <2>3, <2>5 DEF ModelsBusy
    <3> QED
      BY <3>1, <3>2 DEF ModelsBusy
  <2> QED
    BY <1>2, <1>6, <2>1, <2>3, <2>6, ModelsAreKept DEF ModelsKept
<1> QED
  BY <1>7, <1>8

\* The end of a handler of this page clears what it has set.
LEMMA ModelEnds ==
    ASSUME NEW op \in ModelPageOps, NEW r \in ModelsRefs, ProfileOpened(r)
    PROVE  LET e == ModelHandlerEnds(op, r) IN
           /\ e \in ModelsRefs /\ ProfileOpened(e) /\ e.testing = r.testing
           /\ e.saving => r.saving /\ op \notin Submits
BY DEF ModelHandlerEnds, ResetModelForm, BlankProfile, ModelsRefs, ModelProfileInput, ProfileOpened,
       Submits

LEMMA ModelRefusedKeeps ==
    ASSUME IInv, NEW n \in Slots, ModelRefused(n), UNCHANGED <<page, visit>>
    PROVE  Kept /\ stores' = stores
<1> DEFINE op == jobs[n].op
<1>1. /\ op \in ModelOps /\ op \in ModelPageOps /\ op # "test" /\ ~AsksFor(n, ModelsLoad)
      /\ Show(n, ModelHandlerEnds(op, refs)) /\ End(n) /\ stores' = stores
  BY DEF ModelRefused, ModelPageOps, ModelOps, Submits
<1>3. /\ n \in Running /\ StoreRequests \intersect DOMAIN jobs[n].asks = {}
      /\ jobs[n].visit = visit => page = "models"
  BY <1>1, ModelHandler
<1>4. CASE jobs[n].visit # visit
  <2>1. refs' = refs
    BY <1>1, <1>4 DEF Show
  <2> QED
    BY <1>1, <1>3, <1>4, <2>1, LeftPageEnds
<1>5. CASE jobs[n].visit = visit
  <2>1. page = "models" /\ refs' = ModelHandlerEnds(op, refs)
    BY <1>1, <1>3, <1>5 DEF Show
  <2>2. refs \in ModelsRefs /\ ModelsBusy /\ ProfileOpened(refs)
    BY <2>1, ModelsHere
  <2>3. /\ Hands' /\ SavedWhereOpened' /\ StoresBusy'
        /\ \A m \in Running : m # n => m \in Running' /\ jobs'[m] = jobs[m]
    BY <1>1, <1>3, EndKeeps
  <2>4. /\ refs' \in ModelsRefs /\ ProfileOpened(refs') /\ refs'.testing = refs.testing
        /\ refs'.saving => refs.saving /\ op \notin Submits
    BY <1>1, <2>1, <2>2, ModelEnds
  <2>5. ModelsBusy'
    BY <1>1, <2>2, <2>3, <2>4 DEF ModelsBusy
  <2> QED
    BY <1>1, <2>1, <2>3, <2>4, <2>5, ModelsAreKept DEF ModelsKept
<1> QED
  BY <1>4, <1>5

LEMMA ModelTestedKeeps ==
    ASSUME IInv, NEW n \in Slots, ModelTested(n), UNCHANGED <<page, visit>>
    PROVE  Kept /\ stores' = stores
<1>1. /\ jobs[n].op = "test" /\ jobs[n].op \in ModelPageOps
      /\ Show(n, [refs EXCEPT !.testing = None]) /\ End(n) /\ stores' = stores
  BY DEF ModelTested, ModelPageOps
<1>2. /\ n \in Running /\ DOMAIN jobs[n].asks = {"testModel"}
      /\ jobs[n].visit = visit => page = "models"
  BY <1>1, ModelHandler DEF ModelQuestions
<1>3. StoreRequests \intersect DOMAIN jobs[n].asks = {}
  BY <1>2 DEF StoreRequests
<1>4. CASE jobs[n].visit # visit
  <2>1. refs' = refs
    BY <1>1, <1>4 DEF Show
  <2> QED
    BY <1>1, <1>3, <1>4, <2>1, LeftPageEnds
<1>5. CASE jobs[n].visit = visit
  <2>1. page = "models" /\ refs' = [refs EXCEPT !.testing = None]
    BY <1>1, <1>2, <1>5 DEF Show
  <2>2. refs \in ModelsRefs /\ ModelsBusy /\ ProfileOpened(refs)
    BY <2>1, ModelsHere
  <2>3. /\ Hands' /\ SavedWhereOpened' /\ StoresBusy'
        /\ \A m \in Running : m # n => m \in Running' /\ jobs'[m] = jobs[m]
    BY <1>1, <1>3, EndKeeps
  <2>4. /\ refs' \in ModelsRefs /\ ProfileOpened(refs') /\ refs'.testing = None
        /\ refs'.saving = refs.saving
    BY <2>1, <2>2 DEF ModelsRefs, ProfileOpened
  <2>5. ModelsBusy'
    BY <1>1, <2>2, <2>3, <2>4 DEF ModelsBusy, Submits
  <2> QED
    BY <1>1, <2>1, <2>3, <2>4, <2>5, ModelsAreKept DEF ModelsKept
<1> QED
  BY <1>4, <1>5

LEMMA ModelsLoadingKeeps ==
    ASSUME IInv, NEW n \in Slots, ModelsLoading(n), UNCHANGED <<page, visit>>
    PROVE  Kept /\ stores' \in Stores
<1> DEFINE op == jobs[n].op
<1>1. PICK a \in ModelsLoad :
         /\ HasCome(n, a)
         /\ stores' = IF Ends(n, a) THEN [Refreshed(stores, n, a) EXCEPT !.profilesLoading = FALSE]
                      ELSE Refreshed(stores, n, a)
         /\ IF Ends(n, a) THEN Show(n, ModelHandlerEnds(op, refs)) ELSE UNCHANGED refs
         /\ TakeAnswer(n, a)
  BY DEF ModelsLoading
<1>2. /\ op \in ModelOps \union {"loadModels"} /\ op \in ModelPageOps /\ op # "test"
      /\ a \in DOMAIN jobs[n].asks /\ a \in StoreRequests
  BY DEF ModelsLoading, AsksFor, ModelPageOps, ModelOps, Submits, ModelsLoad, StoreRequests
<1>3. n \in Running /\ (jobs[n].visit = visit => page = "models")
  BY <1>2, ModelHandler
<1>4. PICK j : LeftOf(n, a, j)
  BY <1>1, <1>2, <1>3, TakeLeaves
<1> DEFINE s == Refreshed(stores, n, a)
<1>5. /\ s \in Stores
      /\ s.profilesLoading => stores.profilesLoading /\ a # "models"
      /\ s.statusLoading => stores.statusLoading /\ a # "status"
  BY <1>2, RefreshedType
<1> HIDE DEF s
<1>6. /\ stores' \in Stores
      /\ stores'.profilesLoading => stores.profilesLoading /\ a # "models"
      /\ stores'.statusLoading => stores.statusLoading /\ a # "status"
  BY <1>1, <1>5 DEF Stores, s
<1>7. /\ Hands' /\ SavedWhereOpened' /\ StoresBusy'
      /\ jobs'[n] = j /\ (j.op # "idle" => n \in Running')
      /\ \A m \in Running : m # n => m \in Running' /\ jobs'[m] = jobs[m]
  BY <1>3, <1>4, <1>6, TakeKeeps
<1>8. CASE jobs[n].visit # visit
  <2>1. refs' = refs
    BY <1>1, <1>8 DEF Show
  <2> QED
    BY <1>6, <1>7, <1>8, <2>1, LeftPageKept
<1>9. CASE jobs[n].visit = visit
  <2>1. page = "models" /\ refs \in ModelsRefs /\ ModelsBusy /\ ProfileOpened(refs)
    BY <1>3, <1>9, ModelsHere
  <2>2. CASE Ends(n, a)
    <3>1. refs' = ModelHandlerEnds(op, refs)
      BY <1>1, <1>9, <2>2 DEF Show
    <3>2. /\ refs' \in ModelsRefs /\ ProfileOpened(refs') /\ refs'.testing = refs.testing
          /\ refs'.saving => refs.saving /\ op \notin Submits
      BY <1>2, <2>1, <3>1, ModelEnds
    <3>3. ModelsBusy'
      BY <1>2, <1>7, <2>1, <3>2 DEF ModelsBusy
    <3> QED
      BY <1>6, <1>7, <2>1, <3>2, <3>3, ModelsAreKept DEF ModelsKept
  <2>3. CASE ~Ends(n, a)
    <3>1. refs' = refs /\ j.op = op /\ j.id = jobs[n].id /\ j.visit = jobs[n].visit
      BY <1>1, <1>4, <2>3 DEF LeftOf
    <3>2. j.op # "idle"
      BY <1>2, <3>1 DEF ModelOps, Submits
    <3>3. \A m \in Running : /\ m \in Running' /\ jobs'[m].op = jobs[m].op
                             /\ jobs'[m].id = jobs[m].id /\ jobs'[m].visit = jobs[m].visit
      BY <1>7, <3>1, <3>2
    <3>4. ModelsBusy'
      BY <2>1, <3>1, <3>3 DEF ModelsBusy
    <3> QED
      BY <1>6, <1>7, <2>1, <3>1, <3>4, ModelsAreKept DEF ModelsKept
  <2> QED
    BY <2>2, <2>3
<1> QED
  BY <1>8, <1>9

LEMMA ModelsResumeKeeps ==
    ASSUME IInv, NEW n \in Slots, ModelsResume(n), UNCHANGED <<page, visit>>
    PROVE  Kept /\ stores' \in Stores
<1>1. stores \in Stores
  BY DEF IInv, Shapes
<1> QED
  BY <1>1, ModelChangedKeeps, ModelRefusedKeeps, ModelsLoadingKeeps, ModelTestedKeeps DEF ModelsResume
------------------------------------------------------------------------------
(* The knowledge page.                                                       *)

LEMMA KnowledgeQuestion ==
    ASSUME NEW op \in KnowledgeOps, NEW D \in KnowledgeQuestions(op)
    PROVE  /\ op \in OpsOf("knowledge") /\ op \in Ops /\ op # "idle"
           /\ D \in Questions(op) /\ StoreRequests \intersect D = {}
<1>1. op \in OpsOf("knowledge") /\ op \in Ops /\ op # "idle" /\ op # "refresh"
  BY DEF OpsOf, Ops, KnowledgeOps
<1>2. D \in Questions(op)
  BY <1>1, OpsApart DEF Questions
<1> QED
  BY <1>1, <1>2, KnowledgeAsks, RequestsApart

LEMMA KnowledgeHere ==
    ASSUME IInv, page = "knowledge"
    PROVE  refs \in KnowledgeRefs /\ KnowledgeBusy
BY DEF IInv, Shapes, RefsOf, BusyMeansAsked

KnowledgeKept ==
    /\ Hands' /\ SavedWhereOpened' /\ StoresBusy' /\ KnowledgeBusy'
    /\ refs' \in KnowledgeRefs

LEMMA KnowledgeIsKept ==
    ASSUME page = "knowledge", page' = page, KnowledgeKept
    PROVE  Kept
BY DEF Kept, KnowledgeKept, BusyMeansAsked, FormOpened, RefsOf

\* A handler of this page neither fills a form nor saves one.
LEMMA KnowledgeSaves ==
    ASSUME NEW j, j.op \in KnowledgeOps
    PROVE  Saved(j)
BY DEF Saved, KnowledgeOps

LEMMA KnowledgeFit ==
    ASSUME NEW j, NEW a \in KnowledgeRequests,
           a \in {"knowledgeDocuments", "uploadKnowledgeDocument", "importKnowledgeUrl",
                  "searchKnowledge"} => j.id \in Collections,
           a = "deleteKnowledgeDocument" => j.form \in Rows,
           a = "importKnowledgeModel" => j.form \in Kinds
    PROVE  Fit(j, a)
BY RequestsApart DEF Fit, TaskRequests, TaskList, ModelRequests, BiliWatchRequests, BiliWatchLoad

LEMMA KnowledgeBegin ==
    ASSUME IInv, page = "knowledge", Free # {}, UNCHANGED <<page, visit, stores>>,
           NEW op \in KnowledgeOps, NEW id, NEW form, NEW a, {a} \in KnowledgeQuestions(op),
           Begin(op, id, form, {a}), Fit(Begun(op, id, form, {a}), a),
           refs' \in KnowledgeRefs,
           refs'.loading => refs.loading \/ op = "search",
           refs'.uploading => refs.uploading \/ op \in {"upload", "importUrl"},
           \/ refs'.modelTesting \in {refs.modelTesting, "none"}
           \/ op = "testModel" /\ refs'.modelTesting = form
    PROVE  KnowledgeKept
<1> DEFINE j == Begun(op, id, form, {a})
<1>1. j.op = op /\ j.id = id /\ j.form = form /\ j.visit = visit
  BY DEF Begun
<1>2. Saved(j)
  BY <1>1, KnowledgeSaves
<1>3. /\ Hands' /\ SavedWhereOpened' /\ StoresBusy'
      /\ \E n \in Running' : jobs'[n] = j
      /\ \A m \in Running : m \in Running' /\ jobs'[m] = jobs[m]
  BY <1>2, KnowledgeQuestion, BeginKeeps
<1> HIDE DEF j
<1>4. KnowledgeBusy
  BY KnowledgeHere
<1>5. refs'.loading => \E n \in Running' : jobs'[n].visit = visit /\ jobs'[n].op = "search"
  BY <1>1, <1>3, <1>4 DEF KnowledgeBusy
<1>6. refs'.uploading => \E n \in Running' : /\ jobs'[n].visit = visit
                                            /\ jobs'[n].op \in {"upload", "importUrl"}
  BY <1>1, <1>3, <1>4 DEF KnowledgeBusy
<1>7. refs'.modelTesting # "none" =>
          \E n \in Running' : /\ jobs'[n].visit = visit /\ jobs'[n].op = "testModel"
                              /\ refs'.modelTesting \in {None, jobs'[n].form}
  BY <1>1, <1>3, <1>4 DEF KnowledgeBusy
<1>8. KnowledgeBusy'
  BY <1>5, <1>6, <1>7 DEF KnowledgeBusy
<1> QED
  BY <1>3, <1>8 DEF KnowledgeKept

LEMMA KnowledgeAskKeeps ==
    ASSUME IInv, page = "knowledge", Free # {}, KnowledgeAsk, UNCHANGED <<page, visit, stores>>
    PROVE  KnowledgeKept
<1>1. refs \in KnowledgeRefs
  BY KnowledgeHere
<1>2. refs.selected \in Collections
  BY <1>1 DEF KnowledgeRefs
<1>3. ASSUME NEW c \in Collections, SelectCollection(c)
      PROVE  KnowledgeKept
  <2>1. /\ refs' = DocumentsAreLoading([refs EXCEPT !.selected = c])
        /\ Begin("documents", c, None, {"knowledgeDocuments"})
    BY <1>3 DEF SelectCollection
  <2>2. /\ refs' \in KnowledgeRefs /\ refs'.loading = refs.loading
        /\ refs'.uploading = refs.uploading /\ refs'.modelTesting = refs.modelTesting
    BY <1>1, <2>1 DEF DocumentsAreLoading, KnowledgeRefs, KnowledgeSearchResults
  <2>3. /\ "documents" \in KnowledgeOps /\ "knowledgeDocuments" \in KnowledgeRequests
        /\ {"knowledgeDocuments"} \in KnowledgeQuestions("documents")
    BY DEF KnowledgeOps, KnowledgeRequests, KnowledgeQuestions
  <2>4. Fit(Begun("documents", c, None, {"knowledgeDocuments"}), "knowledgeDocuments")
    BY <2>3, KnowledgeFit DEF Begun
  <2> QED
    BY <2>1, <2>2, <2>3, <2>4, KnowledgeBegin
<1>4. ASSUME NEW file \in Values, UploadDocument(file)
      PROVE  KnowledgeKept
  <2>1. /\ refs' = [refs EXCEPT !.picked = file, !.uploading = TRUE]
        /\ Begin("upload", refs.selected, None, {"uploadKnowledgeDocument"})
    BY <1>4 DEF UploadDocument
  <2>2. /\ refs' \in KnowledgeRefs /\ refs'.loading = refs.loading
        /\ refs'.modelTesting = refs.modelTesting
    BY <1>1, <2>1 DEF KnowledgeRefs
  <2>3. /\ "upload" \in KnowledgeOps /\ "uploadKnowledgeDocument" \in KnowledgeRequests
        /\ {"uploadKnowledgeDocument"} \in KnowledgeQuestions("upload")
    BY DEF KnowledgeOps, KnowledgeRequests, KnowledgeQuestions
  <2>4. Fit(Begun("upload", refs.selected, None, {"uploadKnowledgeDocument"}),
            "uploadKnowledgeDocument")
    BY <1>2, <2>3, KnowledgeFit DEF Begun
  <2> QED
    BY <2>1, <2>2, <2>3, <2>4, KnowledgeBegin
<1>5. ASSUME ImportUrl
      PROVE  KnowledgeKept
  <2>1. /\ refs' = [refs EXCEPT !.uploading = TRUE]
        /\ Begin("importUrl", refs.selected, None, {"importKnowledgeUrl"})
    BY <1>5 DEF ImportUrl
  <2>2. /\ refs' \in KnowledgeRefs /\ refs'.loading = refs.loading
        /\ refs'.modelTesting = refs.modelTesting
    BY <1>1, <2>1 DEF KnowledgeRefs
  <2>3. /\ "importUrl" \in KnowledgeOps /\ "importKnowledgeUrl" \in KnowledgeRequests
        /\ {"importKnowledgeUrl"} \in KnowledgeQuestions("importUrl")
    BY DEF KnowledgeOps, KnowledgeRequests, KnowledgeQuestions
  <2>4. Fit(Begun("importUrl", refs.selected, None, {"importKnowledgeUrl"}), "importKnowledgeUrl")
    BY <1>2, <2>3, KnowledgeFit DEF Begun
  <2> QED
    BY <2>1, <2>2, <2>3, <2>4, KnowledgeBegin
<1>6. ASSUME SearchKnowledge
      PROVE  KnowledgeKept
  <2>1. /\ refs' = [refs EXCEPT !.loading = TRUE]
        /\ Begin("search", refs.selected, None, {"searchKnowledge"})
    BY <1>6 DEF SearchKnowledge
  <2>2. /\ refs' \in KnowledgeRefs /\ refs'.uploading = refs.uploading
        /\ refs'.modelTesting = refs.modelTesting
    BY <1>1, <2>1 DEF KnowledgeRefs
  <2>3. /\ "search" \in KnowledgeOps /\ "searchKnowledge" \in KnowledgeRequests
        /\ {"searchKnowledge"} \in KnowledgeQuestions("search")
    BY DEF KnowledgeOps, KnowledgeRequests, KnowledgeQuestions
  <2>4. Fit(Begun("search", refs.selected, None, {"searchKnowledge"}), "searchKnowledge")
    BY <1>2, <2>3, KnowledgeFit DEF Begun
  <2> QED
    BY <2>1, <2>2, <2>3, <2>4, KnowledgeBegin
<1>7. ASSUME NEW d \in Rows, RemoveDocument(d)
      PROVE  KnowledgeKept
  <2>1. refs' = refs /\ Begin("removeDocument", refs.selected, d, {"deleteKnowledgeDocument"})
    BY <1>7 DEF RemoveDocument
  <2>3. /\ "removeDocument" \in KnowledgeOps /\ "deleteKnowledgeDocument" \in KnowledgeRequests
        /\ {"deleteKnowledgeDocument"} \in KnowledgeQuestions("removeDocument")
    BY DEF KnowledgeOps, KnowledgeRequests, KnowledgeQuestions
  <2>4. Fit(Begun("removeDocument", refs.selected, d, {"deleteKnowledgeDocument"}),
            "deleteKnowledgeDocument")
    BY <2>3, KnowledgeFit DEF Begun
  <2> QED
    BY <1>1, <2>1, <2>3, <2>4, KnowledgeBegin
<1>8. ASSUME RebuildIndex
      PROVE  KnowledgeKept
  <2>1. refs' = refs /\ Begin("rebuild", refs.selected, None, {"rebuildKnowledge"})
    BY <1>8 DEF RebuildIndex
  <2>3. /\ "rebuild" \in KnowledgeOps /\ "rebuildKnowledge" \in KnowledgeRequests
        /\ {"rebuildKnowledge"} \in KnowledgeQuestions("rebuild")
    BY DEF KnowledgeOps, KnowledgeRequests, KnowledgeQuestions
  <2>4. Fit(Begun("rebuild", refs.selected, None, {"rebuildKnowledge"}), "rebuildKnowledge")
    BY <2>3, KnowledgeFit DEF Begun
  <2> QED
    BY <1>1, <2>1, <2>3, <2>4, KnowledgeBegin
<1>9. ASSUME NEW kind \in Kinds, TestKnowledgeModel(kind)
      PROVE  KnowledgeKept
  <2>1. /\ refs' = [refs EXCEPT !.modelTesting = kind]
        /\ Begin("testModel", None, kind, {"testKnowledgeModel"})
    BY <1>9 DEF TestKnowledgeModel
  <2>2. /\ refs' \in KnowledgeRefs /\ refs'.loading = refs.loading
        /\ refs'.uploading = refs.uploading /\ refs'.modelTesting = kind
    BY <1>1, <2>1 DEF KnowledgeRefs
  <2>3. /\ "testModel" \in KnowledgeOps /\ "testKnowledgeModel" \in KnowledgeRequests
        /\ {"testKnowledgeModel"} \in KnowledgeQuestions("testModel")
    BY DEF KnowledgeOps, KnowledgeRequests, KnowledgeQuestions
  <2>4. Fit(Begun("testModel", None, kind, {"testKnowledgeModel"}), "testKnowledgeModel")
    BY <2>3, KnowledgeFit DEF Begun
  <2> QED
    BY <2>1, <2>2, <2>3, <2>4, KnowledgeBegin
<1>10. ASSUME NEW kind \in Kinds, SaveKnowledgeModel(kind)
       PROVE  KnowledgeKept
  <2>1. refs' = refs /\ Begin("saveModel", None, kind, {"importKnowledgeModel"})
    BY <1>10 DEF SaveKnowledgeModel
  <2>3. /\ "saveModel" \in KnowledgeOps /\ "importKnowledgeModel" \in KnowledgeRequests
        /\ {"importKnowledgeModel"} \in KnowledgeQuestions("saveModel")
    BY DEF KnowledgeOps, KnowledgeRequests, KnowledgeQuestions
  <2>4. Fit(Begun("saveModel", None, kind, {"importKnowledgeModel"}), "importKnowledgeModel")
    BY <2>3, KnowledgeFit DEF Begun
  <2> QED
    BY <1>1, <2>1, <2>3, <2>4, KnowledgeBegin
<1> QED
  BY <1>3, <1>4, <1>5, <1>6, <1>7, <1>8, <1>9, <1>10 DEF KnowledgeAsk

LEMMA KnowledgeHandler ==
    ASSUME IInv, NEW n \in Slots, jobs[n].op \in KnowledgeOps
    PROVE  /\ n \in Running /\ Hand(jobs[n]) /\ Handler(jobs[n])
           /\ DOMAIN jobs[n].asks \in KnowledgeQuestions(jobs[n].op)
           /\ StoreRequests \intersect DOMAIN jobs[n].asks = {}
           /\ jobs[n].visit = visit => page = "knowledge"
<1> USE DEF IInv
<1>1. Hand(jobs[n]) /\ Handler(jobs[n])
  BY DEF Hands, Hand
<1>2. DOMAIN jobs[n].asks \in Questions(jobs[n].op) /\ jobs[n].op \notin {"idle", "refresh"}
  BY <1>1 DEF Handler, KnowledgeOps
<1>3. /\ DOMAIN jobs[n].asks \in KnowledgeQuestions(jobs[n].op)
      /\ DOMAIN jobs[n].asks \subseteq KnowledgeRequests
  BY <1>2, KnowledgeAsks
<1>5. jobs[n].visit = visit => page = "knowledge"
  <2>1. ASSUME jobs[n].visit = visit
        PROVE  jobs[n].op \in OpsOf(page)
    BY <1>1, <1>2, <2>1 DEF Hand
  <2>2. \A p \in Routes : p # "knowledge" => OpsOf(p) \intersect KnowledgeOps = {}
    BY OpsApart DEF Routes, OpsOf, MonitorOps
  <2> QED
    BY <2>1, <2>2 DEF Shapes
<1> QED
  BY <1>1, <1>2, <1>3, <1>5, RequestsApart DEF Running

\* A handler that ends has cleared the flags it had set.
LEMMA KnowledgeEnds ==
    ASSUME IInv, NEW n \in Slots, jobs[n].op \in KnowledgeOps, End(n),
           UNCHANGED <<page, visit, stores>>, NEW shown, Show(n, shown),
           page = "knowledge" =>
              /\ shown \in KnowledgeRefs
              /\ shown.loading => refs.loading /\ jobs[n].op # "search"
              /\ shown.uploading => refs.uploading /\ jobs[n].op \notin {"upload", "importUrl"}
              /\ \/ shown.modelTesting = "none"
                 \/ shown.modelTesting = refs.modelTesting /\ jobs[n].op # "testModel"
    PROVE  Kept
<1>1. /\ StoreRequests \intersect DOMAIN jobs[n].asks = {}
      /\ jobs[n].visit = visit => page = "knowledge"
  BY KnowledgeHandler
<1>2. CASE jobs[n].visit # visit
  <2>1. refs' = refs
    BY <1>2 DEF Show
  <2> QED
    BY <1>1, <1>2, <2>1, LeftPageEnds
<1>3. CASE jobs[n].visit = visit
  <2>1. page = "knowledge" /\ refs' = shown
    BY <1>1, <1>3 DEF Show
  <2>2. refs \in KnowledgeRefs /\ KnowledgeBusy
    BY <2>1, KnowledgeHere
  <2>3. /\ Hands' /\ SavedWhereOpened' /\ StoresBusy'
        /\ \A m \in Running : m # n => m \in Running' /\ jobs'[m] = jobs[m]
    BY <1>1, EndKeeps
  <2>4. refs'.loading => \E m \in Running' : jobs'[m].visit = visit /\ jobs'[m].op = "search"
    BY <2>1, <2>2, <2>3 DEF KnowledgeBusy
  <2>5. refs'.uploading => \E m \in Running' : /\ jobs'[m].visit = visit
                                              /\ jobs'[m].op \in {"upload", "importUrl"}
    BY <2>1, <2>2, <2>3 DEF KnowledgeBusy
  <2>6. refs'.modelTesting # "none" =>
            \E m \in Running' : /\ jobs'[m].visit = visit /\ jobs'[m].op = "testModel"
                                /\ refs'.modelTesting \in {None, jobs'[m].form}
    BY <2>1, <2>2, <2>3 DEF KnowledgeBusy
  <2>7. KnowledgeBusy'
    BY <2>4, <2>5, <2>6 DEF KnowledgeBusy
  <2> QED
    BY <2>1, <2>3, <2>7, KnowledgeIsKept DEF KnowledgeKept
<1> QED
  BY <1>2, <1>3

\* A handler that goes on keeps its name, its form and its page.
LEMMA KnowledgeGoesOn ==
    ASSUME IInv, NEW n \in Slots, jobs[n].op \in KnowledgeOps, NEW j, Holds(n, j), Hand(j),
           j.op = jobs[n].op, j.form = jobs[n].form, j.visit = jobs[n].visit,
           UNCHANGED <<page, visit, stores>>, NEW shown, Show(n, shown),
           page = "knowledge" =>
              /\ shown \in KnowledgeRefs
              /\ shown.loading = refs.loading
              /\ shown.uploading => refs.uploading
              /\ shown.modelTesting = refs.modelTesting
    PROVE  Kept
<1>1. /\ n \in Running /\ StoreRequests \intersect DOMAIN jobs[n].asks = {}
      /\ jobs[n].visit = visit => page = "knowledge"
  BY KnowledgeHandler
<1>2. Saved(j) /\ j.op # "idle"
  BY KnowledgeSaves, KnowledgeQuestion, <1>1 DEF KnowledgeOps
<1>3. /\ Hands' /\ SavedWhereOpened' /\ StoresBusy' /\ jobs'[n] = j /\ n \in Running'
      /\ \A m \in Running : m # n => m \in Running' /\ jobs'[m] = jobs[m]
  BY <1>1, <1>2, GoesOn
<1>4. CASE jobs[n].visit # visit
  <2>1. refs' = refs
    BY <1>4 DEF Show
  <2> QED
    BY <1>3, <1>4, <2>1, LeftPageKept
<1>5. CASE jobs[n].visit = visit
  <2>1. page = "knowledge" /\ refs' = shown
    BY <1>1, <1>5 DEF Show
  <2>2. refs \in KnowledgeRefs /\ KnowledgeBusy
    BY <2>1, KnowledgeHere
  <2>3. \A m \in Running : /\ m \in Running' /\ jobs'[m].op = jobs[m].op
                           /\ jobs'[m].form = jobs[m].form /\ jobs'[m].visit = jobs[m].visit
    BY <1>3
  <2>4. refs'.loading => \E m \in Running' : jobs'[m].visit = visit /\ jobs'[m].op = "search"
    BY <2>1, <2>2, <2>3 DEF KnowledgeBusy
  <2>5. refs'.uploading => \E m \in Running' : /\ jobs'[m].visit = visit
                                              /\ jobs'[m].op \in {"upload", "importUrl"}
    BY <2>1, <2>2, <2>3 DEF KnowledgeBusy
  <2>6. refs'.modelTesting # "none" =>
            \E m \in Running' : /\ jobs'[m].visit = visit /\ jobs'[m].op = "testModel"
                                /\ refs'.modelTesting \in {None, jobs'[m].form}
    BY <2>1, <2>2, <2>3 DEF KnowledgeBusy
  <2>7. KnowledgeBusy'
    BY <2>4, <2>5, <2>6 DEF KnowledgeBusy
  <2> QED
    BY <1>3, <2>1, <2>7, KnowledgeIsKept DEF KnowledgeKept
<1> QED
  BY <1>4, <1>5

\* loadDocuments() of c, at the end of another handler.
LEMMA LoadDocumentsKeeps ==
    ASSUME IInv, NEW n \in Slots, jobs[n].op \in KnowledgeOps,
           {"knowledgeDocuments"} \in KnowledgeQuestions(jobs[n].op),
           jobs[n].op \in {"upload", "importUrl", "removeDocument", "collections"},
           NEW c, page = "knowledge" => c \in Collections, LoadDocuments(n, c),
           UNCHANGED <<page, visit, stores>>, NEW shown, Show(n, shown),
           page = "knowledge" =>
              /\ shown \in KnowledgeRefs
              /\ shown.loading = refs.loading /\ shown.uploading = refs.uploading
              /\ shown.modelTesting = refs.modelTesting
    PROVE  Kept
<1>1. /\ n \in Running /\ StoreRequests \intersect DOMAIN jobs[n].asks = {}
      /\ Hand(jobs[n]) /\ Handler(jobs[n])
      /\ jobs[n].visit = visit => page = "knowledge"
  BY KnowledgeHandler
<1>2. CASE jobs[n].visit # visit
  <2>1. refs' = refs /\ End(n)
    BY <1>2 DEF Show, LoadDocuments
  <2> QED
    BY <1>1, <1>2, <2>1, LeftPageEnds
<1>3. CASE jobs[n].visit = visit
  <2> DEFINE j == [jobs[n] EXCEPT !.id = c, !.asks = Asked({"knowledgeDocuments"})]
  <2>1. c \in Collections /\ jobs' = [jobs EXCEPT ![n] = j]
    BY <1>1, <1>3 DEF LoadDocuments
  <2>2. /\ j.op = jobs[n].op /\ j.id = c /\ j.form = jobs[n].form /\ j.visit = jobs[n].visit
        /\ j.asks = Asked({"knowledgeDocuments"})
        /\ j = [op |-> j.op, id |-> j.id, form |-> j.form, visit |-> j.visit, asks |-> j.asks]
    <3> DEFINE asks == Asked({"knowledgeDocuments"})
    <3> HIDE DEF asks
    <3>1. DOMAIN jobs[n] = {"op", "id", "form", "visit", "asks"}
      BY <1>1 DEF Handler
    <3> DEFINE k == [jobs[n] EXCEPT !.id = c, !.asks = asks]
    <3>2. /\ DOMAIN k = {"op", "id", "form", "visit", "asks"}
          /\ k.op = jobs[n].op /\ k.id = c /\ k.form = jobs[n].form /\ k.visit = jobs[n].visit
          /\ k.asks = asks
          /\ k = [x \in DOMAIN k |-> k[x]]
      BY <3>1
    <3> HIDE DEF k
    <3>3. k = [op |-> k.op, id |-> k.id, form |-> k.form, visit |-> k.visit, asks |-> k.asks]
      BY <3>2
    <3> QED
      BY <3>2, <3>3 DEF k, asks
  <2>3. Holds(n, j)
    BY <2>1 DEF Holds
  <2> HIDE DEF j
  <2>4. {"knowledgeDocuments"} \in Questions(j.op) /\ j.op \in Ops
    BY <2>2, KnowledgeQuestion
  <2>5. "knowledgeDocuments" \in KnowledgeRequests
    BY DEF KnowledgeRequests
  <2>6. Fit(j, "knowledgeDocuments")
    BY <2>1, <2>2, <2>5, KnowledgeFit
  <2>7. Handler(j)
    BY <2>2, <2>4, <2>6, AskedStands DEF Handler
  <2>8. Hand(j)
    BY <1>1, <2>2, <2>7 DEF Hand
  <2> QED
    BY <2>2, <2>3, <2>8, KnowledgeGoesOn
<1> QED
  BY <1>2, <1>3

LEMMA CollectionsLoadedKeeps ==
    ASSUME IInv, NEW n \in Slots, jobs[n].op \in KnowledgeOps, CollectionsLoaded(n),
           UNCHANGED <<page, visit, stores>>
    PROVE  Kept
<1> DEFINE known == Value(n, "knowledgeBases")
           chosen == IF refs.selected \in known \/ known = {} THEN refs.selected
                     ELSE CHOOSE c \in known : TRUE
           shown == DocumentsAreLoading([refs EXCEPT !.collections = known, !.selected = chosen])
<1>1. /\ AsksFor(n, {"knowledgeBases"}) /\ AllAnswered(n)
      /\ Show(n, shown) /\ LoadDocuments(n, chosen)
  BY DEF CollectionsLoaded
<1>2. Handler(jobs[n]) /\ DOMAIN jobs[n].asks \in KnowledgeQuestions(jobs[n].op)
  BY KnowledgeHandler
<1>3. /\ jobs[n].op = "collections"
      /\ {"knowledgeDocuments"} \in KnowledgeQuestions(jobs[n].op)
  <2>1. DOMAIN jobs[n].asks = {"knowledgeBases"}
    BY <1>1 DEF AsksFor
  <2>2. jobs[n].op = "collections"
    BY <1>2, <2>1 DEF KnowledgeOps, KnowledgeQuestions
  <2> QED
    BY <2>2 DEF KnowledgeQuestions
<1>4. known \in KnowledgeCollections
  BY <1>1, <1>2, AnswerValue DEF AllAnswered, AsksFor, Value, Replied
<1>5. ASSUME page = "knowledge"
      PROVE  /\ chosen \in Collections /\ shown \in KnowledgeRefs
             /\ shown.loading = refs.loading /\ shown.uploading = refs.uploading
             /\ shown.modelTesting = refs.modelTesting
  <2>1. refs \in KnowledgeRefs
    BY <1>5, KnowledgeHere
  <2>2. chosen \in Collections
    BY <1>4, <2>1 DEF KnowledgeRefs, KnowledgeCollections
  <2> HIDE DEF chosen, known
  <2> QED
    BY <1>4, <2>1, <2>2 DEF DocumentsAreLoading, KnowledgeRefs, KnowledgeSearchResults
<1> HIDE DEF shown, chosen
<1> QED
  BY <1>1, <1>3, <1>5, LoadDocumentsKeeps

LEMMA DocumentsChangedKeeps ==
    ASSUME IInv, NEW n \in Slots, jobs[n].op \in KnowledgeOps, DocumentsChanged(n),
           UNCHANGED <<page, visit, stores>>
    PROVE  Kept
<1> DEFINE shown == DocumentsAreLoading(refs)
<1>1. /\ \E a \in Changing : AsksFor(n, {a})
      /\ Show(n, shown) /\ LoadDocuments(n, refs.selected)
  BY DEF DocumentsChanged
<1>2. DOMAIN jobs[n].asks \in KnowledgeQuestions(jobs[n].op)
  BY KnowledgeHandler
<1>3. /\ jobs[n].op \in {"upload", "importUrl", "removeDocument"}
      /\ {"knowledgeDocuments"} \in KnowledgeQuestions(jobs[n].op)
  <2>1. PICK a \in Changing : DOMAIN jobs[n].asks = {a}
    BY <1>1 DEF AsksFor
  <2>2. jobs[n].op \in {"upload", "importUrl", "removeDocument"}
    BY <1>2, <2>1 DEF KnowledgeOps, KnowledgeQuestions, Changing
  <2> QED
    BY <2>2 DEF KnowledgeQuestions
<1>4. ASSUME page = "knowledge"
      PROVE  /\ refs.selected \in Collections /\ shown \in KnowledgeRefs
             /\ shown.loading = refs.loading /\ shown.uploading = refs.uploading
             /\ shown.modelTesting = refs.modelTesting
  <2>1. refs \in KnowledgeRefs
    BY <1>4, KnowledgeHere
  <2> QED
    BY <2>1 DEF DocumentsAreLoading, KnowledgeRefs, KnowledgeSearchResults
<1> HIDE DEF shown
<1> QED
  BY <1>1, <1>3, <1>4, LoadDocumentsKeeps

LEMMA DocumentsLoadedKeeps ==
    ASSUME IInv, NEW n \in Slots, jobs[n].op \in KnowledgeOps, DocumentsLoaded(n),
           UNCHANGED <<page, visit, stores>>
    PROVE  Kept
<1> DEFINE op == jobs[n].op
           shown == [refs EXCEPT !.documents = Value(n, "knowledgeDocuments"),
                                 !.uploading = IF op \in {"upload", "importUrl"} THEN FALSE ELSE @]
<1>1. /\ AsksFor(n, {"knowledgeDocuments"}) /\ AllAnswered(n) /\ Show(n, shown)
      /\ IF op = "collections" THEN Continue(n, {"knowledgeModels"}) ELSE End(n)
  BY DEF DocumentsLoaded
<1>2. /\ Hand(jobs[n]) /\ Handler(jobs[n])
      /\ DOMAIN jobs[n].asks \in KnowledgeQuestions(jobs[n].op)
  BY KnowledgeHandler
<1>3. op \notin {"search", "testModel"}
  BY <1>1, <1>2 DEF AsksFor, KnowledgeQuestions
<1>4. Value(n, "knowledgeDocuments") \in KnowledgeDocuments
  BY <1>1, <1>2, AnswerValue DEF AllAnswered, AsksFor, Value, Replied
<1>5. ASSUME page = "knowledge"
      PROVE  /\ shown \in KnowledgeRefs /\ shown.loading = refs.loading
             /\ shown.uploading => refs.uploading /\ op \notin {"upload", "importUrl"}
             /\ shown.modelTesting = refs.modelTesting
  <2>1. refs \in KnowledgeRefs
    BY <1>5, KnowledgeHere
  <2> QED
    BY <1>4, <2>1 DEF KnowledgeRefs
<1> HIDE DEF shown
<1>6. CASE op # "collections"
  BY <1>1, <1>3, <1>5, <1>6, KnowledgeEnds
<1>7. CASE op = "collections"
  <2> DEFINE j == [jobs[n] EXCEPT !.asks = Asked({"knowledgeModels"})]
  <2>1. Holds(n, j)
    BY <1>1, <1>7 DEF Continue, Holds
  <2>2. "knowledgeModels" \in KnowledgeRequests /\ {"knowledgeModels"} \in KnowledgeQuestions(op)
    BY <1>7 DEF KnowledgeRequests, KnowledgeQuestions
  <2>3. {"knowledgeModels"} \in Questions(op) /\ Fit(jobs[n], "knowledgeModels")
    BY <2>2, KnowledgeQuestion, KnowledgeFit
  <2>4. Hand(j) /\ j.op = jobs[n].op /\ j.form = jobs[n].form /\ j.visit = jobs[n].visit
    BY <1>2, <2>3, AskAgainHand
  <2> HIDE DEF j
  <2> QED
    BY <1>1, <1>5, <2>1, <2>4, KnowledgeGoesOn
<1> QED
  BY <1>6, <1>7

LEMMA KnowledgeModelSavedKeeps ==
    ASSUME IInv, NEW n \in Slots, jobs[n].op \in KnowledgeOps, KnowledgeModelSaved(n),
           UNCHANGED <<page, visit, stores>>
    PROVE  Kept
<1> DEFINE j == [jobs[n] EXCEPT !.asks = Asked({"knowledgeModels"})]
<1>1. AsksFor(n, {"importKnowledgeModel"}) /\ Holds(n, j) /\ Show(n, refs)
  BY DEF KnowledgeModelSaved, Continue, Holds, Show
<1>2. Hand(jobs[n]) /\ DOMAIN jobs[n].asks \in KnowledgeQuestions(jobs[n].op)
  BY KnowledgeHandler
<1>3. jobs[n].op = "saveModel"
  BY <1>1, <1>2 DEF AsksFor, KnowledgeOps, KnowledgeQuestions
<1>4. /\ "knowledgeModels" \in KnowledgeRequests
      /\ {"knowledgeModels"} \in KnowledgeQuestions(jobs[n].op)
  BY <1>3 DEF KnowledgeRequests, KnowledgeQuestions
<1>5. {"knowledgeModels"} \in Questions(jobs[n].op) /\ Fit(jobs[n], "knowledgeModels")
  BY <1>4, KnowledgeQuestion, KnowledgeFit
<1>6. Hand(j) /\ j.op = jobs[n].op /\ j.form = jobs[n].form /\ j.visit = jobs[n].visit
  BY <1>2, <1>5, AskAgainHand
<1>7. page = "knowledge" => refs \in KnowledgeRefs
  BY KnowledgeHere
<1> HIDE DEF j
<1> QED
  BY <1>1, <1>6, <1>7, KnowledgeGoesOn

LEMMA KnowledgeRestKeeps ==
    ASSUME IInv, NEW n \in Slots, jobs[n].op \in KnowledgeOps,
           \/ ModelConfigLoaded(n) \/ Searched(n) \/ IndexRebuilt(n) \/ KnowledgeModelTested(n)
           \/ KnowledgeFailed(n),
           UNCHANGED <<page, visit, stores>>
    PROVE  Kept
<1>1. /\ Handler(jobs[n]) /\ DOMAIN jobs[n].asks \in KnowledgeQuestions(jobs[n].op)
  BY KnowledgeHandler
<1>2. page = "knowledge" => refs \in KnowledgeRefs
  BY KnowledgeHere
<1>3. CASE ModelConfigLoaded(n)
  <2> DEFINE shown == [refs EXCEPT !.modelConfig = Value(n, "knowledgeModels")]
  <2>1. AsksFor(n, {"knowledgeModels"}) /\ AllAnswered(n) /\ Show(n, shown) /\ End(n)
    BY <1>3 DEF ModelConfigLoaded
  <2>2. jobs[n].op \in {"collections", "saveModel"}
    BY <1>1, <2>1 DEF AsksFor, KnowledgeOps, KnowledgeQuestions
  <2>3. Value(n, "knowledgeModels") \in KnowledgeModelConfig
    BY <1>1, <2>1, AnswerValue DEF AllAnswered, AsksFor, Value, Replied
  <2>4. page = "knowledge" => /\ shown \in KnowledgeRefs /\ shown.loading = refs.loading
                              /\ shown.uploading = refs.uploading
                              /\ shown.modelTesting = refs.modelTesting
    BY <1>2, <2>3 DEF KnowledgeRefs
  <2> HIDE DEF shown
  <2> QED
    BY <2>1, <2>2, <2>4, KnowledgeEnds
<1>4. CASE Searched(n)
  <2> DEFINE shown == [refs EXCEPT !.results = Value(n, "searchKnowledge"), !.loading = FALSE]
  <2>1. AsksFor(n, {"searchKnowledge"}) /\ AllAnswered(n) /\ Show(n, shown) /\ End(n)
    BY <1>4 DEF Searched
  <2>2. jobs[n].op = "search"
    BY <1>1, <2>1 DEF AsksFor, KnowledgeOps, KnowledgeQuestions
  <2>3. Value(n, "searchKnowledge") \in KnowledgeSearchResults
    BY <1>1, <2>1, AnswerValue DEF AllAnswered, AsksFor, Value, Replied
  <2>4. page = "knowledge" => /\ shown \in KnowledgeRefs /\ ~shown.loading
                              /\ shown.uploading = refs.uploading
                              /\ shown.modelTesting = refs.modelTesting
    BY <1>2, <2>3 DEF KnowledgeRefs
  <2> HIDE DEF shown
  <2> QED
    BY <2>1, <2>2, <2>4, KnowledgeEnds
<1>5. CASE IndexRebuilt(n)
  <2>1. AsksFor(n, {"rebuildKnowledge"}) /\ Show(n, refs) /\ End(n)
    BY <1>5 DEF IndexRebuilt, Show
  <2>2. jobs[n].op = "rebuild"
    BY <1>1, <2>1 DEF AsksFor, KnowledgeOps, KnowledgeQuestions
  <2> QED
    BY <1>2, <2>1, <2>2, KnowledgeEnds
<1>6. CASE KnowledgeModelTested(n)
  <2> DEFINE shown == [refs EXCEPT !.modelTesting = "none"]
  <2>1. AsksFor(n, {"testKnowledgeModel"}) /\ Show(n, shown) /\ End(n)
    BY <1>6 DEF KnowledgeModelTested
  <2>2. jobs[n].op = "testModel"
    BY <1>1, <2>1 DEF AsksFor, KnowledgeOps, KnowledgeQuestions
  <2>4. page = "knowledge" => /\ shown \in KnowledgeRefs /\ shown.loading = refs.loading
                              /\ shown.uploading = refs.uploading
                              /\ shown.modelTesting = "none"
    BY <1>2 DEF KnowledgeRefs
  <2> HIDE DEF shown
  <2> QED
    BY <2>1, <2>2, <2>4, KnowledgeEnds
<1>7. CASE KnowledgeFailed(n)
  <2> DEFINE op == jobs[n].op
             shown == [refs EXCEPT !.uploading = IF op \in {"upload", "importUrl"} THEN FALSE ELSE @,
                                   !.loading = IF op = "search" THEN FALSE ELSE @]
  <2>1. ~AsksFor(n, {"testKnowledgeModel"}) /\ Show(n, shown) /\ End(n)
    BY <1>7 DEF KnowledgeFailed
  <2>2. op # "testModel"
    BY <1>1, <2>1 DEF AsksFor, KnowledgeQuestions
  <2>4. page = "knowledge" => /\ shown \in KnowledgeRefs
                              /\ shown.loading => refs.loading /\ op # "search"
                              /\ shown.uploading => refs.uploading /\ op \notin {"upload", "importUrl"}
                              /\ shown.modelTesting = refs.modelTesting
    BY <1>2 DEF KnowledgeRefs
  <2> HIDE DEF shown
  <2> QED
    BY <2>1, <2>2, <2>4, KnowledgeEnds
<1> QED
  BY <1>3, <1>4, <1>5, <1>6, <1>7

LEMMA KnowledgeResumeKeeps ==
    ASSUME IInv, NEW n \in Slots, KnowledgeResume(n), UNCHANGED <<page, visit, stores>>
    PROVE  Kept
BY CollectionsLoadedKeeps, DocumentsLoadedKeeps, DocumentsChangedKeeps, KnowledgeModelSavedKeeps,
   KnowledgeRestKeeps DEF KnowledgeResume
------------------------------------------------------------------------------
(* The page of the bilibili watch.                                           *)

LEMMA BiliWatchQuestion ==
    ASSUME NEW op \in BiliWatchOps, NEW D \in BiliWatchQuestions(op)
    PROVE  /\ op \in OpsOf("biliwatch") /\ op \in Ops /\ op # "idle"
           /\ D \in Questions(op) /\ StoreRequests \intersect D = {}
<1>1. op \in OpsOf("biliwatch") /\ op \in Ops /\ op # "idle" /\ op # "refresh"
  BY DEF OpsOf, Ops, BiliWatchOps, BiliWatchSaves
<1>2. D \in Questions(op)
  BY <1>1, OpsApart DEF Questions
<1> QED
  BY <1>1, <1>2, BiliWatchAsks, RequestsApart

LEMMA BiliWatchHere ==
    ASSUME IInv, page = "biliwatch"
    PROVE  refs \in BiliWatchRefs /\ BiliWatchBusy /\ refs.form.of = refs.editing
BY DEF IInv, Shapes, RefsOf, BusyMeansAsked, FormOpened

BiliWatchKept ==
    /\ Hands' /\ SavedWhereOpened' /\ StoresBusy' /\ BiliWatchBusy'
    /\ refs' \in BiliWatchRefs /\ refs'.form.of = refs'.editing

LEMMA BiliWatchIsKept ==
    ASSUME page = "biliwatch", page' = page, BiliWatchKept
    PROVE  Kept
BY DEF Kept, BiliWatchKept, BusyMeansAsked, FormOpened, RefsOf

LEMMA BiliWatchFit ==
    ASSUME NEW j, NEW a \in BiliWatchRequests, j.id \in Rows \union {None},
           a \in {"createBiliWatchSubscription", "updateBiliWatchSubscription"} =>
              j.form \in BiliWatchSubscriptionRequest /\ j.form.target \in Rows,
           a = "updateBiliWatchConfig" => j.form \in BiliWatchConfigUpdate
    PROVE  Fit(j, a)
BY RequestsApart DEF Fit, TaskRequests, TaskList, ModelRequests, KnowledgeRequests

LEMMA BiliWatchBegin ==
    ASSUME IInv, page = "biliwatch", Free # {}, UNCHANGED <<page, visit, stores>>,
           NEW op \in BiliWatchOps, NEW id, NEW form, NEW D \in BiliWatchQuestions(op),
           Begin(op, id, form, D), \A a \in D : Fit(Begun(op, id, form, D), a),
           Saved(Begun(op, id, form, D)),
           refs' \in BiliWatchRefs, refs'.form.of = refs'.editing,
           refs'.loading => refs.loading \/ D = BiliWatchLoad,
           refs'.saving => refs.saving \/ op \in BiliWatchSaves
    PROVE  BiliWatchKept
<1> DEFINE j == Begun(op, id, form, D)
<1>1. j.op = op /\ j.visit = visit /\ DOMAIN j.asks = D
  BY AskedStands DEF Begun
<1>2. /\ Hands' /\ SavedWhereOpened' /\ StoresBusy'
      /\ \E n \in Running' : jobs'[n] = j
      /\ \A m \in Running : m \in Running' /\ jobs'[m] = jobs[m]
  BY BiliWatchQuestion, BeginKeeps
<1> HIDE DEF j
<1>3. BiliWatchBusy
  BY BiliWatchHere
<1>4. refs'.loading => \E n \in Running' : jobs'[n].visit = visit /\ DOMAIN jobs'[n].asks = BiliWatchLoad
  BY <1>1, <1>2, <1>3 DEF BiliWatchBusy, AsksFor
<1>5. refs'.saving => \E n \in Running' : jobs'[n].visit = visit /\ jobs'[n].op \in BiliWatchSaves
  BY <1>1, <1>2, <1>3 DEF BiliWatchBusy
<1>6. BiliWatchBusy'
  BY <1>4, <1>5 DEF BiliWatchBusy, AsksFor
<1> QED
  BY <1>2, <1>6 DEF BiliWatchKept

LEMMA BiliWatchAskKeeps ==
    ASSUME IInv, page = "biliwatch", Free # {}, BiliWatchAsk, UNCHANGED <<page, visit, stores>>
    PROVE  BiliWatchKept
<1>1. refs \in BiliWatchRefs /\ refs.form.of = refs.editing
  BY BiliWatchHere
<1>2. ASSUME NEW target \in Rows, NEW typed \in Typed, SaveSubscription(target, typed)
      PROVE  BiliWatchKept
  <2> DEFINE form == FillSubscription(target, typed)
             a == IF refs.editing # None THEN "updateBiliWatchSubscription"
                  ELSE "createBiliWatchSubscription"
  <2>1. /\ refs' = [refs EXCEPT !.saving = TRUE, !.form = form]
        /\ Begin("saveSubscription", refs.editing, form, {a})
    BY <1>2 DEF SaveSubscription
  <2>2. /\ form \in BiliWatchSubscriptionRequest /\ form.target = target
        /\ form.of = refs.form.of
    BY <1>1, ValuesAssumption DEF FillSubscription, BiliWatchRefs, BiliWatchSubscriptionRequest
  <2> HIDE DEF form
  <2>3. /\ refs' \in BiliWatchRefs /\ refs'.form = form /\ refs'.editing = refs.editing
        /\ refs'.loading = refs.loading
    BY <1>1, <2>1, <2>2 DEF BiliWatchRefs
  <2>4. /\ "saveSubscription" \in BiliWatchOps /\ "saveSubscription" \in BiliWatchSaves
        /\ {a} \in BiliWatchQuestions("saveSubscription") /\ a \in BiliWatchRequests
        /\ a # "updateBiliWatchConfig"
    BY DEF BiliWatchOps, BiliWatchSaves, BiliWatchQuestions, BiliWatchRequests
  <2> HIDE DEF a
  <2>5. Fit(Begun("saveSubscription", refs.editing, form, {a}), a)
    <3> DEFINE j == Begun("saveSubscription", refs.editing, form, {a})
    <3>1. j.id = refs.editing /\ j.form = form
      BY DEF Begun
    <3>2. refs.editing \in Rows \union {None}
      BY <1>1 DEF BiliWatchRefs
    <3> HIDE DEF j
    <3> QED
      BY <2>2, <2>4, <3>1, <3>2, BiliWatchFit DEF j
  <2>6. Saved(Begun("saveSubscription", refs.editing, form, {a}))
    BY <1>1, <2>2 DEF Saved, Begun
  <2> QED
    BY <1>1, <2>1, <2>2, <2>3, <2>4, <2>5, <2>6, BiliWatchBegin
<1>3. ASSUME NEW s \in Rows, RemoveSubscription(s)
      PROVE  BiliWatchKept
  <2> DEFINE a == "deleteBiliWatchSubscription"
  <2>1. refs' = refs /\ Begin("removeSubscription", s, None, {a})
    BY <1>3 DEF RemoveSubscription
  <2>2. /\ "removeSubscription" \in BiliWatchOps /\ a \in BiliWatchRequests
        /\ {a} \in BiliWatchQuestions("removeSubscription")
    BY DEF BiliWatchOps, BiliWatchQuestions, BiliWatchRequests
  <2>3. Fit(Begun("removeSubscription", s, None, {a}), a)
    BY <2>2, BiliWatchFit DEF Begun
  <2>4. Saved(Begun("removeSubscription", s, None, {a}))
    BY DEF Saved, Begun
  <2> HIDE DEF a
  <2> QED
    BY <1>1, <2>1, <2>2, <2>3, <2>4, BiliWatchBegin
<1>4. ASSUME NEW update \in BiliWatchConfigUpdate, SaveConfig(update)
      PROVE  BiliWatchKept
  <2> DEFINE a == "updateBiliWatchConfig"
  <2>1. /\ refs' = [refs EXCEPT !.saving = TRUE, !.typed = update.settings,
                                !.cookie = update.cookie]
        /\ Begin("saveConfig", None, update, {a})
    BY <1>4 DEF SaveConfig
  <2>2. /\ refs' \in BiliWatchRefs /\ refs'.form = refs.form /\ refs'.editing = refs.editing
        /\ refs'.loading = refs.loading
    BY <1>1, <2>1, ValuesAssumption DEF BiliWatchRefs, BiliWatchConfigUpdate
  <2>3. /\ "saveConfig" \in BiliWatchOps /\ "saveConfig" \in BiliWatchSaves
        /\ a \in BiliWatchRequests /\ {a} \in BiliWatchQuestions("saveConfig")
    BY DEF BiliWatchOps, BiliWatchSaves, BiliWatchQuestions, BiliWatchRequests
  <2>4. Fit(Begun("saveConfig", None, update, {a}), a)
    BY <2>3, BiliWatchFit DEF Begun
  <2>5. Saved(Begun("saveConfig", None, update, {a}))
    BY DEF Saved, Begun
  <2> HIDE DEF a
  <2> QED
    BY <1>1, <2>1, <2>2, <2>3, <2>4, <2>5, BiliWatchBegin
<1>5. ASSUME TestCookie
      PROVE  BiliWatchKept
  <2> DEFINE a == "testBiliWatchCookie"
  <2>1. refs' = refs /\ Begin("testCookie", None, None, {a})
    BY <1>5 DEF TestCookie
  <2>2. /\ "testCookie" \in BiliWatchOps /\ a \in BiliWatchRequests
        /\ {a} \in BiliWatchQuestions("testCookie")
    BY DEF BiliWatchOps, BiliWatchQuestions, BiliWatchRequests
  <2>3. Fit(Begun("testCookie", None, None, {a}), a)
    BY <2>2, BiliWatchFit DEF Begun
  <2>4. Saved(Begun("testCookie", None, None, {a}))
    BY DEF Saved, Begun
  <2> HIDE DEF a
  <2> QED
    BY <1>1, <2>1, <2>2, <2>3, <2>4, BiliWatchBegin
<1>6. ASSUME ReloadBiliWatch
      PROVE  BiliWatchKept
  <2>1. /\ refs' = [refs EXCEPT !.loading = TRUE]
        /\ Begin("loadBiliWatch", None, None, BiliWatchLoad)
    BY <1>6 DEF ReloadBiliWatch, BiliWatchIsLoading
  <2>2. /\ refs' \in BiliWatchRefs /\ refs'.form = refs.form /\ refs'.editing = refs.editing
        /\ refs'.saving = refs.saving
    BY <1>1, <2>1 DEF BiliWatchRefs
  <2>3. /\ "loadBiliWatch" \in BiliWatchOps /\ BiliWatchLoad \subseteq BiliWatchRequests
        /\ BiliWatchLoad \in BiliWatchQuestions("loadBiliWatch")
    BY DEF BiliWatchOps, BiliWatchQuestions, BiliWatchRequests
  <2>4. \A a \in BiliWatchLoad : Fit(Begun("loadBiliWatch", None, None, BiliWatchLoad), a)
    BY <2>3, BiliWatchFit DEF Begun, BiliWatchLoad
  <2>5. Saved(Begun("loadBiliWatch", None, None, BiliWatchLoad))
    BY DEF Saved, Begun
  <2> QED
    BY <1>1, <2>1, <2>2, <2>3, <2>4, <2>5, BiliWatchBegin
<1> QED
  BY <1>2, <1>3, <1>4, <1>5, <1>6 DEF BiliWatchAsk

LEMMA BiliWatchOpenKeeps ==
    ASSUME IInv, page = "biliwatch", BiliWatchOpenOrClose, UNCHANGED <<page, visit, stores>>
    PROVE  BiliWatchKept
<1>1. refs \in BiliWatchRefs /\ refs.form.of = refs.editing /\ BiliWatchBusy
  BY BiliWatchHere
<1>2. jobs' = jobs
  BY DEF BiliWatchOpenOrClose, OpenCreateSubscription, CancelSubscription, OpenEditSubscription
<1>3. Hands' /\ SavedWhereOpened' /\ StoresBusy' /\ Running' = Running
  BY <1>2, OnlyRefs
<1> DEFINE Opened == /\ refs' \in BiliWatchRefs /\ refs'.form.of = refs'.editing
                     /\ refs'.loading = refs.loading /\ refs'.saving = refs.saving
<1>4. Opened
  <2>1. CASE OpenCreateSubscription
    BY <1>1, <2>1 DEF OpenCreateSubscription, BiliWatchRefs, EmptySubscription,
                      BiliWatchSubscriptionRequest
  <2>2. CASE CancelSubscription
    BY <1>1, <2>2 DEF CancelSubscription, BiliWatchRefs
  <2>3. ASSUME NEW s \in Rows, OpenEditSubscription(s)
        PROVE  Opened
    <3> DEFINE form == [of |-> s, target |-> s, def |-> refs.subscriptions[s]]
    <3>1. form \in BiliWatchSubscriptionRequest /\ form.of = s
      BY <1>1 DEF BiliWatchRefs, BiliWatchSubscriptions, BiliWatchSubscriptionRequest
    <3>2. refs' = [refs EXCEPT !.editing = s, !.showForm = TRUE, !.form = form]
      BY <2>3 DEF OpenEditSubscription
    <3> HIDE DEF form
    <3> QED
      BY <1>1, <3>1, <3>2 DEF BiliWatchRefs
  <2> QED
    BY <2>1, <2>2, <2>3 DEF BiliWatchOpenOrClose
<1>5. BiliWatchBusy'
  BY <1>1, <1>2, <1>3, <1>4 DEF BiliWatchBusy, AsksFor
<1> QED
  BY <1>3, <1>4, <1>5 DEF BiliWatchKept

LEMMA BiliWatchHandler ==
    ASSUME IInv, NEW n \in Slots, jobs[n].op \in BiliWatchOps
    PROVE  /\ n \in Running /\ Hand(jobs[n]) /\ Handler(jobs[n])
           /\ DOMAIN jobs[n].asks \in BiliWatchQuestions(jobs[n].op)
           /\ StoreRequests \intersect DOMAIN jobs[n].asks = {}
           /\ jobs[n].id \in Rows \union {None}
           /\ jobs[n].visit = visit => page = "biliwatch"
<1> USE DEF IInv
<1>1. Hand(jobs[n]) /\ Handler(jobs[n])
  BY DEF Hands, Hand
<1>2. DOMAIN jobs[n].asks \in Questions(jobs[n].op) /\ jobs[n].op \notin {"idle", "refresh"}
  BY <1>1 DEF Handler, BiliWatchOps, BiliWatchSaves
<1>3. /\ DOMAIN jobs[n].asks \in BiliWatchQuestions(jobs[n].op)
      /\ DOMAIN jobs[n].asks \subseteq BiliWatchRequests /\ DOMAIN jobs[n].asks # {}
  BY <1>2, BiliWatchAsks
<1>4. jobs[n].id \in Rows \union {None}
  BY <1>1, <1>3 DEF Handler, Fit
<1>5. jobs[n].visit = visit => page = "biliwatch"
  <2>1. ASSUME jobs[n].visit = visit
        PROVE  jobs[n].op \in OpsOf(page)
    BY <1>1, <1>2, <2>1 DEF Hand
  <2>2. \A p \in Routes : p # "biliwatch" => OpsOf(p) \intersect BiliWatchOps = {}
    BY OpsApart DEF Routes, OpsOf, MonitorOps
  <2> QED
    BY <2>1, <2>2 DEF Shapes
<1> QED
  BY <1>1, <1>2, <1>3, <1>4, <1>5, RequestsApart DEF Running

\* What a handler of this page may have done to the refs by the end of its step.
BiliWatchSeen(shown) ==
    /\ shown \in BiliWatchRefs /\ shown.form = refs.form /\ shown.editing = refs.editing

LEMMA BiliWatchEnds ==
    ASSUME IInv, NEW n \in Slots, jobs[n].op \in BiliWatchOps, End(n),
           UNCHANGED <<page, visit, stores>>, NEW shown, Show(n, shown),
           page = "biliwatch" =>
              /\ BiliWatchSeen(shown)
              /\ shown.loading => refs.loading /\ ~AsksFor(n, BiliWatchLoad)
              /\ shown.saving => refs.saving /\ jobs[n].op \notin BiliWatchSaves
    PROVE  Kept
<1>1. /\ StoreRequests \intersect DOMAIN jobs[n].asks = {}
      /\ jobs[n].visit = visit => page = "biliwatch"
  BY BiliWatchHandler
<1>2. CASE jobs[n].visit # visit
  <2>1. refs' = refs
    BY <1>2 DEF Show
  <2> QED
    BY <1>1, <1>2, <2>1, LeftPageEnds
<1>3. CASE jobs[n].visit = visit
  <2>1. page = "biliwatch" /\ refs' = shown
    BY <1>1, <1>3 DEF Show
  <2>2. BiliWatchBusy /\ refs.form.of = refs.editing
    BY <2>1, BiliWatchHere
  <2>3. /\ Hands' /\ SavedWhereOpened' /\ StoresBusy'
        /\ \A m \in Running : m # n => m \in Running' /\ jobs'[m] = jobs[m]
    BY <1>1, EndKeeps
  <2>4. BiliWatchBusy'
    BY <2>1, <2>2, <2>3 DEF BiliWatchBusy, AsksFor
  <2> QED
    BY <2>1, <2>2, <2>3, <2>4, BiliWatchIsKept DEF BiliWatchKept, BiliWatchSeen
<1> QED
  BY <1>2, <1>3

LEMMA BiliWatchChangedKeeps ==
    ASSUME IInv, NEW n \in Slots, jobs[n].op \in BiliWatchOps, BiliWatchChanged(n),
           UNCHANGED <<page, visit, stores>>
    PROVE  Kept
<1> DEFINE op == jobs[n].op
           closed == CASE op = "saveSubscription" -> [refs EXCEPT !.showForm = FALSE]
                       [] op = "saveConfig" ->
                             [refs EXCEPT !.cookie = FALSE,
                                          !.config = Value(n, "updateBiliWatchConfig")]
                       [] OTHER -> refs
<1>1. /\ op \in BiliWatchSaves \union {"removeSubscription"} /\ ~AsksFor(n, BiliWatchLoad)
      /\ AllAnswered(n) /\ Show(n, BiliWatchIsLoading(closed)) /\ Continue(n, BiliWatchLoad)
  BY DEF BiliWatchChanged, Reload
<1>2. /\ Handler(jobs[n]) /\ StoreRequests \intersect DOMAIN jobs[n].asks = {}
      /\ DOMAIN jobs[n].asks \in BiliWatchQuestions(op)
      /\ jobs[n].id \in Rows \union {None} /\ (jobs[n].visit = visit => page = "biliwatch")
  BY BiliWatchHandler
<1>3. BiliWatchLoad \in BiliWatchQuestions(op)
  BY <1>1 DEF BiliWatchQuestions, BiliWatchSaves
<1>4. BiliWatchLoad \in Questions(op) /\ op # "idle"
  BY <1>3, BiliWatchQuestion
<1>5. \A a \in BiliWatchLoad : Fit(jobs[n], a)
  BY <1>2, BiliWatchFit DEF BiliWatchRequests, BiliWatchLoad
<1>6. CASE jobs[n].visit # visit
  <2>1. refs' = refs
    BY <1>1, <1>6 DEF Show
  <2> QED
    BY <1>1, <1>2, <1>4, <1>5, <1>6, <2>1, LeftPageContinues
<1>7. CASE jobs[n].visit = visit
  <2>1. page = "biliwatch" /\ refs' = BiliWatchIsLoading(closed)
    BY <1>1, <1>2, <1>7 DEF Show
  <2>2. refs \in BiliWatchRefs /\ BiliWatchBusy /\ refs.form.of = refs.editing
    BY <2>1, BiliWatchHere
  <2>3. /\ Hands' /\ SavedWhereOpened' /\ StoresBusy'
        /\ jobs'[n].op = jobs[n].op /\ jobs'[n].visit = jobs[n].visit
        /\ DOMAIN jobs'[n].asks = BiliWatchLoad /\ n \in Running'
        /\ \A m \in Running : m # n => m \in Running' /\ jobs'[m] = jobs[m]
    BY <1>1, <1>2, <1>4, <1>5, ContinueKeeps, AskedStands
  <2>4. op = "saveConfig" => Value(n, "updateBiliWatchConfig") \in BiliWatchConfig
    <3>1. op = "saveConfig" => DOMAIN jobs[n].asks = {"updateBiliWatchConfig"}
      BY <1>1, <1>2 DEF BiliWatchQuestions, AsksFor
    <3> QED
      BY <1>1, <1>2, <3>1, AnswerValue DEF AllAnswered, Value, Replied
  <2>5. BiliWatchSeen(closed) /\ closed.loading = refs.loading /\ closed.saving = refs.saving
    BY <1>1, <2>2, <2>4 DEF BiliWatchSeen, BiliWatchRefs, BiliWatchSaves
  <2> HIDE DEF closed
  <2>6. BiliWatchSeen(refs') /\ refs'.saving = refs.saving
    BY <2>1, <2>5 DEF BiliWatchSeen, BiliWatchRefs, BiliWatchIsLoading
  <2>7. BiliWatchBusy'
    BY <1>7, <2>2, <2>3, <2>6 DEF BiliWatchBusy, AsksFor
  <2> QED
    BY <2>1, <2>2, <2>3, <2>6, <2>7, BiliWatchIsKept DEF BiliWatchKept, BiliWatchSeen
<1> QED
  BY <1>6, <1>7

LEMMA BiliWatchLoadedKeeps ==
    ASSUME IInv, NEW n \in Slots, jobs[n].op \in BiliWatchOps, BiliWatchLoaded(n),
           UNCHANGED <<page, visit, stores>>
    PROVE  Kept
<1> DEFINE shown == IF SomeFailed(n) THEN refs
                    ELSE [refs EXCEPT !.config = Value(n, "biliWatchConfig"),
                                      !.subscriptions = Value(n, "biliWatchSubscriptions"),
                                      !.deliveries = Value(n, "biliWatchDeliveries"),
                                      !.bots = Value(n, "onebotBots"),
                                      !.typed = Value(n, "biliWatchConfig").settings]
           over == [shown EXCEPT !.loading = FALSE,
                                 !.saving = IF jobs[n].op \in BiliWatchSaves THEN FALSE ELSE @]
<1>1. /\ AsksFor(n, BiliWatchLoad) /\ (AllAnswered(n) \/ SomeFailed(n))
      /\ Show(n, over) /\ End(n)
  BY DEF BiliWatchLoaded
<1>2. Handler(jobs[n])
  BY BiliWatchHandler
<1>3. ~SomeFailed(n) => /\ Value(n, "biliWatchConfig") \in BiliWatchConfig
                        /\ Value(n, "biliWatchSubscriptions") \in BiliWatchSubscriptions
                        /\ Value(n, "biliWatchDeliveries") \in BiliWatchDeliveries
                        /\ Value(n, "onebotBots") \in ConnectedOneBots
  <2>1. ~SomeFailed(n) => \A a \in BiliWatchLoad : Replied(a, Value(n, a))
    BY <1>1, <1>2, AnswerValue DEF AllAnswered, AsksFor, Value
  <2> QED
    BY <2>1 DEF Replied, BiliWatchLoad
<1>4. ~SomeFailed(n) => Value(n, "biliWatchConfig").settings \in Values
  BY <1>3 DEF BiliWatchConfig
<1>5. ASSUME page = "biliwatch"
      PROVE  BiliWatchSeen(shown) /\ shown.saving = refs.saving
  <2>1. refs \in BiliWatchRefs
    BY <1>5, BiliWatchHere
  <2>2. CASE SomeFailed(n)
    BY <2>1, <2>2 DEF BiliWatchSeen
  <2>3. CASE ~SomeFailed(n)
    <3> DEFINE config == Value(n, "biliWatchConfig")
               subscriptions == Value(n, "biliWatchSubscriptions")
               deliveries == Value(n, "biliWatchDeliveries")
               bots == Value(n, "onebotBots")
               typed == config.settings
    <3>1. /\ config \in BiliWatchConfig /\ subscriptions \in BiliWatchSubscriptions
          /\ deliveries \in BiliWatchDeliveries /\ bots \in ConnectedOneBots /\ typed \in Values
      BY <1>3, <1>4, <2>3
    <3>2. shown = [refs EXCEPT !.config = config, !.subscriptions = subscriptions,
                               !.deliveries = deliveries, !.bots = bots, !.typed = typed]
      BY <2>3
    <3> HIDE DEF shown, config, subscriptions, deliveries, bots, typed
    <3> QED
      BY <2>1, <3>1, <3>2 DEF BiliWatchSeen, BiliWatchRefs
  <2> QED
    BY <2>2, <2>3
<1> HIDE DEF shown
<1>6. ASSUME page = "biliwatch"
      PROVE  /\ BiliWatchSeen(over) /\ ~over.loading
             /\ over.saving => refs.saving /\ jobs[n].op \notin BiliWatchSaves
  BY <1>5, <1>6 DEF BiliWatchSeen, BiliWatchRefs
<1> HIDE DEF over
<1> QED
  BY <1>1, <1>6, BiliWatchEnds

LEMMA BiliWatchResumeKeeps ==
    ASSUME IInv, NEW n \in Slots, BiliWatchResume(n), UNCHANGED <<page, visit, stores>>
    PROVE  Kept
<1>1. jobs[n].op \in BiliWatchOps
  BY DEF BiliWatchResume
<1>2. page = "biliwatch" => refs \in BiliWatchRefs
  BY BiliWatchHere
<1>3. CASE BiliWatchRefused(n)
  <2> DEFINE shown == [refs EXCEPT !.saving = IF jobs[n].op \in BiliWatchSaves THEN FALSE ELSE @]
  <2>1. ~AsksFor(n, BiliWatchLoad) /\ Show(n, shown) /\ End(n)
    BY <1>3 DEF BiliWatchRefused
  <2>2. page = "biliwatch" => /\ BiliWatchSeen(shown) /\ shown.loading = refs.loading
                              /\ shown.saving => refs.saving /\ jobs[n].op \notin BiliWatchSaves
    BY <1>2 DEF BiliWatchSeen, BiliWatchRefs
  <2> HIDE DEF shown
  <2> QED
    BY <1>1, <2>1, <2>2, BiliWatchEnds
<1>4. CASE CookieTested(n)
  <2>1. jobs[n].op = "testCookie" /\ Show(n, refs) /\ End(n)
    BY <1>4 DEF CookieTested, Show
  <2>2. ~AsksFor(n, BiliWatchLoad) /\ jobs[n].op \notin BiliWatchSaves
    <3>1. DOMAIN jobs[n].asks = {"testBiliWatchCookie"}
      BY <1>1, <2>1, BiliWatchHandler DEF BiliWatchQuestions
    <3> QED
      BY <2>1, <3>1 DEF AsksFor, BiliWatchLoad, BiliWatchSaves
  <2>3. page = "biliwatch" => BiliWatchSeen(refs)
    BY <1>2 DEF BiliWatchSeen
  <2> QED
    BY <1>1, <2>1, <2>2, <2>3, BiliWatchEnds
<1> QED
  BY <1>1, <1>3, <1>4, BiliWatchChangedKeeps, BiliWatchLoadedKeeps DEF BiliWatchResume
------------------------------------------------------------------------------
(* The pages that read.                                                      *)

MonitorPages == {"overview", "logs", "tools", "settings"}

LEMMA MonitorQuestion ==
    ASSUME NEW op \in MonitorOps, NEW D \in MonitorQuestions(op)
    PROVE  /\ op \in Ops /\ op # "idle" /\ D \in Questions(op)
           /\ op # "loadOverview" => StoreRequests \intersect D = {}
<1>1. op \in Ops /\ op # "idle" /\ op # "refresh"
  BY DEF Ops, MonitorOps
<1>2. D \in Questions(op)
  BY <1>1, OpsApart DEF Questions
<1>3. op # "loadOverview" => D \subseteq MonitorRequests
  BY DEF MonitorQuestions, MonitorRequests, MonitorOps
<1> QED
  BY <1>1, <1>2, <1>3, RequestsApart

LEMMA MonitorFit ==
    ASSUME NEW j, NEW a \in MonitorRequests \union StoreRequests
    PROVE  Fit(j, a)
BY RequestsApart DEF Fit, TaskRequests, TaskList, ModelRequests, KnowledgeRequests,
                     BiliWatchRequests, BiliWatchLoad

LEMMA MonitorHere ==
    ASSUME IInv, page \in MonitorPages
    PROVE  refs \in RefsOf(page) /\ MonitorBusy
BY DEF IInv, Shapes, BusyMeansAsked, MonitorPages

MonitorKept ==
    /\ Hands' /\ SavedWhereOpened' /\ StoresBusy' /\ MonitorBusy'
    /\ refs' \in RefsOf(page)

LEMMA MonitorIsKept ==
    ASSUME page \in MonitorPages, page' = page, MonitorKept
    PROVE  Kept
BY DEF Kept, MonitorKept, BusyMeansAsked, FormOpened, MonitorPages

LEMMA MonitorBegin ==
    ASSUME IInv, page \in MonitorPages, Free # {}, UNCHANGED <<page, visit>>,
           NEW op \in MonitorOps, op \in OpsOf(page), NEW D \in MonitorQuestions(op),
           Begin(op, None, None, D),
           refs' \in RefsOf(page), page = "tools" => op = "loadTools",
           stores'.profilesLoading => stores.profilesLoading,
           stores'.statusLoading => stores.statusLoading \/ "status" \in D
    PROVE  Kept
<1> DEFINE j == Begun(op, None, None, D)
<1>1. j.op = op /\ j.visit = visit /\ DOMAIN j.asks = D
  BY AskedStands DEF Begun
<1>2. Saved(j)
  BY <1>1 DEF Saved, MonitorOps
<1>3. \A a \in D : Fit(j, a)
  <2>1. D \subseteq MonitorRequests \union StoreRequests
    BY DEF MonitorQuestions, MonitorOps, MonitorRequests, StoreRequests, OverviewLoad
  <2> HIDE DEF j
  <2> QED
    BY <2>1, MonitorFit
<1>4. /\ Hands' /\ SavedWhereOpened' /\ StoresBusy'
      /\ \E n \in Running' : jobs'[n] = j
      /\ \A m \in Running : m \in Running' /\ jobs'[m] = jobs[m]
  BY <1>2, <1>3, MonitorQuestion, BeginKeeps
<1> HIDE DEF j
<1>5. op = "loadTools" => D = {"tools"}
  BY DEF MonitorQuestions
<1>6. MonitorBusy'
  BY <1>1, <1>4, <1>5 DEF MonitorBusy, AsksFor
<1> QED
  BY <1>4, <1>6, MonitorIsKept DEF MonitorKept

LEMMA LogsRead ==
    ASSUME IInv, page = "logs", Free # {}, ReadLogs, UNCHANGED <<page, visit, stores>>
    PROVE  Kept
<1>1. "loadLogs" \in OpsOf(page) /\ "loadLogs" \in MonitorOps /\ page \in MonitorPages
  BY DEF OpsOf, MonitorOps, MonitorPages
<1>2. {"logs"} \in MonitorQuestions("loadLogs")
  BY DEF MonitorQuestions
<1>3. Begin("loadLogs", None, None, {"logs"}) /\ refs' \in RefsOf(page)
  BY <1>1, MonitorHere DEF ReadLogs
<1> QED
  BY <1>1, <1>2, <1>3, MonitorBegin

LEMMA MonitorAskKeeps ==
    ASSUME IInv, Free # {}, MonitorAsk, UNCHANGED <<page, visit>>
    PROVE  Kept /\ stores' \in Stores
<1>1. stores \in Stores
  BY DEF IInv, Shapes
<1>2. CASE page = "overview" /\ ReloadOverview
  <2>1. "loadOverview" \in OpsOf(page) /\ "loadOverview" \in MonitorOps /\ page \in MonitorPages
    BY <1>2 DEF OpsOf, MonitorOps, MonitorPages
  <2>2. OverviewLoad \in MonitorQuestions("loadOverview") /\ "status" \in OverviewLoad
    BY DEF MonitorQuestions, OverviewLoad
  <2>3. Begin("loadOverview", None, None, OverviewLoad) /\ refs' \in RefsOf(page)
    BY <1>2, <2>1, MonitorHere DEF ReloadOverview
  <2>4. stores' \in Stores /\ stores'.profilesLoading = stores.profilesLoading
    BY <1>1, <1>2 DEF ReloadOverview, RefreshRuntime, Stores
  <2> QED
    BY <1>2, <2>1, <2>2, <2>3, <2>4, MonitorBegin
<1>3. CASE page = "logs" /\ ReloadLogs /\ UNCHANGED stores
  BY <1>1, <1>3, LogsRead DEF ReloadLogs
<1>4. CASE page = "tools" /\ ReloadTools /\ UNCHANGED stores
  <2>1. "loadTools" \in OpsOf(page) /\ "loadTools" \in MonitorOps /\ page \in MonitorPages
    BY <1>4 DEF OpsOf, MonitorOps, MonitorPages
  <2>2. {"tools"} \in MonitorQuestions("loadTools")
    BY DEF MonitorQuestions
  <2>3. Begin("loadTools", None, None, {"tools"}) /\ refs' \in RefsOf(page)
    BY <1>4, <2>1, MonitorHere DEF ReloadTools, RefsOf
  <2> QED
    BY <1>1, <1>4, <2>1, <2>2, <2>3, MonitorBegin
<1> QED
  BY <1>2, <1>3, <1>4 DEF MonitorAsk

LEMMA PauseKeeps ==
    ASSUME IInv, page = "logs", PauseLogs, UNCHANGED <<page, visit, stores>>
    PROVE  Kept
<1>1. page \in MonitorPages /\ refs \in RefsOf("logs")
  BY MonitorHere DEF MonitorPages
<1>2. refs' \in RefsOf(page)
  BY <1>1 DEF PauseLogs, RefsOf
<1>3. Hands' /\ SavedWhereOpened' /\ StoresBusy'
  BY OnlyRefs DEF PauseLogs
<1>4. MonitorBusy'
  BY DEF MonitorBusy
<1> QED
  BY <1>1, <1>2, <1>3, <1>4, MonitorIsKept DEF MonitorKept

LEMMA MonitorHandler ==
    ASSUME IInv, NEW n \in Slots, jobs[n].op \in MonitorOps
    PROVE  /\ n \in Running /\ Hand(jobs[n]) /\ Handler(jobs[n])
           /\ DOMAIN jobs[n].asks \in MonitorQuestions(jobs[n].op)
           /\ jobs[n].op # "loadOverview" => StoreRequests \intersect DOMAIN jobs[n].asks = {}
           /\ jobs[n].visit = visit => page \in MonitorPages /\ jobs[n].op \in OpsOf(page)
<1> USE DEF IInv
<1>1. Hand(jobs[n]) /\ Handler(jobs[n])
  BY DEF Hands, Hand
<1>2. DOMAIN jobs[n].asks \in Questions(jobs[n].op) /\ jobs[n].op \notin {"idle", "refresh"}
  BY <1>1 DEF Handler, MonitorOps
<1>3. DOMAIN jobs[n].asks \in MonitorQuestions(jobs[n].op)
  BY <1>2, MonitorAsks
<1>5. jobs[n].visit = visit => page \in MonitorPages /\ jobs[n].op \in OpsOf(page)
  <2>1. ASSUME jobs[n].visit = visit
        PROVE  jobs[n].op \in OpsOf(page)
    BY <1>1, <1>2, <2>1 DEF Hand
  <2>2. \A p \in Routes : p \notin MonitorPages => OpsOf(p) \intersect MonitorOps = {}
    BY OpsApart DEF Routes, OpsOf, MonitorPages
  <2> QED
    BY <2>1, <2>2 DEF Shapes
<1> QED
  BY <1>1, <1>2, <1>3, <1>5, MonitorQuestion DEF Running

LEMMA MonitorEnds ==
    ASSUME IInv, NEW n \in Slots, jobs[n].op \in MonitorOps, jobs[n].op # "loadOverview", End(n),
           UNCHANGED <<page, visit, stores>>, NEW shown, Show(n, shown),
           jobs[n].op \in OpsOf(page) /\ page \in MonitorPages =>
              /\ shown \in RefsOf(page)
              /\ page = "tools" => shown.loading = FALSE
    PROVE  Kept
<1>1. /\ StoreRequests \intersect DOMAIN jobs[n].asks = {}
      /\ jobs[n].visit = visit => page \in MonitorPages /\ jobs[n].op \in OpsOf(page)
  BY MonitorHandler
<1>2. CASE jobs[n].visit # visit
  <2>1. refs' = refs
    BY <1>2 DEF Show
  <2> QED
    BY <1>1, <1>2, <2>1, LeftPageEnds
<1>3. CASE jobs[n].visit = visit
  <2>1. page \in MonitorPages /\ refs' = shown
    BY <1>1, <1>3 DEF Show
  <2>2. Hands' /\ SavedWhereOpened' /\ StoresBusy'
    BY <1>1, EndKeeps
  <2>3. MonitorBusy'
    BY <1>1, <1>3, <2>1 DEF MonitorBusy
  <2> QED
    BY <1>1, <1>3, <2>1, <2>2, <2>3, MonitorIsKept DEF MonitorKept
<1> QED
  BY <1>2, <1>3

LEMMA LogsLoadedKeeps ==
    ASSUME IInv, NEW n \in Slots, LogsLoaded(n), UNCHANGED <<page, visit>>
    PROVE  Kept /\ stores' = stores
<1> DEFINE shown == IF SomeFailed(n) THEN [refs EXCEPT !.error = TRUE]
                    ELSE [refs EXCEPT !.logs = Value(n, "logs"), !.error = FALSE]
<1>1. /\ jobs[n].op = "loadLogs" /\ jobs[n].op \in MonitorOps /\ HasCome(n, "logs")
      /\ Show(n, shown) /\ End(n) /\ stores' = stores
  BY DEF LogsLoaded, MonitorOps
<1>2. Handler(jobs[n]) /\ DOMAIN jobs[n].asks = {"logs"}
  BY <1>1, MonitorHandler DEF MonitorQuestions
<1>3. ~SomeFailed(n) => Value(n, "logs") \in LogEntries
  BY <1>1, <1>2, AnswerValue DEF HasCome, SomeFailed, Value, Replied
<1>4. ASSUME jobs[n].op \in OpsOf(page), page \in MonitorPages
      PROVE  page # "tools" /\ shown \in RefsOf(page)
  <2>1. page = "logs"
    BY <1>1, <1>4 DEF OpsOf, MonitorPages
  <2>2. refs \in RefsOf("logs")
    BY <1>4, <2>1, MonitorHere
  <2> QED
    BY <1>3, <2>1, <2>2 DEF RefsOf
<1> HIDE DEF shown
<1> QED
  BY <1>1, <1>4, MonitorEnds

LEMMA ToolsLoadedKeeps ==
    ASSUME IInv, NEW n \in Slots, ToolsLoaded(n), UNCHANGED <<page, visit>>
    PROVE  Kept /\ stores' = stores
<1> DEFINE shown == [refs EXCEPT !.loading = FALSE,
                                 !.tools = IF SomeFailed(n) THEN @ ELSE Value(n, "tools")]
<1>1. /\ jobs[n].op = "loadTools" /\ jobs[n].op \in MonitorOps /\ HasCome(n, "tools")
      /\ Show(n, shown) /\ End(n) /\ stores' = stores
  BY DEF ToolsLoaded, MonitorOps
<1>2. Handler(jobs[n]) /\ DOMAIN jobs[n].asks = {"tools"}
  BY <1>1, MonitorHandler DEF MonitorQuestions
<1>3. ~SomeFailed(n) => Value(n, "tools") \in ToolInfos
  BY <1>1, <1>2, AnswerValue DEF HasCome, SomeFailed, Value, Replied, ToolInfos
<1>4. ASSUME jobs[n].op \in OpsOf(page), page \in MonitorPages
      PROVE  shown \in RefsOf(page) /\ shown.loading = FALSE
  <2>1. page = "tools"
    BY <1>1, <1>4 DEF OpsOf, MonitorPages
  <2>2. refs \in RefsOf("tools")
    BY <1>4, <2>1, MonitorHere
  <2> QED
    BY <1>3, <2>1, <2>2 DEF RefsOf
<1> HIDE DEF shown
<1> QED
  BY <1>1, <1>4, MonitorEnds

LEMMA SettingsLoadedKeeps ==
    ASSUME IInv, NEW n \in Slots, SettingsLoaded(n), UNCHANGED <<page, visit>>
    PROVE  Kept /\ stores' = stores
<1> DEFINE shown == [refs EXCEPT !.config = IF SomeFailed(n) THEN @ ELSE Value(n, "config")]
<1>1. /\ jobs[n].op = "loadSettings" /\ jobs[n].op \in MonitorOps /\ HasCome(n, "config")
      /\ Show(n, shown) /\ End(n) /\ stores' = stores
  BY DEF SettingsLoaded, MonitorOps
<1>2. Handler(jobs[n]) /\ DOMAIN jobs[n].asks = {"config"}
  BY <1>1, MonitorHandler DEF MonitorQuestions
<1>3. ~SomeFailed(n) => Value(n, "config") \in DashboardConfig
  BY <1>1, <1>2, AnswerValue DEF HasCome, SomeFailed, Value, Replied, DashboardConfig
<1>4. ASSUME jobs[n].op \in OpsOf(page), page \in MonitorPages
      PROVE  page # "tools" /\ shown \in RefsOf(page)
  <2>1. page = "settings"
    BY <1>1, <1>4 DEF OpsOf, MonitorPages
  <2>2. refs \in RefsOf("settings")
    BY <1>4, <2>1, MonitorHere
  <2> QED
    BY <1>3, <2>1, <2>2 DEF RefsOf
<1> HIDE DEF shown
<1> QED
  BY <1>1, <1>4, MonitorEnds

LEMMA OverviewLoadingKeeps ==
    ASSUME IInv, NEW n \in Slots, OverviewLoading(n), UNCHANGED <<page, visit>>
    PROVE  Kept /\ stores' \in Stores
<1>1. PICK a \in OverviewLoad :
         LET failed == jobs[n].asks[a].is = "failure"
             taken == IF a = "status" THEN RuntimeRefreshed(stores, n) ELSE stores
         IN  /\ HasCome(n, a)
             /\ a = "status" \/ Ends(n, a)
             /\ stores' = IF Ends(n, a) THEN [taken EXCEPT !.statusLoading = FALSE] ELSE taken
             /\ IF ~Ends(n, a) THEN UNCHANGED refs
                ELSE Show(n, IF failed THEN refs
                             ELSE [refs EXCEPT !.logs = Value(n, "logs"),
                                               !.actions = Value(n, "onebotActions")])
             /\ TakeAnswer(n, a)
  BY DEF OverviewLoading
<1>2. jobs[n].op = "loadOverview" /\ jobs[n].op \in MonitorOps
  BY DEF OverviewLoading, MonitorOps
<1>3. /\ n \in Running /\ Handler(jobs[n]) /\ DOMAIN jobs[n].asks = OverviewLoad
      /\ jobs[n].visit = visit => page \in MonitorPages /\ jobs[n].op \in OpsOf(page)
  BY <1>2, MonitorHandler DEF MonitorQuestions
<1>4. "status" \in StoreRequests /\ a # "models"
  BY DEF StoreRequests, OverviewLoad
<1>5. PICK j : LeftOf(n, a, j)
  BY <1>1, <1>3, <1>4, TakeLeaves
<1> DEFINE taken == IF a = "status" THEN RuntimeRefreshed(stores, n) ELSE stores
<1>6. /\ taken \in Stores
      /\ taken.profilesLoading => stores.profilesLoading
      /\ taken.statusLoading => stores.statusLoading /\ a # "status"
  <2>1. a = "status" => taken = Refreshed(stores, n, a)
    BY DEF Refreshed
  <2>2. stores \in Stores
    BY DEF IInv, Shapes
  <2> QED
    BY <1>3, <1>4, <2>1, <2>2, RefreshedType
<1>7. stores' = IF Ends(n, a) THEN [taken EXCEPT !.statusLoading = FALSE] ELSE taken
  BY <1>1
<1> HIDE DEF taken
<1>8. /\ stores' \in Stores
      /\ stores'.profilesLoading => stores.profilesLoading /\ a # "models"
      /\ stores'.statusLoading => stores.statusLoading /\ a # "status"
  BY <1>4, <1>6, <1>7 DEF Stores
<1>9. /\ Hands' /\ SavedWhereOpened' /\ StoresBusy'
      /\ \A m \in Running : m # n => m \in Running' /\ jobs'[m] = jobs[m]
  BY <1>3, <1>5, <1>8, TakeKeeps
<1>10. CASE jobs[n].visit # visit
  <2>1. refs' = refs
    BY <1>1, <1>10 DEF Show
  <2> QED
    BY <1>8, <1>9, <1>10, <2>1, LeftPageKept
<1>11. CASE jobs[n].visit = visit
  <2>1. page = "overview" /\ page \in MonitorPages
    BY <1>2, <1>3, <1>11 DEF OpsOf, MonitorPages
  <2>2. refs \in RefsOf("overview")
    BY <2>1, MonitorHere
  <2>3. refs' \in RefsOf(page)
    <3>1. CASE ~Ends(n, a) \/ jobs[n].asks[a].is = "failure"
      BY <1>1, <1>11, <2>1, <2>2, <3>1 DEF Show
    <3>2. CASE Ends(n, a) /\ jobs[n].asks[a].is # "failure"
      <4>1. jobs[n].asks["logs"].is = "answer" /\ jobs[n].asks["onebotActions"].is = "answer"
        BY <1>1, <1>3, <3>2 DEF Ends, Ready, HasCome, OverviewLoad, StoreRequests
      <4>2. Value(n, "logs") \in LogEntries /\ Value(n, "onebotActions") \in OneBotActionRecords
        <5>1. "logs" \in DOMAIN jobs[n].asks /\ "onebotActions" \in DOMAIN jobs[n].asks
          BY <1>3 DEF OverviewLoad
        <5>2. Replied("logs", Value(n, "logs")) /\ Replied("onebotActions", Value(n, "onebotActions"))
          BY <1>3, <4>1, <5>1, AnswerValue DEF Value
        <5> QED
          BY <5>2 DEF Replied, OneBotActionRecords
      <4>3. refs' = [refs EXCEPT !.logs = Value(n, "logs"), !.actions = Value(n, "onebotActions")]
        BY <1>1, <1>11, <3>2 DEF Show
      <4> QED
        BY <2>1, <2>2, <4>2, <4>3 DEF RefsOf
    <3> QED
      BY <3>1, <3>2
  <2>4. MonitorBusy'
    BY <2>1 DEF MonitorBusy
  <2> QED
    BY <1>8, <1>9, <2>1, <2>3, <2>4, MonitorIsKept DEF MonitorKept
<1> QED
  BY <1>10, <1>11

LEMMA MonitorResumeKeeps ==
    ASSUME IInv, NEW n \in Slots, MonitorResume(n), UNCHANGED <<page, visit>>
    PROVE  Kept /\ stores' \in Stores
<1>1. stores \in Stores
  BY DEF IInv, Shapes
<1> QED
  BY <1>1, OverviewLoadingKeeps, LogsLoadedKeeps, ToolsLoadedKeeps, SettingsLoadedKeeps
     DEF MonitorResume
------------------------------------------------------------------------------
(* A refresh that nobody waits for.                                          *)

LEMMA RefreshAloneKeeps ==
    ASSUME IInv, NEW n \in Slots, RefreshAlone(n), UNCHANGED <<page, visit>>
    PROVE  Kept /\ stores' \in Stores
<1> USE DEF IInv
<1>1. PICK a \in DOMAIN jobs[n].asks :
         HasCome(n, a) /\ stores' = Refreshed(stores, n, a) /\ TakeAnswer(n, a)
  BY DEF RefreshAlone
<1>2. /\ jobs[n].op = "refresh" /\ n \in Running /\ refs' = refs
      /\ DOMAIN jobs[n].asks \in {{"models"}, {"status"}, StoreRequests}
  <2>1. jobs[n].op = "refresh" /\ DOMAIN jobs[n].asks \in Questions(jobs[n].op) /\ refs' = refs
    BY DEF RefreshAlone, Hands, Hand, Handler
  <2> QED
    BY <2>1, OtherAsks DEF Running
<1>3. a \in StoreRequests /\ DOMAIN jobs[n].asks \subseteq StoreRequests
  BY <1>2 DEF StoreRequests
<1>4. PICK j : LeftOf(n, a, j)
  BY <1>1, <1>2, <1>3, TakeLeaves
<1>5. /\ stores' \in Stores
      /\ stores'.profilesLoading => stores.profilesLoading /\ a # "models"
      /\ stores'.statusLoading => stores.statusLoading /\ a # "status"
  BY <1>1, <1>2, <1>3, RefreshedType
<1>6. /\ Hands' /\ SavedWhereOpened' /\ StoresBusy'
      /\ \A m \in Running : m # n => m \in Running' /\ jobs'[m] = jobs[m]
  BY <1>2, <1>4, <1>5, TakeKeeps
<1>7. refs' \in RefsOf(page) /\ FormOpened'
  BY <1>2 DEF Shapes, FormOpened
<1>8. ~AsksFor(n, TaskList) /\ ~AsksFor(n, BiliWatchLoad) /\ ~AsksFor(n, {"tools"})
  BY <1>3 DEF AsksFor, StoreRequests, TaskList, BiliWatchLoad
<1>9. TasksBusy => TasksBusy'
  BY <1>2, <1>6, <1>8 DEF TasksBusy, AsksFor
<1>10. ModelsBusy => ModelsBusy'
  BY <1>2, <1>6 DEF ModelsBusy, Submits
<1>11. KnowledgeBusy => KnowledgeBusy'
  BY <1>2, <1>6 DEF KnowledgeBusy
<1>12. BiliWatchBusy => BiliWatchBusy'
  BY <1>2, <1>6, <1>8 DEF BiliWatchBusy, AsksFor, BiliWatchSaves
<1>13. MonitorBusy => MonitorBusy'
  BY <1>2, <1>6, <1>8 DEF MonitorBusy, AsksFor
<1>14. BusyMeansAsked'
  BY <1>6, <1>9, <1>10, <1>11, <1>12, <1>13 DEF BusyMeansAsked
<1> QED
  BY <1>5, <1>6, <1>7, <1>14 DEF Kept
------------------------------------------------------------------------------
(* A page that has just been mounted.                                        *)

PageBusy ==
    CASE page = "scheduled-tasks" -> TasksBusy
      [] page = "models" -> ModelsBusy
      [] page = "knowledge" -> KnowledgeBusy
      [] page = "biliwatch" -> BiliWatchBusy
      [] OTHER -> MonitorBusy

Fresh ==
    /\ page \in Routes /\ refs = Setup(page)
    /\ \E n \in Running : jobs[n] = MountJob(page, visit)

LEMMA FreshBusy == Fresh => FormOpened /\ PageBusy /\ refs \in RefsOf(page)
<1> SUFFICES ASSUME Fresh
             PROVE  FormOpened /\ PageBusy /\ refs \in RefsOf(page)
  OBVIOUS
<1>1. PICK n \in Running : jobs[n] = MountJob(page, visit)
  BY DEF Fresh
<1>2. jobs[n].visit = visit /\ DOMAIN jobs[n].asks = OnMounted(page).asks
  BY <1>1, AskedStands DEF MountJob
<1>3. CASE page = "scheduled-tasks"
  <2>1. refs = TasksSetup /\ DOMAIN jobs[n].asks = TaskList
    BY <1>2, <1>3 DEF Fresh, Setup, OnMounted, TasksOnMounted
  <2>2. TasksBusy
    BY <1>2, <2>1 DEF TasksBusy, AsksFor, TasksSetup
  <2>3. refs \in TasksRefs
    BY <2>1, RunsAssumption DEF TasksSetup, TasksRefs, TaskRuns, EmptyForm, ScheduledTaskRequest
  <2> QED
    BY <1>3, <2>1, <2>2, <2>3 DEF PageBusy, FormOpened, RefsOf, TasksSetup, EmptyForm
<1>4. CASE page = "models"
  <2>1. refs = ModelsSetup
    BY <1>4 DEF Fresh, Setup
  <2> QED
    BY <1>4, <2>1 DEF PageBusy, FormOpened, RefsOf, ModelsSetup, ModelsBusy, ModelsRefs,
                      ModelDialogs, BlankProfile, ModelProfileInput
<1>5. CASE page = "knowledge"
  <2>1. refs = KnowledgeSetup
    BY <1>5 DEF Fresh, Setup
  <2>2. refs \in KnowledgeRefs
    BY <2>1, YousaAssumption DEF KnowledgeSetup, KnowledgeRefs, KnowledgeCollections,
                                 KnowledgeDocuments, KnowledgeSearchResults
  <2> QED
    BY <1>5, <2>1, <2>2 DEF PageBusy, FormOpened, RefsOf, KnowledgeSetup, KnowledgeBusy
<1>6. CASE page = "biliwatch"
  <2>1. refs = BiliWatchSetup /\ DOMAIN jobs[n].asks = BiliWatchLoad
    BY <1>2, <1>6 DEF Fresh, Setup, OnMounted, BiliWatchOnMounted
  <2>2. BiliWatchBusy
    BY <1>2, <2>1 DEF BiliWatchBusy, AsksFor, BiliWatchSetup
  <2>3. refs \in BiliWatchRefs
    BY <2>1, DeliveriesAssumption DEF BiliWatchSetup, BiliWatchRefs, BiliWatchSubscriptions,
         BiliWatchDeliveries, EmptySubscription, BiliWatchSubscriptionRequest
  <2> QED
    BY <1>6, <2>1, <2>2, <2>3 DEF PageBusy, FormOpened, RefsOf, BiliWatchSetup, EmptySubscription
<1>7. CASE page = "tools"
  <2>1. refs = ToolsSetup /\ DOMAIN jobs[n].asks = {"tools"}
    BY <1>2, <1>7 DEF Fresh, Setup, OnMounted, ToolsOnMounted
  <2> QED
    BY <1>2, <1>7, <2>1 DEF PageBusy, FormOpened, RefsOf, MonitorBusy, AsksFor, ToolsSetup
<1>8. CASE page \in {"overview", "logs", "settings"}
  <2>1. /\ page = "overview" => refs = OverviewSetup
        /\ page = "logs" => refs = LogsSetup
        /\ page = "settings" => refs = SettingsSetup
    BY <1>8 DEF Fresh, Setup
  <2>2. 0 \in LogEntries
    BY LogsAssumption DEF LogEntries
  <2>3. page = "overview" => refs \in RefsOf(page)
    <3>1. RefsOf("overview") = [logs : LogEntries, actions : OneBotActionRecords \union {None}]
      BY DEF RefsOf
    <3>2. OverviewSetup \in [logs : LogEntries, actions : OneBotActionRecords \union {None}]
      BY <2>2 DEF OverviewSetup
    <3> QED
      BY <2>1, <3>1, <3>2
  <2>4. page = "logs" => refs \in RefsOf(page)
    <3>1. RefsOf("logs") = [logs : LogEntries, live : BOOLEAN, error : BOOLEAN]
      BY DEF RefsOf
    <3>2. LogsSetup \in [logs : LogEntries, live : BOOLEAN, error : BOOLEAN]
      BY <2>2 DEF LogsSetup
    <3> QED
      BY <2>1, <3>1, <3>2
  <2>5. page = "settings" => refs \in RefsOf(page)
    <3>1. RefsOf("settings") = [config : DashboardConfig \union {None}]
      BY DEF RefsOf
    <3>2. SettingsSetup \in [config : DashboardConfig \union {None}]
      BY DEF SettingsSetup
    <3> QED
      BY <2>1, <3>1, <3>2
  <2> QED
    BY <1>8, <2>3, <2>4, <2>5 DEF PageBusy, FormOpened, MonitorBusy
<1> QED
  BY <1>3, <1>4, <1>5, <1>6, <1>7, <1>8 DEF Fresh, Routes

\* The first handler of a page.
LEMMA MountHandler ==
    ASSUME NEW p \in Routes, NEW number
    PROVE  LET j == MountJob(p, number) IN
           /\ Handler(j) /\ Saved(j) /\ j.op \in OpsOf(p) /\ j.op \in Ops \ {"idle"}
           /\ j.visit = number
           /\ \A a \in DOMAIN j.asks : j.asks[a] = Sent
           /\ p = "models" => {"models", "status"} \subseteq DOMAIN j.asks
           /\ p = "overview" => "status" \in DOMAIN j.asks
<1> DEFINE j == MountJob(p, number)
           asks == OnMounted(p).asks
           op == OnMounted(p).op
<1>1. /\ j.op = op /\ j.id = None /\ j.form = None /\ j.visit = number /\ j.asks = Asked(asks)
      /\ j = [op |-> j.op, id |-> j.id, form |-> j.form, visit |-> j.visit, asks |-> j.asks]
  BY DEF MountJob
<1>2. /\ op \in OpsOf(p) /\ op \in Ops \ {"idle", "save", "saveSubscription", "submitEdit", "submitSingle"}
      /\ asks \in Questions(op) /\ \A a \in asks : Fit(j, a)
      /\ p = "models" => {"models", "status"} \subseteq asks
      /\ p = "overview" => "status" \in asks
  <2>0. j.id = None /\ j.form = None
    BY <1>1
  <2> HIDE DEF j
  <2>1. CASE p = "scheduled-tasks"
    <3>1. op = "load" /\ asks = TaskList
      BY <2>1 DEF OnMounted, TasksOnMounted
    <3>2. "load" \in TaskOps /\ TaskList \in TaskQuestions("load")
      BY DEF TaskOps, TaskQuestions
    <3>3. \A a \in TaskList : Fit(j, a)
      BY <2>0 DEF TaskList, Fit, ModelRequests, KnowledgeRequests, BiliWatchRequests, BiliWatchLoad
    <3> QED
      BY <2>1, <3>1, <3>2, <3>3, TaskQuestion
  <2>2. CASE p = "models"
    <3>1. op = "loadModels" /\ asks = ModelsLoad
      BY <2>2 DEF OnMounted, ModelsOnMounted
    <3>2. "loadModels" \in ModelPageOps /\ ModelsLoad \in ModelQuestions("loadModels")
      BY DEF ModelPageOps, ModelQuestions
    <3>3. \A a \in ModelsLoad : Fit(j, a)
      BY ModelsLoadFit DEF ModelsLoad, StoreRequests
    <3>4. {"models", "status"} \subseteq ModelsLoad
      BY DEF ModelsLoad
    <3> QED
      BY <2>2, <3>1, <3>2, <3>3, <3>4, ModelQuestion
  <2>3. CASE p = "knowledge"
    <3>1. op = "collections" /\ asks = {"knowledgeBases"}
      BY <2>3 DEF OnMounted, KnowledgeOnMounted
    <3>2. /\ "collections" \in KnowledgeOps /\ "knowledgeBases" \in KnowledgeRequests
          /\ {"knowledgeBases"} \in KnowledgeQuestions("collections")
      BY DEF KnowledgeOps, KnowledgeQuestions, KnowledgeRequests
    <3>3. Fit(j, "knowledgeBases")
      BY <3>2, KnowledgeFit
    <3> QED
      BY <2>3, <3>1, <3>2, <3>3, KnowledgeQuestion
  <2>4. CASE p = "biliwatch"
    <3>1. op = "loadBiliWatch" /\ asks = BiliWatchLoad
      BY <2>4 DEF OnMounted, BiliWatchOnMounted
    <3>2. /\ "loadBiliWatch" \in BiliWatchOps /\ BiliWatchLoad \subseteq BiliWatchRequests
          /\ BiliWatchLoad \in BiliWatchQuestions("loadBiliWatch")
      BY DEF BiliWatchOps, BiliWatchQuestions, BiliWatchRequests
    <3>3. \A a \in BiliWatchLoad : Fit(j, a)
      BY <2>0, <3>2, BiliWatchFit DEF BiliWatchLoad
    <3> QED
      BY <2>4, <3>1, <3>2, <3>3, BiliWatchQuestion
  <2>5. CASE p \in MonitorPages
    <3>1. /\ op \in MonitorOps /\ op \in OpsOf(p) /\ asks \in MonitorQuestions(op)
          /\ p = "overview" => "status" \in asks
      BY <2>5 DEF MonitorPages, MonitorOps, OpsOf, MonitorQuestions, OnMounted, OverviewOnMounted,
                  OverviewLoad, LogsOnMounted, ToolsOnMounted, SettingsOnMounted
    <3>2. asks \subseteq MonitorRequests \union StoreRequests
      BY <3>1 DEF MonitorQuestions, MonitorOps, MonitorRequests, StoreRequests, OverviewLoad
    <3>3. \A a \in asks : Fit(j, a)
      BY <3>2, MonitorFit
    <3>4. op \notin {"save", "saveSubscription", "submitEdit", "submitSingle"} /\ p # "models"
      BY <2>5, <3>1 DEF MonitorOps, MonitorPages
    <3> QED
      BY <3>1, <3>3, <3>4, MonitorQuestion
  <2> QED
    BY <2>1, <2>2, <2>3, <2>4, <2>5 DEF Routes, MonitorPages
<1> HIDE DEF j, op, asks
<1>3. Handler(j)
  BY <1>1, <1>2, AskedStands DEF Handler
<1> QED
  BY <1>1, <1>2, <1>3, AskedStands DEF Saved, j

LEMMA NavigateKeeps ==
    ASSUME IInv, NEW p \in Routes, Navigate(p)
    PROVE  IInv'
<1> USE DEF IInv
<1> DEFINE m == CHOOSE k \in Free : TRUE
           j == MountJob(p, visit + 1)
<1>1. /\ Free # {} /\ page' = p /\ visit' = visit + 1 /\ refs' = Setup(p) /\ server' = server
      /\ stores' = MountStores(p, CloseSidebar) /\ jobs' = [jobs EXCEPT ![m] = j]
      /\ timer' = SetInterval(p, visit + 1, ClearInterval)
  BY DEF Navigate
<1>2. m \in Slots /\ jobs[m].op = "idle" /\ m \notin Running
  <2>1. m \in Free
    BY <1>1
  <2> QED
    BY <2>1 DEF Free, Running
<1> HIDE DEF m
<1>3. /\ Handler(j) /\ Saved(j) /\ j.op \in OpsOf(p) /\ j.op # "idle" /\ j.visit = visit + 1
      /\ \A a \in DOMAIN j.asks : j.asks[a] = Sent
      /\ p = "models" => {"models", "status"} \subseteq DOMAIN j.asks
      /\ p = "overview" => "status" \in DOMAIN j.asks
  BY MountHandler
<1> HIDE DEF j
<1>4. visit \in Nat \ {0}
  BY DEF Shapes
<1>5. /\ jobs' = [k \in Slots |-> jobs'[k]] /\ jobs'[m] = j
      /\ \A k \in Slots : k # m => jobs'[k] = jobs[k]
  BY <1>1, <1>2 DEF Hands
<1>6. /\ m \in Running'
      /\ \A k \in Running : k \in Running' /\ jobs'[k] = jobs[k]
      /\ \A k \in Running' : k # m => k \in Running /\ jobs'[k] = jobs[k]
  BY <1>2, <1>3, <1>5 DEF Running
<1>7. Hands'
  <2>1. ASSUME NEW k \in Slots
        PROVE  Hand(jobs[k])'
    <3>1. CASE k = m
      BY <1>1, <1>3, <1>4, <1>5, <3>1 DEF Hand
    <3>2. CASE k # m
      <4>1. Hand(jobs[k]) /\ jobs'[k] = jobs[k]
        BY <1>5, <3>2 DEF Hands
      <4>2. jobs[k].visit \in 0..visit
        BY <4>1 DEF Hand
      <4>3. jobs[k].visit \in 0..(visit + 1) /\ jobs[k].visit # visit + 1
        BY <1>4, <4>2
      <4> QED
        BY <1>1, <4>1, <4>3 DEF Hand
    <3> QED
      BY <3>1, <3>2
  <2> QED
    BY <1>5, <2>1 DEF Hands
<1>8. SavedWhereOpened'
  <2>1. \A k \in Running' : Saved(jobs'[k])
    BY <1>3, <1>5, <1>6, SavedJobs
  <2> QED
    BY <2>1 DEF SavedWhereOpened, Saved
<1>9. /\ stores' \in Stores
      /\ stores'.profilesLoading => stores.profilesLoading \/ p = "models"
      /\ stores'.statusLoading => stores.statusLoading \/ p \in {"models", "overview"}
  <2> DEFINE s == CloseSidebar
  <2>1. /\ s \in Stores /\ s.profilesLoading = stores.profilesLoading
        /\ s.statusLoading = stores.statusLoading
    BY DEF Shapes, CloseSidebar, Stores
  <2>2. stores' = MountStores(p, s)
    BY <1>1
  <2> HIDE DEF s
  <2>3. CASE p = "overview"
    BY <2>1, <2>2, <2>3 DEF MountStores, RefreshRuntime, Stores
  <2>4. CASE p = "models"
    BY <2>1, <2>2, <2>4 DEF MountStores, RefreshRuntime, RefreshModels, Stores
  <2>5. CASE p \notin {"overview", "models"}
    BY <2>1, <2>2, <2>5 DEF MountStores
  <2> QED
    BY <2>3, <2>4, <2>5
<1>10. StoresBusy'
  <2>1. \A a : Awaited(a) => Awaited(a)'
    BY <1>6 DEF Awaited
  <2>2. \A a \in DOMAIN j.asks : Awaited(a)'
    BY <1>3, <1>5, <1>6 DEF Awaited, Sent, Taken
  <2>3. /\ stores.profilesLoading => Awaited("models")
        /\ stores.statusLoading => Awaited("status")
    BY StoresAwaited DEF BusyMeansAsked
  <2>4. stores'.profilesLoading => Awaited("models")'
    BY <1>3, <1>9, <2>1, <2>2, <2>3
  <2>5. stores'.statusLoading => Awaited("status")'
    BY <1>3, <1>9, <2>1, <2>2, <2>3
  <2> QED
    BY <2>4, <2>5 DEF StoresBusy, Awaited
<1>11. Fresh'
  <2>1. page' \in Routes /\ refs' = Setup(page')
    BY <1>1
  <2>2. j = MountJob(page', visit')
    BY <1>1 DEF j
  <2>3. jobs'[m] = MountJob(page, visit)'
    BY <1>5, <2>2 DEF MountJob
  <2>4. refs' = Setup(page)'
    BY <2>1 DEF Setup, OverviewSetup, ModelsSetup, ToolsSetup, TasksSetup, KnowledgeSetup,
                BiliWatchSetup, LogsSetup, SettingsSetup
  <2> QED
    BY <1>6, <2>1, <2>3, <2>4 DEF Fresh
<1>12. FormOpened' /\ PageBusy' /\ (refs \in RefsOf(page))'
  BY <1>11, FreshBusy, PTL
<1>13. Shapes'
  BY <1>1, <1>4, <1>9, <1>12 DEF Shapes, SetInterval, ClearInterval
<1> QED
  BY <1>7, <1>8, <1>10, <1>12, <1>13 DEF PageBusy, BusyMeansAsked
------------------------------------------------------------------------------
(* The whole dashboard.                                                      *)

LEMMA KeptIs ==
    ASSUME IInv, Kept, stores' \in Stores, server' \in Tables, UNCHANGED <<page, visit, timer>>
    PROVE  IInv'
<1>1. Shapes'
  BY DEF IInv, Shapes, Kept, RefsOf
<1> QED
  BY <1>1 DEF IInv, Kept

\* Nothing that a handler or a flag is about changes.
LEMMA OthersKeep ==
    ASSUME IInv, UNCHANGED <<page, visit, refs, jobs, timer>>, server' \in Tables,
           stores' \in Stores, stores'.profilesLoading = stores.profilesLoading,
           stores'.statusLoading = stores.statusLoading
    PROVE  IInv'
<1> USE DEF IInv
<1>1. Hands' /\ SavedWhereOpened' /\ StoresBusy' /\ Running' = Running
  BY OnlyRefs
<1>2. refs' \in RefsOf(page) /\ FormOpened'
  BY DEF Shapes, FormOpened
<1>3. TasksBusy => TasksBusy'
  BY <1>1 DEF TasksBusy, AsksFor
<1>4. ModelsBusy => ModelsBusy'
  BY <1>1 DEF ModelsBusy
<1>5. KnowledgeBusy => KnowledgeBusy'
  BY <1>1 DEF KnowledgeBusy
<1>6. BiliWatchBusy => BiliWatchBusy'
  BY <1>1 DEF BiliWatchBusy, AsksFor
<1>7. MonitorBusy => MonitorBusy'
  BY <1>1 DEF MonitorBusy, AsksFor
<1>8. BusyMeansAsked'
  BY <1>1, <1>3, <1>4, <1>5, <1>6, <1>7 DEF BusyMeansAsked
<1> QED
  BY <1>1, <1>2, <1>8, KeptIs DEF Kept

LEMMA ElsewhereKeeps ==
    ASSUME IInv, Elsewhere
    PROVE  IInv'
<1>1. server \in Tables /\ stores \in Stores
  BY DEF IInv, Shapes
<1>2. UNCHANGED <<page, visit, refs, jobs, timer, stores>>
  BY DEF Elsewhere
<1>3. server' \in Tables
  <2>1. ASSUME NEW r \in Rows, NEW t \in ScheduledTask \union {None},
               server' = [server EXCEPT !.tasks[r] = t, !.runs[r] = 0]
        PROVE  server' \in Tables
    <3> DEFINE tasks == [server.tasks EXCEPT ![r] = t]
               runs == [server.runs EXCEPT ![r] = 0]
    <3>1. server' = [server EXCEPT !.tasks = tasks, !.runs = runs]
      BY <1>1, <2>1 DEF Tables
    <3>2. tasks \in [Rows -> ScheduledTask \union {None}] /\ runs \in [Rows -> 0..MaxRuns]
      BY <1>1, RunsAssumption DEF Tables
    <3> HIDE DEF tasks, runs
    <3> QED
      BY <1>1, <3>1, <3>2 DEF Tables
  <2>2. ASSUME NEW r \in Rows \union {None}, server' = [server EXCEPT !.active = r]
        PROVE  server' \in Tables
    BY <1>1, <2>2 DEF Tables
  <2>3. ASSUME server.deliveries < MaxDeliveries, server' = [server EXCEPT !.deliveries = @ + 1]
        PROVE  server' \in Tables
    <3> DEFINE new == server.deliveries + 1
    <3>1. new \in BiliWatchDeliveries /\ server' = [server EXCEPT !.deliveries = new]
      BY <1>1, <2>3, DeliveriesAssumption DEF Tables, BiliWatchDeliveries
    <3> HIDE DEF new
    <3> QED
      BY <1>1, <3>1 DEF Tables
  <2>4. ASSUME server.logs < MaxLogs, server' = [server EXCEPT !.logs = @ + 1]
        PROVE  server' \in Tables
    <3> DEFINE new == server.logs + 1
    <3>1. new \in LogEntries /\ server' = [server EXCEPT !.logs = new]
      BY <1>1, <2>4, LogsAssumption DEF Tables, LogEntries
    <3> HIDE DEF new
    <3> QED
      BY <1>1, <3>1 DEF Tables
  <2> QED
    BY <2>1, <2>2, <2>3, <2>4 DEF Elsewhere
<1> QED
  BY <1>1, <1>2, <1>3, OthersKeep

LEMMA MenuKeeps ==
    ASSUME IInv, ToggleMenu \/ CloseMenu
    PROVE  IInv'
<1>1. server \in Tables /\ stores \in Stores
  BY DEF IInv, Shapes
<1>2. UNCHANGED <<server, page, visit, refs, jobs, timer>>
  BY DEF ToggleMenu, CloseMenu
<1>3. /\ stores' \in Stores /\ stores'.profilesLoading = stores.profilesLoading
      /\ stores'.statusLoading = stores.statusLoading
  BY <1>1 DEF ToggleMenu, CloseMenu, ToggleSidebar, CloseSidebar, Stores
<1> QED
  BY <1>1, <1>2, <1>3, OthersKeep

LEMMA AskKeeps ==
    ASSUME IInv, Ask
    PROVE  IInv'
<1>1. /\ Free # {} /\ UNCHANGED <<server, page, visit, timer>>
      /\ server \in Tables /\ stores \in Stores
  BY DEF Ask, Act, IInv, Shapes
<1>2. Kept /\ stores' \in Stores
  <2>1. CASE page = "scheduled-tasks" /\ TasksAsk /\ UNCHANGED stores
    BY <1>1, <2>1, TasksAskKeeps, TasksAreKept
  <2>2. CASE page = "models" /\ ModelsAsk
    BY <1>1, <2>2, ModelsAskKeeps, ModelsAreKept
  <2>3. CASE page = "knowledge" /\ KnowledgeAsk /\ UNCHANGED stores
    BY <1>1, <2>3, KnowledgeAskKeeps, KnowledgeIsKept
  <2>4. CASE page = "biliwatch" /\ BiliWatchAsk /\ UNCHANGED stores
    BY <1>1, <2>4, BiliWatchAskKeeps, BiliWatchIsKept
  <2>5. CASE MonitorAsk
    BY <1>1, <2>5, MonitorAskKeeps
  <2> QED
    BY <2>1, <2>2, <2>3, <2>4, <2>5 DEF Ask
<1> QED
  BY <1>1, <1>2, KeptIs

LEMMA OpenOrCloseKeeps ==
    ASSUME IInv, OpenOrClose
    PROVE  IInv'
<1>1. /\ UNCHANGED <<server, page, visit, timer>>
      /\ server \in Tables /\ stores \in Stores
  BY DEF OpenOrClose, IInv, Shapes
<1>2. Kept /\ stores' \in Stores
  <2>1. CASE page = "scheduled-tasks" /\ TasksOpenOrClose /\ UNCHANGED stores
    BY <1>1, <2>1, TasksOpenKeeps, TasksAreKept
  <2>2. CASE page = "models" /\ ModelsOpenOrClose
    BY <1>1, <2>2, ModelsOpenKeeps, ModelsAreKept
  <2>3. CASE page = "biliwatch" /\ BiliWatchOpenOrClose /\ UNCHANGED stores
    BY <1>1, <2>3, BiliWatchOpenKeeps, BiliWatchIsKept
  <2>4. CASE page = "logs" /\ PauseLogs /\ UNCHANGED stores
    BY <1>1, <2>4, PauseKeeps
  <2> QED
    BY <2>1, <2>2, <2>3, <2>4 DEF OpenOrClose
<1> QED
  BY <1>1, <1>2, KeptIs

LEMMA IntervalKeeps ==
    ASSUME IInv, Interval
    PROVE  IInv'
<1>1. /\ page = "logs" /\ Free # {} /\ ReadLogs /\ UNCHANGED <<server, page, visit, stores, timer>>
      /\ server \in Tables /\ stores \in Stores
  BY DEF Interval, Tick, IInv, Shapes
<1> QED
  BY <1>1, LogsRead, KeptIs

LEMMA ResumeKeeps ==
    ASSUME IInv, NEW n \in Slots, Resume(n)
    PROVE  IInv'
<1>1. /\ UNCHANGED <<server, page, visit, timer>>
      /\ server \in Tables /\ stores \in Stores
  BY DEF Resume, IInv, Shapes
<1>2. Kept /\ stores' \in Stores
  <2>1. CASE TasksResume(n) /\ UNCHANGED stores
    BY <1>1, <2>1, TasksResumeKeeps
  <2>2. CASE ModelsResume(n)
    BY <1>1, <2>2, ModelsResumeKeeps
  <2>3. CASE KnowledgeResume(n) /\ UNCHANGED stores
    BY <1>1, <2>3, KnowledgeResumeKeeps
  <2>4. CASE BiliWatchResume(n) /\ UNCHANGED stores
    BY <1>1, <2>4, BiliWatchResumeKeeps
  <2>5. CASE MonitorResume(n)
    BY <1>1, <2>5, MonitorResumeKeeps
  <2>6. CASE RefreshAlone(n)
    BY <1>1, <2>6, RefreshAloneKeeps
  <2> QED
    BY <2>1, <2>2, <2>3, <2>4, <2>5, <2>6 DEF Resume
<1> QED
  BY <1>1, <1>2, KeptIs

LEMMA StartIsOne == Init => IInv
<1> SUFFICES ASSUME Init
             PROVE  IInv
  OBVIOUS
<1>1. page \in Routes /\ visit = 1 /\ timer \in {0, 1} /\ refs = Setup(page)
  BY BoundsAssumption DEF Init, SetInterval
<1>2. server \in Tables
  <2>1. OldValue \in Values /\ (CHOOSE c \in Collections : TRUE) \in Collections
    BY ValuesAssumption, YousaAssumption DEF OldValue
  <2>2. 0 \in 0..MaxRuns /\ 0 \in BiliWatchDeliveries /\ 1 \in LogEntries
    BY RunsAssumption, DeliveriesAssumption, LogsAssumption DEF BiliWatchDeliveries, LogEntries
  <2> DEFINE tasks == Only1([def |-> OldValue, enabled |-> TRUE])
             runs == [r \in Rows |-> 0]
             profiles == Only1(OldValue)
             documents == Only1(CHOOSE c \in Collections : TRUE)
             retrieval == [k \in Kinds |-> FALSE]
             config == [settings |-> OldValue, cookie |-> FALSE]
  <2>3. tasks \in [Rows -> ScheduledTask \union {None}]
    BY <2>1 DEF Only1, ScheduledTask
  <2>4. profiles \in [Rows -> Values \union {None}] /\ profiles \in BiliWatchSubscriptions
    BY <2>1 DEF Only1, BiliWatchSubscriptions
  <2>5. documents \in KnowledgeDocuments
    BY <2>1 DEF Only1, KnowledgeDocuments
  <2>6. /\ runs \in [Rows -> 0..MaxRuns] /\ retrieval \in KnowledgeModelConfig
        /\ config \in BiliWatchConfig /\ Collections \in KnowledgeCollections
    BY <2>1, <2>2 DEF KnowledgeModelConfig, BiliWatchConfig, KnowledgeCollections
  <2>7. server = [tasks |-> tasks, runs |-> runs, profiles |-> profiles, active |-> None,
                  collections |-> Collections, documents |-> documents, retrieval |-> retrieval,
                  config |-> config, subscriptions |-> profiles, deliveries |-> 0, logs |-> 1]
    BY DEF Init, InitialServer
  <2> HIDE DEF tasks, runs, profiles, documents, retrieval, config
  <2> QED
    BY <2>2, <2>3, <2>4, <2>5, <2>6, <2>7 DEF Tables
<1> DEFINE s == RefreshRuntime(StoresSetup)
<1>3. /\ s \in Stores /\ ~s.profilesLoading /\ s.statusLoading
  BY DEF RefreshRuntime, StoresSetup, Stores, NoProfiles, ModelProfiles
<1>4. stores = MountStores(page, s)
  BY DEF Init
<1> HIDE DEF s
<1>5. stores \in Stores /\ (stores.profilesLoading => page = "models")
  <2>1. CASE page = "overview"
    BY <1>3, <1>4, <2>1 DEF MountStores, RefreshRuntime, Stores
  <2>2. CASE page = "models"
    BY <1>3, <1>4, <2>2 DEF MountStores, RefreshRuntime, RefreshModels, Stores
  <2>3. CASE page \notin {"overview", "models"}
    BY <1>3, <1>4, <2>3 DEF MountStores
  <2> QED
    BY <2>1, <2>2, <2>3
<1> DEFINE j == MountJob(page, 1)
<1>6. /\ Handler(j) /\ Saved(j) /\ j.op \in OpsOf(page) /\ j.op # "idle" /\ j.visit = 1
      /\ \A a \in DOMAIN j.asks : j.asks[a] = Sent
      /\ page = "models" => {"models", "status"} \subseteq DOMAIN j.asks
  BY <1>1, MountHandler
<1> HIDE DEF j
<1>7. /\ Handler(AppRefresh) /\ Saved(AppRefresh) /\ AppRefresh.op = "refresh"
      /\ AppRefresh.visit = 0 /\ "status" \in DOMAIN AppRefresh.asks
      /\ AppRefresh.asks["status"] = Sent
  <2>1. /\ AppRefresh.op = "refresh" /\ AppRefresh.visit = 0 /\ AppRefresh.asks = Asked({"status"})
        /\ AppRefresh = [op |-> AppRefresh.op, id |-> AppRefresh.id, form |-> AppRefresh.form,
                         visit |-> AppRefresh.visit, asks |-> AppRefresh.asks]
    BY DEF AppRefresh
  <2>2. {"status"} \in Questions("refresh") /\ "refresh" \in Ops
    <3>1. "refresh" \notin TaskOps \union ModelPageOps
      BY DEF TaskOps, ModelPageOps, ModelOps, Submits
    <3>2. "refresh" \notin KnowledgeOps \union BiliWatchOps \union MonitorOps
      BY DEF KnowledgeOps, BiliWatchOps, BiliWatchSaves, MonitorOps
    <3> QED
      BY <3>1, <3>2 DEF Questions, Ops
  <2>3. \A a \in {"status"} : Fit(AppRefresh, a)
    BY ModelsLoadFit DEF StoreRequests
  <2>4. Handler(AppRefresh)
    BY <2>1, <2>2, <2>3, AskedStands DEF Handler
  <2> QED
    BY <2>1, <2>4, AskedStands DEF Saved
<1>8. /\ 1 \in Slots /\ 2 \in Slots
      /\ jobs = [n \in Slots |-> CASE n = 1 -> AppRefresh [] n = 2 -> j [] OTHER -> Idle]
  BY BoundsAssumption DEF Slots, Init, j
<1>9. /\ jobs[1] = AppRefresh /\ jobs[2] = j
      /\ \A n \in Slots \ {1, 2} : jobs[n] = Idle
      /\ jobs = [n \in Slots |-> jobs[n]]
  BY <1>8
<1>10. /\ 1 \in Running /\ 2 \in Running
       /\ \A n \in Running : n \in {1, 2}
  BY <1>1, <1>6, <1>7, <1>8, <1>9, IdleHand DEF Running
<1>11. Hands
  <2>1. Hand(AppRefresh) /\ Hand(j)
    BY <1>1, <1>6, <1>7 DEF Hand
  <2>2. Hand(Idle)
    BY <1>1, IdleHand
  <2> QED
    BY <1>9, <2>1, <2>2 DEF Hands
<1>12. SavedWhereOpened
  BY <1>6, <1>7, <1>9, <1>10, SavedJobs
<1>13. StoresBusy
  <2>1. Sent # Taken
    BY DEF Sent, Taken
  <2>2. Awaited("status")
    BY <1>7, <1>9, <1>10, <2>1 DEF Awaited
  <2>3. page = "models" => Awaited("models")
    BY <1>6, <1>9, <1>10, <2>1 DEF Awaited
  <2> QED
    BY <1>5, <2>2, <2>3, StoresAwaited
<1>14. FormOpened /\ PageBusy /\ refs \in RefsOf(page)
  BY <1>1, <1>9, <1>10, FreshBusy DEF Fresh, j
<1> QED
  BY <1>1, <1>2, <1>5, <1>11, <1>12, <1>13, <1>14 DEF IInv, Shapes, BusyMeansAsked, PageBusy

LEMMA StepKeeps == IInv /\ [Next]_<<vars, timer>> => IInv'
<1> SUFFICES ASSUME IInv, [Next]_<<vars, timer>>
             PROVE  IInv'
  OBVIOUS
<1>1. CASE UNCHANGED <<vars, timer>>
  <2>1. /\ UNCHANGED <<page, visit, refs, jobs, timer, stores>>
        /\ server' \in Tables /\ stores' \in Stores
    BY <1>1 DEF vars, IInv, Shapes
  <2> QED
    BY <2>1, OthersKeep
<1>2. ASSUME NEW p \in Routes, Navigate(p)
      PROVE  IInv'
  BY <1>2, NavigateKeeps
<1>3. ASSUME NEW n \in Slots, Serve(n) \/ Lose(n) \/ Resume(n)
      PROVE  IInv'
  BY <1>3, ServeKeeps, LoseKeeps, ResumeKeeps
<1>4. CASE ToggleMenu \/ CloseMenu
  BY <1>4, MenuKeeps
<1>5. CASE Ask
  BY <1>5, AskKeeps
<1>6. CASE OpenOrClose
  BY <1>6, OpenOrCloseKeeps
<1>7. CASE Interval
  BY <1>7, IntervalKeeps
<1>8. CASE Elsewhere
  BY <1>8, ElsewhereKeeps
<1> QED
  BY <1>1, <1>2, <1>3, <1>4, <1>5, <1>6, <1>7, <1>8 DEF Next

(* The handlers under way, the refs of the page that is shown, the stores and  *)
(* the flags always stand to each other as the page modules' handlers leave    *)
(* them: the inductive invariant of the dashboard.                             *)
THEOREM DashboardInductive == Spec => []IInv
BY StartIsOne, StepKeeps, PTL DEF Spec

(* The refs of the mounted page, the stores and the handlers have their types: *)
(* no handler of a page that was left assigns to the page that is shown.       *)
THEOREM DashboardTypes == Spec => []TypeOK
<1>1. IInv => TypeOK
  <2> SUFFICES ASSUME IInv
               PROVE  TypeOK
    OBVIOUS
  <2>1. page \in Routes /\ timer \in {0, visit} /\ refs \in RefsOf(page) /\ stores \in Stores
    BY DEF IInv, Shapes
  <2>2. \A n \in Running : jobs[n].visit \in 0..visit
    BY DEF IInv, Hands, Hand, Running
  <2>3. /\ [profiles |-> stores.profiles, profilesLoading |-> stores.profilesLoading] \in ModelStore
        /\ [status |-> stores.status, statusLoading |-> stores.statusLoading,
            statusError |-> stores.statusError] \in RuntimeStore
        /\ [sidebarOpen |-> stores.sidebarOpen] \in UiStore
    BY <2>1 DEF Stores, ModelStore, RuntimeStore, UiStore
  <2>4. refs \in CASE page = "scheduled-tasks" -> TasksRefs
                   [] page = "models" -> ModelsRefs
                   [] page = "knowledge" -> KnowledgeRefs
                   [] page = "biliwatch" -> BiliWatchRefs
                   [] OTHER -> MonitorRefs
    BY <2>1 DEF RefsOf, MonitorRefs, Routes
  <2> QED
    BY <2>1, <2>2, <2>3, <2>4 DEF TypeOK
<1> QED
  BY <1>1, DashboardInductive, PTL

(* A spinner, or a button that is disabled, belongs to a request of this page   *)
(* that is under way, in any order of requests, answers and visits.            *)
THEOREM DashboardBusy == Spec => []BusyMeansAsked
<1>1. IInv => BusyMeansAsked
  BY DEF IInv
<1> QED
  BY <1>1, DashboardInductive, PTL

(* What a form saves goes to the row it was opened for, and a new row comes     *)
(* only from a form that was opened empty.                                     *)
THEOREM DashboardSaved == Spec => []SavedWhereOpened
<1>1. IInv => SavedWhereOpened
  BY DEF IInv
<1> QED
  BY <1>1, DashboardInductive, PTL
------------------------------------------------------------------------------
(* What a page shows at rest.                                                *)

\* What the page shows and reads again: the tables, and of the stores what it uses.
Things(p) ==
    CASE p = "scheduled-tasks" -> {"tasks"}
      [] p = "models" -> {"profiles", "status"}
      [] p = "knowledge" -> {"documents", "results"}
      [] p = "biliwatch" -> {"subscriptions"}
      [] p = "overview" -> {"status", "records"}
      [] p = "logs" -> {"logs"}
      [] p = "tools" -> {"tools"}
      [] p = "settings" -> {"config"}

\* A handler of visit v that has changed something, or does not know the collections yet,
\* will load page p again.
TaskChanges == {"save", "delete", "run", "toggle"}
BiliWatchChanges == BiliWatchSaves \union {"removeSubscription"}
Answered(j) == \A a \in DOMAIN j.asks : j.asks[a].is = "answer"
Owes(j, p, v) ==
    /\ j.visit = v
    /\ \/ /\ p = "scheduled-tasks" /\ j.op \in TaskChanges
          /\ DOMAIN j.asks # TaskList /\ Answered(j)
       \/ p = "models" /\ j.op \in ModelOps /\ DOMAIN j.asks # ModelsLoad /\ Answered(j)
       \/ /\ p = "knowledge"
          /\ DOMAIN j.asks = {"knowledgeBases"} /\ j.asks["knowledgeBases"] # Failure
       \/ p = "knowledge" /\ (\E a \in Changing : DOMAIN j.asks = {a}) /\ Answered(j)
       \/ /\ p = "biliwatch" /\ j.op \in BiliWatchChanges
          /\ DOMAIN j.asks # BiliWatchLoad /\ Answered(j)

\* The handler is reading t, and what it has been answered will be shown; a store takes
\* what it is answered whoever asked.
Reads(j, v, t) ==
    \/ t = "profiles" /\ "models" \in DOMAIN j.asks /\ j.asks["models"] # Taken
    \/ t = "status" /\ "status" \in DOMAIN j.asks /\ j.asks["status"] # Taken
    \/ /\ j.visit = v
       /\ \/ t = "tasks" /\ DOMAIN j.asks = TaskList
          \/ t = "documents" /\ DOMAIN j.asks = {"knowledgeDocuments"}
          \/ t = "results" /\ DOMAIN j.asks = {"searchKnowledge"}
          \/ t = "subscriptions" /\ DOMAIN j.asks = BiliWatchLoad
          \/ t = "records" /\ j.op = "loadOverview"
          \/ t = "logs" /\ DOMAIN j.asks = {"logs"}
          \/ t = "tools" /\ DOMAIN j.asks = {"tools"}
          \/ t = "config" /\ DOMAIN j.asks = {"config"}

\* The documents that the tables s have in collection c.
DocumentsIn(s, c) == [d \in Rows |-> IF s.documents[d] = c THEN c ELSE None]
ProfilesIn(s) == [rows |-> s.profiles, active |-> s.active]
StatusIn(s) == [model |-> s.active]

\* What it has read of t is what the tables s still hold; none of its requests failed.
Is(state, value) == state = Sent \/ state = Answer(value)
Right(j, t, r, s) ==
    /\ t = "tasks" => /\ Is(j.asks["scheduledTasks"], s.tasks)
                      /\ j.asks["scheduledTaskHandlers"] # Failure
    /\ t = "profiles" => Is(j.asks["models"], ProfilesIn(s))
    /\ t = "status" => Is(j.asks["status"], StatusIn(s))
    /\ t = "documents" => /\ j.id = r.selected
                          /\ Is(j.asks["knowledgeDocuments"], DocumentsIn(s, r.selected))
    /\ t = "results" => /\ j.id = r.selected
                        /\ \/ Is(j.asks["searchKnowledge"], None)
                           \/ Is(j.asks["searchKnowledge"], r.selected)
    /\ t = "subscriptions" => /\ Is(j.asks["biliWatchConfig"], s.config)
                              /\ Is(j.asks["biliWatchSubscriptions"], s.subscriptions)
                              /\ Is(j.asks["biliWatchDeliveries"], s.deliveries)
                              /\ j.asks["onebotBots"] # Failure
    /\ t = "records" => /\ Is(j.asks["logs"], s.logs) /\ Is(j.asks["onebotActions"], 0)
                        /\ j.asks["status"] # Failure
    /\ t = "logs" => Is(j.asks["logs"], s.logs)
    /\ t = "tools" => Is(j.asks["tools"], 0)
    /\ t = "config" => Is(j.asks["config"], 0)

Shows(t, r, st, s) ==
    /\ t = "tasks" => r.tasks = s.tasks
    /\ t = "profiles" => st.profiles = ProfilesIn(s)
    /\ t = "status" => st.status = StatusIn(s) /\ ~st.statusError
    /\ t = "documents" => r.documents = DocumentsIn(s, r.selected)
    /\ t = "results" => r.results \in {None, r.selected}
    /\ t = "subscriptions" => /\ r.config = s.config /\ r.subscriptions = s.subscriptions
                              /\ r.deliveries = s.deliveries
    /\ t = "records" => r.logs = s.logs /\ r.actions = 0
    /\ t = "logs" => r.logs = s.logs
    /\ t = "tools" => r.tools = 0
    /\ t = "config" => r.config = 0

Holding(t) ==
    /\ \A n \in Slots : Reads(jobs[n], visit, t) => Right(jobs[n], t, refs, server)
    /\ (\E n \in Slots : Reads(jobs[n], visit, t)) \/ Shows(t, refs, stores, server)

\* What a page that is sure will show at rest.
Settles ==
    /\ server.logs # 0
    /\ sure => \/ \E n \in Slots : Owes(jobs[n], page, visit)
               \/ \A t \in Things(page) : Holding(t)

------------------------------------------------------------------------------
(* Reading, showing and owing.                                               *)

AllThings == {"tasks", "profiles", "status", "documents", "results", "subscriptions", "records",
              "logs", "tools", "config"}

LEMMA ThingsOf ==
    /\ Things("scheduled-tasks") = {"tasks"} /\ Things("models") = {"profiles", "status"}
    /\ Things("knowledge") = {"documents", "results"} /\ Things("biliwatch") = {"subscriptions"}
    /\ Things("overview") = {"status", "records"} /\ Things("logs") = {"logs"}
    /\ Things("tools") = {"tools"} /\ Things("settings") = {"config"}
BY DEF Things

LEMMA ThingsKnown ==
    ASSUME page \in Routes
    PROVE  Things(page) \subseteq AllThings
BY ThingsOf DEF Routes, AllThings

\* What is read and shown of t is left alone; the search results may also go.
Same(t, r, q, st, su) ==
    /\ t = "tasks" => q.tasks = r.tasks
    /\ t = "profiles" => su.profiles = st.profiles
    /\ t = "status" => su.status = st.status /\ su.statusError = st.statusError
    /\ t = "documents" => q.documents = r.documents /\ q.selected = r.selected
    /\ t = "results" => q.selected = r.selected /\ q.results \in {r.results, None}
    /\ t = "subscriptions" => /\ q.config = r.config /\ q.subscriptions = r.subscriptions
                              /\ q.deliveries = r.deliveries
    /\ t = "records" => q.logs = r.logs /\ q.actions = r.actions
    /\ t = "logs" => q.logs = r.logs
    /\ t = "tools" => q.tools = r.tools
    /\ t = "config" => q.config = r.config

\* What is read of t is looked at with the same refs.
Looks(t, r, q) == t \in {"documents", "results"} => q.selected = r.selected

LEMMA SameStays ==
    ASSUME NEW t \in AllThings, NEW r, NEW q, NEW st, NEW su, NEW s, Same(t, r, q, st, su)
    PROVE  Looks(t, r, q) /\ (Shows(t, r, st, s) => Shows(t, q, su, s))
BY DEF AllThings, Same, Looks, Shows

LEMMA SameItself ==
    ASSUME NEW t, NEW r, NEW st
    PROVE  Same(t, r, r, st, st)
BY DEF Same

LEMMA LooksRight ==
    ASSUME NEW t, NEW r, NEW q, Looks(t, r, q), NEW j, NEW s, Right(j, t, r, s)
    PROVE  Right(j, t, q, s)
BY DEF Looks, Right

LEMMA ReadsNothing ==
    ASSUME NEW j, NEW v, j.visit # v, StoreRequests \intersect DOMAIN j.asks = {}
    PROVE  (\A t : ~Reads(j, v, t)) /\ (\A p : ~Owes(j, p, v))
BY DEF Reads, Owes, StoreRequests

LEMMA IdleReads ==
    ASSUME IInv
    PROVE  /\ \A t : ~Reads(Idle, visit, t)
           /\ \A p : ~Owes(Idle, p, visit)
<1>1. visit \in Nat \ {0}
  BY DEF IInv, Shapes
<1>2. Idle.visit # visit /\ DOMAIN Idle.asks = {}
  BY <1>1, IdleHand
<1> QED
  BY <1>2, ReadsNothing

\* A slot that is free, or becomes free, asks for nothing.
LEMMA FreeReads ==
    ASSUME IInv, NEW n \in Slots, jobs[n].op = "idle"
    PROVE  /\ DOMAIN jobs[n].asks = {}
           /\ \A t : ~Reads(jobs[n], visit, t)
           /\ ~Owes(jobs[n], page, visit)
<1>1. DOMAIN jobs[n].asks \in Questions("idle")
  BY DEF IInv, Hands, Hand, Handler
<1>2. DOMAIN jobs[n].asks = {}
  BY <1>1, OtherAsks
<1>3. "idle" \notin TaskChanges \union ModelOps \union BiliWatchChanges \union {"loadOverview"}
  BY DEF TaskChanges, ModelOps, Submits, BiliWatchChanges, BiliWatchSaves
<1>4. \A t : ~Reads(jobs[n], visit, t)
  BY <1>2, <1>3 DEF Reads, TaskList, BiliWatchLoad
<1>5. ~Owes(jobs[n], page, visit)
  BY <1>2, <1>3 DEF Owes
<1> QED
  BY <1>2, <1>4, <1>5

\* Who reads none of these requests has none of them in hand.
LEMMA NobodyReads ==
    ASSUME IInv, NEW n, NEW requests, Reading(requests) \subseteq {n}, NEW m \in Slots \ {n}
    PROVE  DOMAIN jobs[m].asks \intersect requests = {}
<1>1. CASE jobs[m].op = "idle"
  BY <1>1, FreeReads
<1>2. CASE jobs[m].op # "idle"
  BY <1>2 DEF Reading, Running
<1> QED
  BY <1>1, <1>2

------------------------------------------------------------------------------
(* The kinds of steps.                                                       *)

\* What becomes of t when handler n goes on as j.
Stays(n, j, t) ==
    (Reads(jobs[n], visit, t) => Right(jobs[n], t, refs, server)) =>
        /\ \A m \in Slots \ {n} : Reads(jobs[m], visit, t) /\ Right(jobs[m], t, refs, server)
                                      => Right(jobs[m], t, refs', server')
        /\ Reads(j, visit, t) => Right(j, t, refs', server')
        /\ Reads(jobs[n], visit, t) =>
              Reads(j, visit, t) \/ Shows(t, refs', stores', server')
        /\ Shows(t, refs, stores, server) => Shows(t, refs', stores', server')

LEMMA OneGoesOn ==
    ASSUME Settles, Hands, NEW n, NEW j, Holds(n, j), server'.logs # 0, sure' => sure,
           Owes(jobs[n], page, visit) => Owes(j, page, visit),
           sure' => Owes(j, page, visit) \/ \A t \in Things(page) : Stays(n, j, t)
    PROVE  Settles'
<1>1. /\ n \in Slots /\ page' = page /\ visit' = visit /\ jobs'[n] = j
      /\ \A m \in Slots \ {n} : jobs'[m] = jobs[m]
  BY DEF Hands, Holds
<1> SUFFICES ASSUME sure'
             PROVE  \/ \E m \in Slots : Owes(jobs'[m], page, visit)
                    \/ \A t \in Things(page) : Holding(t)'
  BY <1>1 DEF Settles
<1>2. CASE \E m \in Slots : Owes(jobs[m], page, visit)
  BY <1>1, <1>2
<1>3. ASSUME NEW t \in Things(page), Holding(t), Stays(n, j, t)
      PROVE  Holding(t)'
  <2>1. Reads(jobs[n], visit, t) => Right(jobs[n], t, refs, server)
    BY <1>1, <1>3 DEF Holding
  <2>2. \A m \in Slots : Reads(jobs'[m], visit, t) => Right(jobs'[m], t, refs', server')
    BY <1>1, <1>3, <2>1 DEF Stays, Holding
  <2>3. (\E m \in Slots : Reads(jobs'[m], visit, t)) \/ Shows(t, refs', stores', server')
    BY <1>1, <1>3, <2>1 DEF Stays, Holding
  <2> QED
    BY <1>1, <2>2, <2>3 DEF Holding
<1>4. CASE Owes(j, page, visit)
  BY <1>1, <1>4
<1> QED
  BY <1>2, <1>3, <1>4 DEF Settles

\* A handler begins to read all that the page shows, and nobody else is reading it.
Starts(n, j, t) ==
    /\ \A m \in Slots \ {n} : ~Reads(jobs[m], visit', t)
    /\ Reads(j, visit', t) => Right(j, t, refs', server')
    /\ Reads(j, visit', t) \/ Shows(t, refs', stores', server')

LEMMA ReadsAnew ==
    ASSUME Hands, NEW n \in Slots, NEW j, jobs' = [jobs EXCEPT ![n] = j], server'.logs # 0,
           sure' => Owes(j, page', visit') \/ \A t \in Things(page') : Starts(n, j, t)
    PROVE  Settles'
<1>1. /\ jobs'[n] = j /\ \A m \in Slots \ {n} : jobs'[m] = jobs[m]
  BY DEF Hands
<1>2. ASSUME NEW t \in Things(page'), Starts(n, j, t)
      PROVE  Holding(t)'
  <2>1. \A m \in Slots : Reads(jobs'[m], visit', t) => Right(jobs'[m], t, refs', server')
    BY <1>1, <1>2 DEF Starts
  <2>2. (\E m \in Slots : Reads(jobs'[m], visit', t)) \/ Shows(t, refs', stores', server')
    BY <1>1, <1>2 DEF Starts
  <2> QED
    BY <2>1, <2>2 DEF Holding
<1> QED
  BY <1>1, <1>2 DEF Settles

\* Nothing is asked and no slot changes.
LEMMA NothingAsked ==
    ASSUME Settles, IInv, UNCHANGED <<server, page, visit, jobs, sure>>,
           \A t \in Things(page) : Same(t, refs, refs', stores, stores')
    PROVE  Settles'
<1>1. ASSUME NEW t \in Things(page), Holding(t)
      PROVE  Holding(t)'
  <2>1. t \in AllThings
    BY ThingsKnown DEF IInv, Shapes
  <2>2. Looks(t, refs, refs') /\ (Shows(t, refs, stores, server) => Shows(t, refs', stores', server))
    BY <2>1, SameStays
  <2>3. \A n \in Slots : Reads(jobs[n], visit, t) => Right(jobs[n], t, refs', server)
    BY <1>1, <2>2, LooksRight DEF Holding
  <2> QED
    BY <1>1, <2>2, <2>3 DEF Holding
<1> QED
  BY <1>1 DEF Settles

\* A handler begins something that the page does not show.
LEMMA BeginsQuietly ==
    ASSUME Settles, IInv, Free # {}, UNCHANGED <<server, page, visit, sure>>,
           NEW op, NEW id, NEW form, NEW requests, Begin(op, id, form, requests),
           \A t \in Things(page) :
              /\ Same(t, refs, refs', stores, stores')
              /\ Reads(Begun(op, id, form, requests), visit, t) =>
                    Right(Begun(op, id, form, requests), t, refs', server)
    PROVE  Settles'
<1> DEFINE j == Begun(op, id, form, requests)
<1>1. PICK n \in Slots : jobs[n].op = "idle" /\ Holds(n, j)
  BY BeginHolds
<1> HIDE DEF j
<1>2. (\A t : ~Reads(jobs[n], visit, t)) /\ ~Owes(jobs[n], page, visit)
  BY <1>1, FreeReads
<1>3. ASSUME NEW t \in Things(page)
      PROVE  Stays(n, j, t)
  <2>1. t \in AllThings
    BY ThingsKnown DEF IInv, Shapes
  <2>2. /\ Looks(t, refs, refs')
        /\ Shows(t, refs, stores, server) => Shows(t, refs', stores', server')
    BY <2>1, SameStays
  <2>3. \A m \in Slots : Right(jobs[m], t, refs, server) => Right(jobs[m], t, refs', server')
    BY <2>2, LooksRight
  <2>4. Reads(j, visit, t) => Right(j, t, refs', server')
    BY DEF j
  <2> QED
    BY <1>2, <2>2, <2>3, <2>4 DEF Stays
<1> QED
  BY <1>1, <1>2, <1>3, OneGoesOn DEF IInv, Settles

\* A handler begins to load the page.
LEMMA BeginsToRead ==
    ASSUME Settles, IInv, Free # {}, UNCHANGED <<server, page, visit>>,
           NEW op, NEW id, NEW form, NEW requests, Begin(op, id, form, requests),
           NEW read, sure' => Reading(read) = {},
           sure' => \A t \in Things(page) :
              /\ \A m \in Slots : DOMAIN jobs[m].asks \intersect read = {}
                                     => ~Reads(jobs[m], visit, t)
              /\ Reads(Begun(op, id, form, requests), visit, t) =>
                    Right(Begun(op, id, form, requests), t, refs', server)
              /\ \/ Reads(Begun(op, id, form, requests), visit, t)
                 \/ Shows(t, refs', stores', server)
    PROVE  Settles'
<1> DEFINE j == Begun(op, id, form, requests)
<1>1. PICK n \in Slots : jobs[n].op = "idle" /\ Holds(n, j)
  BY BeginHolds
<1>2. ASSUME sure', NEW t \in Things(page)
      PROVE  Starts(n, j, t)
  <2>1. \A m \in Slots \ {n} : DOMAIN jobs[m].asks \intersect read = {}
    BY <1>2, NobodyReads
  <2> QED
    BY <1>2, <2>1 DEF Starts
<1> HIDE DEF j
<1>3. jobs' = [jobs EXCEPT ![n] = j] /\ page' = page /\ visit' = visit
  BY <1>1 DEF Holds
<1> QED
  BY <1>2, <1>3, ReadsAnew DEF IInv, Settles

\* Handler n goes on as j, which alone reads these requests, or leaves nothing to read.
ToRead(n, j, read) ==
    /\ Reading(read) \subseteq {n}
    /\ \A t \in Things(page) :
          /\ \A m \in Slots \ {n} : DOMAIN jobs[m].asks \intersect read = {}
                                       => ~Reads(jobs[m], visit, t)
          /\ Reads(j, visit, t) => Right(j, t, refs', server)
          /\ Reads(j, visit, t) \/ Shows(t, refs', stores', server)

LEMMA GoesOnToRead ==
    ASSUME Settles, IInv, UNCHANGED <<server, page, visit>>, NEW n \in Slots, NEW j,
           jobs' = [jobs EXCEPT ![n] = j], NEW read, sure' => ToRead(n, j, read)
    PROVE  Settles'
<1>1. ASSUME sure', NEW t \in Things(page)
      PROVE  Starts(n, j, t)
  <2>1. \A m \in Slots \ {n} : DOMAIN jobs[m].asks \intersect read = {}
    BY <1>1, NobodyReads DEF ToRead
  <2> QED
    BY <1>1, <2>1 DEF Starts, ToRead
<1> QED
  BY <1>1, ReadsAnew DEF IInv, Settles

\* A handler goes on as j, which neither reads what the page shows nor owes anything.
LEMMA GoesQuiet ==
    ASSUME Settles, IInv, UNCHANGED <<server, page, visit, stores, sure>>, NEW n \in Slots, NEW j,
           Holds(n, j), \A t \in Things(page) : ~Reads(j, visit, t),
           StoreRequests \intersect DOMAIN jobs[n].asks = {},
           NEW shown, Show(n, shown),
           jobs[n].visit = visit =>
              /\ ~Owes(jobs[n], page, visit)
              /\ \A t \in Things(page) :
                    \/ ~Reads(jobs[n], visit, t) /\ Same(t, refs, shown, stores, stores)
                    \/ /\ Reads(jobs[n], visit, t) /\ Looks(t, refs, shown)
                       /\ Right(jobs[n], t, refs, server) => Shows(t, shown, stores, server)
    PROVE  Settles'
<1>1. CASE jobs[n].visit = visit
  <2>1. refs' = shown
    BY <1>1 DEF Show
  <2>2. ASSUME NEW t \in Things(page)
        PROVE  Stays(n, j, t)
    <3>1. t \in AllThings
      BY ThingsKnown DEF IInv, Shapes
    <3>2. CASE ~Reads(jobs[n], visit, t) /\ Same(t, refs, shown, stores, stores)
      <4>1. /\ Looks(t, refs, shown)
            /\ Shows(t, refs, stores, server) => Shows(t, shown, stores, server)
        BY <3>1, <3>2, SameStays
      <4>2. \A m : Right(jobs[m], t, refs, server) => Right(jobs[m], t, shown, server)
        BY <4>1, LooksRight
      <4> QED
        BY <2>1, <3>2, <4>1, <4>2 DEF Stays
    <3>3. CASE /\ Reads(jobs[n], visit, t) /\ Looks(t, refs, shown)
               /\ Right(jobs[n], t, refs, server) => Shows(t, shown, stores, server)
      <4>1. \A m : Right(jobs[m], t, refs, server) => Right(jobs[m], t, shown, server)
        BY <3>3, LooksRight
      <4> QED
        BY <2>1, <3>3, <4>1 DEF Stays
    <3> QED
      BY <1>1, <3>2, <3>3
  <2> QED
    BY <1>1, <2>2, OneGoesOn DEF IInv, Settles
<1>2. CASE jobs[n].visit # visit
  <2>1. refs' = refs
    BY <1>2 DEF Show
  <2>2. (\A t : ~Reads(jobs[n], visit, t)) /\ ~Owes(jobs[n], page, visit)
    BY <1>2, ReadsNothing
  <2>3. ASSUME NEW t \in Things(page)
        PROVE  Stays(n, j, t)
    BY <2>1, <2>2 DEF Stays
  <2> QED
    BY <2>2, <2>3, OneGoesOn DEF IInv, Settles
<1> QED
  BY <1>1, <1>2

LEMMA EndsQuietly ==
    ASSUME Settles, IInv, UNCHANGED <<server, page, visit, stores, sure>>, NEW n \in Slots, End(n),
           StoreRequests \intersect DOMAIN jobs[n].asks = {},
           NEW shown, Show(n, shown),
           jobs[n].visit = visit =>
              /\ ~Owes(jobs[n], page, visit)
              /\ \A t \in Things(page) :
                    \/ ~Reads(jobs[n], visit, t) /\ Same(t, refs, shown, stores, stores)
                    \/ /\ Reads(jobs[n], visit, t) /\ Looks(t, refs, shown)
                       /\ Right(jobs[n], t, refs, server) => Shows(t, shown, stores, server)
    PROVE  Settles'
<1>1. Holds(n, Idle)
  BY DEF End, Holds
<1>2. \A t \in Things(page) : ~Reads(Idle, visit, t)
  BY IdleReads
<1> QED
  BY <1>1, <1>2, GoesQuiet

\* What has come is what the tables hold.
LEMMA CameRight ==
    ASSUME NEW state, NEW value, Is(state, value)
    PROVE  /\ state.is # "failure" /\ state # Failure
           /\ state.is = "answer" => state.value = value
BY DEF Is, Sent, Answer, Failure

LEMMA AskedIs ==
    ASSUME NEW requests, NEW a \in requests
    PROVE  /\ Asked(requests)[a] = Sent /\ Asked(requests)[a] # Failure
           /\ Asked(requests)[a] # Taken
           /\ \A value : Is(Asked(requests)[a], value)
BY DEF Asked, Is, Sent, Failure, Taken

LEMMA BegunIs ==
    ASSUME NEW op, NEW id, NEW form, NEW requests
    PROVE  /\ Begun(op, id, form, requests).op = op /\ Begun(op, id, form, requests).id = id
           /\ Begun(op, id, form, requests).visit = visit
           /\ Begun(op, id, form, requests).asks = Asked(requests)
           /\ DOMAIN Begun(op, id, form, requests).asks = requests
BY DEF Begun, Asked

\* A handler that asks anew.
LEMMA GoneOnIs ==
    ASSUME NEW j, Handler(j), NEW requests
    PROVE  LET k == [j EXCEPT !.asks = Asked(requests)] IN
           /\ k.op = j.op /\ k.id = j.id /\ k.visit = j.visit
           /\ k.asks = Asked(requests) /\ DOMAIN k.asks = requests
BY DEF Handler, Asked

LEMMA ContinueIs ==
    ASSUME IInv, NEW n \in Slots, NEW requests, Continue(n, requests)
    PROVE  jobs' = [jobs EXCEPT ![n] = [jobs[n] EXCEPT !.asks = Asked(requests)]]
BY DEF Continue, IInv, Hands

LEMMA SomeFailedIs ==
    ASSUME NEW n, SomeFailed(n)
    PROVE  ~Answered(jobs[n])
BY DEF SomeFailed, Answered

------------------------------------------------------------------------------
(* The page of the scheduled tasks settles.                                  *)

\* What this page shows is its table, which only a loading handler reads.
LEMMA TasksPage ==
    ASSUME page = "scheduled-tasks"
    PROVE  /\ Things(page) = {"tasks"}
           /\ \A j : Reads(j, visit, "tasks") <=> j.visit = visit /\ DOMAIN j.asks = TaskList
           /\ \A j : Owes(j, page, visit) <=> /\ j.visit = visit /\ j.op \in TaskChanges
                                              /\ DOMAIN j.asks # TaskList /\ Answered(j)
           /\ \A r, q, st, su : Same("tasks", r, q, st, su) <=> q.tasks = r.tasks
           /\ \A r, q : Looks("tasks", r, q)
           /\ \A r, st, s : Shows("tasks", r, st, s) <=> r.tasks = s.tasks
           /\ \A j, r, s : Right(j, "tasks", r, s) <=>
                 /\ Is(j.asks["scheduledTasks"], s.tasks)
                 /\ j.asks["scheduledTaskHandlers"] # Failure
BY ThingsOf DEF Reads, Owes, Same, Looks, Shows, Right

LEMMA TasksBeginQuietly ==
    ASSUME Settles, IInv, page = "scheduled-tasks", Free # {},
           UNCHANGED <<server, page, visit, stores, sure>>,
           NEW op, NEW id, NEW form, NEW D, D # TaskList, Begin(op, id, form, D),
           refs'.tasks = refs.tasks
    PROVE  Settles'
<1>1. ~Reads(Begun(op, id, form, D), visit, "tasks")
  BY BegunIs, TasksPage
<1> QED
  BY <1>1, TasksPage, BeginsQuietly

LEMMA TasksAskSettles ==
    ASSUME Settles, IInv, page = "scheduled-tasks", Free # {}, TasksAsk,
           UNCHANGED <<server, page, visit, stores>>
    PROVE  Settles'
<1>1. refs \in TasksRefs
  BY TasksHere
<1>2. ASSUME NEW typed \in Typed, NEW on \in BOOLEAN, SaveTask(typed, on)
      PROVE  Settles'
  <2> DEFINE D == {IF refs.editingId # None THEN "updateScheduledTask" ELSE "createScheduledTask"}
             form == FillTaskForm(typed, on)
  <2>1. /\ refs' = [refs EXCEPT !.saving = TRUE, !.form = form]
        /\ Begin("save", refs.editingId, form, D) /\ sure' = sure
    BY <1>2 DEF SaveTask
  <2>2. D # TaskList
    BY DEF TaskList
  <2> HIDE DEF D, form
  <2>3. refs'.tasks = refs.tasks
    BY <1>1, <2>1 DEF TasksRefs
  <2> QED
    BY <2>1, <2>2, <2>3, TasksBeginQuietly
<1>3. ASSUME DeleteTask
      PROVE  Settles'
  <2>1. /\ refs' = [refs EXCEPT !.saving = TRUE] /\ sure' = sure
        /\ Begin("delete", refs.deletingTask, None, {"deleteScheduledTask"})
    BY <1>3 DEF DeleteTask
  <2>2. {"deleteScheduledTask"} # TaskList /\ refs'.tasks = refs.tasks
    BY <1>1, <2>1 DEF TaskList, TasksRefs
  <2> QED
    BY <2>1, <2>2, TasksBeginQuietly
<1>4. ASSUME NEW t \in Rows, RunTaskNow(t)
      PROVE  Settles'
  <2>1. refs' = refs /\ sure' = sure /\ Begin("run", t, None, {"runScheduledTask"})
    BY <1>4 DEF RunTaskNow
  <2>2. {"runScheduledTask"} # TaskList
    BY DEF TaskList
  <2> QED
    BY <2>1, <2>2, TasksBeginQuietly
<1>5. ASSUME NEW t \in Rows, ToggleTask(t)
      PROVE  Settles'
  <2> DEFINE form == [of |-> t, def |-> refs.tasks[t].def, enabled |-> ~refs.tasks[t].enabled]
  <2>1. /\ refs' = [refs EXCEPT !.togglingId = t] /\ sure' = sure
        /\ Begin("toggle", t, form, {"updateScheduledTask"})
    BY <1>5 DEF ToggleTask
  <2> HIDE DEF form
  <2>2. {"updateScheduledTask"} # TaskList /\ refs'.tasks = refs.tasks
    BY <1>1, <2>1 DEF TaskList, TasksRefs
  <2> QED
    BY <2>1, <2>2, TasksBeginQuietly
<1>6. ASSUME NEW t \in Rows, ShowTaskHistory(t)
      PROVE  Settles'
  <2>1. refs' = refs /\ sure' = sure /\ Begin("history", t, None, {"scheduledTaskRuns"})
    BY <1>6 DEF ShowTaskHistory
  <2>2. {"scheduledTaskRuns"} # TaskList
    BY DEF TaskList
  <2> QED
    BY <2>1, <2>2, TasksBeginQuietly
<1>7. ASSUME ReloadTasks
      PROVE  Settles'
  <2> DEFINE j == Begun("load", None, None, TaskList)
  <2>1. Begin("load", None, None, TaskList) /\ (sure' => Reading(TaskList) = {})
    BY <1>7 DEF ReloadTasks
  <2>2. j.visit = visit /\ j.asks = Asked(TaskList) /\ DOMAIN j.asks = TaskList
    BY BegunIs
  <2>3. \A m \in Slots : DOMAIN jobs[m].asks \intersect TaskList = {} => ~Reads(jobs[m], visit, "tasks")
    BY TasksPage DEF TaskList
  <2> HIDE DEF j
  <2>4. Reads(j, visit, "tasks") /\ Right(j, "tasks", refs', server)
    <3>1. /\ j.asks["scheduledTaskHandlers"] # Failure
          /\ \A value : Is(j.asks["scheduledTasks"], value)
      BY <2>2, AskedIs DEF TaskList
    <3> QED
      BY <2>2, <3>1, TasksPage
  <2> QED
    BY <2>1, <2>3, <2>4, TasksPage, BeginsToRead DEF j
<1> QED
  BY <1>2, <1>3, <1>4, <1>5, <1>6, <1>7 DEF TasksAsk

LEMMA TasksOpenSettles ==
    ASSUME Settles, IInv, page = "scheduled-tasks", TasksOpenOrClose,
           UNCHANGED <<server, page, visit, stores>>
    PROVE  Settles'
<1>1. refs \in TasksRefs
  BY TasksHere
<1>2. jobs' = jobs /\ sure' = sure
  BY DEF TasksOpenOrClose, OpenCreateTask, OpenEditTask, AskRemoveTask, CancelTaskForm,
         CancelRemoveTask, CloseTaskHistory
<1>3. refs'.tasks = refs.tasks
  BY <1>1 DEF TasksOpenOrClose, OpenCreateTask, OpenEditTask, AskRemoveTask, CancelTaskForm,
         CancelRemoveTask, CloseTaskHistory, TasksRefs
<1> QED
  BY <1>2, <1>3, TasksPage, NothingAsked

LEMMA TaskChangedSettles ==
    ASSUME Settles, IInv, NEW n \in Slots, TaskChanged(n), UNCHANGED <<server, page, visit, stores>>
    PROVE  Settles'
<1> DEFINE j == [jobs[n] EXCEPT !.asks = Asked(TaskList)]
<1>1. /\ jobs[n].op \in TaskOps /\ Continue(n, TaskList)
      /\ sure' => jobs[n].visit = visit /\ Reading(TaskList) \subseteq {n}
  BY DEF TaskChanged, Reload, TaskOps
<1>2. jobs' = [jobs EXCEPT ![n] = j]
  BY <1>1, ContinueIs
<1>3. Handler(jobs[n]) /\ (jobs[n].visit = visit => page = "scheduled-tasks")
  BY <1>1, TaskHandler
<1>4. j.visit = jobs[n].visit /\ j.asks = Asked(TaskList) /\ DOMAIN j.asks = TaskList
  BY <1>3, GoneOnIs
<1> HIDE DEF j
<1>5. ASSUME sure', NEW t \in Things(page)
      PROVE  /\ \A m \in Slots \ {n} : DOMAIN jobs[m].asks \intersect TaskList = {}
                                          => ~Reads(jobs[m], visit, t)
             /\ Reads(j, visit, t) /\ Right(j, t, refs', server)
  <2>1. page = "scheduled-tasks" /\ t = "tasks" /\ jobs[n].visit = visit
    BY <1>1, <1>3, <1>5, TasksPage
  <2>2. Right(j, "tasks", refs', server)
    BY <1>4, <2>1, AskedIs, TasksPage DEF TaskList
  <2>3. \A m \in Slots \ {n} : DOMAIN jobs[m].asks \intersect TaskList = {}
                                 => ~Reads(jobs[m], visit, t)
    BY <2>1, TasksPage DEF TaskList
  <2> QED
    BY <1>4, <2>1, <2>2, <2>3, TasksPage
<1>6. sure' => ToRead(n, j, TaskList)
  BY <1>1, <1>5 DEF ToRead
<1> QED
  BY <1>2, <1>6, GoesOnToRead

LEMMA TaskRestSettles ==
    ASSUME Settles, IInv, NEW n \in Slots, TaskRefused(n) \/ TasksLoaded(n) \/ TaskHistoryLoaded(n),
           UNCHANGED <<server, page, visit, stores>>
    PROVE  Settles'
<1> DEFINE op == jobs[n].op
<1>1. ASSUME op \in TaskOps, End(n), sure' = sure, NEW shown, Show(n, shown),
             page = "scheduled-tasks" =>
                \/ ~AsksFor(n, TaskList) /\ ~Owes(jobs[n], page, visit) /\ shown.tasks = refs.tasks
                \/ /\ AsksFor(n, TaskList)
                   /\ Right(jobs[n], "tasks", refs, server) => shown.tasks = server.tasks
      PROVE  Settles'
  <2>1. /\ StoreRequests \intersect DOMAIN jobs[n].asks = {}
        /\ jobs[n].visit = visit => page = "scheduled-tasks"
    BY <1>1, TaskHandler
  <2>2. ASSUME jobs[n].visit = visit
        PROVE  /\ ~Owes(jobs[n], page, visit)
               /\ \A t \in Things(page) :
                    \/ ~Reads(jobs[n], visit, t) /\ Same(t, refs, shown, stores, stores)
                    \/ /\ Reads(jobs[n], visit, t) /\ Looks(t, refs, shown)
                       /\ Right(jobs[n], t, refs, server) => Shows(t, shown, stores, server)
    BY <1>1, <2>1, <2>2, TasksPage DEF AsksFor
  <2> QED
    BY <1>1, <2>1, <2>2, EndsQuietly
<1>2. page = "scheduled-tasks" => refs \in TasksRefs
  BY TasksHere
<1>3. CASE TaskRefused(n)
  <2> DEFINE shown == TaskHandlerEnds(op, refs)
  <2>1. op \in TaskOps /\ ~AsksFor(n, TaskList) /\ Show(n, shown) /\ End(n) /\ sure' = sure
    BY <1>3 DEF TaskRefused, TaskOps
  <2>2. ~Answered(jobs[n])
    BY <1>3, SomeFailedIs DEF TaskRefused
  <2>3. page = "scheduled-tasks" => shown.tasks = refs.tasks /\ ~Owes(jobs[n], page, visit)
    BY <1>2, <2>2, TasksPage DEF TaskHandlerEnds, TasksRefs
  <2> HIDE DEF shown
  <2> QED
    BY <1>1, <2>1, <2>3
<1>4. CASE TaskHistoryLoaded(n)
  <2> DEFINE shown == [refs EXCEPT !.runs = Value(n, "scheduledTaskRuns"), !.showRuns = TRUE]
  <2>1. op = "history" /\ Show(n, shown) /\ End(n) /\ sure' = sure
    BY <1>4 DEF TaskHistoryLoaded
  <2>2. op \in TaskOps /\ "history" \notin TaskChanges
    BY <2>1 DEF TaskOps, TaskChanges
  <2>3. ~AsksFor(n, TaskList)
    BY <2>1, <2>2, TaskHandler DEF AsksFor, TaskQuestions, TaskList
  <2>4. page = "scheduled-tasks" => shown.tasks = refs.tasks /\ ~Owes(jobs[n], page, visit)
    BY <1>2, <2>1, <2>2, TasksPage DEF TasksRefs
  <2> HIDE DEF shown
  <2> QED
    BY <1>1, <2>1, <2>2, <2>3, <2>4
<1>5. CASE TasksLoaded(n)
  <2> DEFINE read == IF SomeFailed(n) THEN refs
                     ELSE [refs EXCEPT !.tasks = Value(n, "scheduledTasks"),
                                       !.handlers = Value(n, "scheduledTaskHandlers")]
             shown == TaskHandlerEnds(op, [read EXCEPT !.loading = FALSE])
  <2>1. /\ AsksFor(n, TaskList) /\ Show(n, shown) /\ End(n) /\ sure' = sure
        /\ AllAnswered(n) \/ SomeFailed(n)
    BY <1>5 DEF TasksLoaded
  <2>2. op \in TaskOps
    BY <2>1, TaskListOps
  <2>3. ASSUME page = "scheduled-tasks", Right(jobs[n], "tasks", refs, server)
        PROVE  shown.tasks = server.tasks
    <3>1. /\ Is(jobs[n].asks["scheduledTasks"], server.tasks)
          /\ jobs[n].asks["scheduledTaskHandlers"] # Failure
      BY <2>3, TasksPage
    <3>2. DOMAIN jobs[n].asks = {"scheduledTasks", "scheduledTaskHandlers"}
      BY <2>1 DEF AsksFor, TaskList
    <3>3. ~SomeFailed(n)
      <4>1. Handler(jobs[n])
        BY <2>2, TaskHandler
      <4>2. jobs[n].asks["scheduledTaskHandlers"].is # "failure"
        BY <3>1, <3>2, <4>1 DEF Handler, Stands, Sent, Failure, Taken, Answer
      <4> QED
        BY <3>1, <3>2, <4>2, CameRight DEF SomeFailed
    <3>4. Value(n, "scheduledTasks") = server.tasks
      BY <2>1, <3>1, <3>2, <3>3, CameRight DEF AllAnswered, Value
    <3> QED
      BY <1>2, <2>3, <3>3, <3>4 DEF TaskHandlerEnds, TasksRefs
  <2> HIDE DEF shown
  <2> QED
    BY <1>1, <2>1, <2>2, <2>3
<1> QED
  BY <1>3, <1>4, <1>5

LEMMA TasksResumeSettles ==
    ASSUME Settles, IInv, NEW n \in Slots, TasksResume(n), UNCHANGED <<server, page, visit, stores>>
    PROVE  Settles'
BY TaskChangedSettles, TaskRestSettles DEF TasksResume

------------------------------------------------------------------------------
(* The page of the bilibili watch settles.                                   *)

LEMMA BiliWatchPage ==
    ASSUME page = "biliwatch"
    PROVE  /\ Things(page) = {"subscriptions"}
           /\ \A j : Reads(j, visit, "subscriptions") <=>
                 j.visit = visit /\ DOMAIN j.asks = BiliWatchLoad
           /\ \A j : Owes(j, page, visit) <=> /\ j.visit = visit /\ j.op \in BiliWatchChanges
                                              /\ DOMAIN j.asks # BiliWatchLoad /\ Answered(j)
           /\ \A r, q, st, su : Same("subscriptions", r, q, st, su) <=>
                 /\ q.config = r.config /\ q.subscriptions = r.subscriptions
                 /\ q.deliveries = r.deliveries
           /\ \A r, q : Looks("subscriptions", r, q)
           /\ \A r, st, s : Shows("subscriptions", r, st, s) <=>
                 /\ r.config = s.config /\ r.subscriptions = s.subscriptions
                 /\ r.deliveries = s.deliveries
           /\ \A j, r, s : Right(j, "subscriptions", r, s) <=>
                 /\ Is(j.asks["biliWatchConfig"], s.config)
                 /\ Is(j.asks["biliWatchSubscriptions"], s.subscriptions)
                 /\ Is(j.asks["biliWatchDeliveries"], s.deliveries)
                 /\ j.asks["onebotBots"] # Failure
BY ThingsOf DEF Reads, Owes, Same, Looks, Shows, Right

\* What the page shows of the bilibili watch is left alone.
TablesLeft(q) ==
    q.config = refs.config /\ q.subscriptions = refs.subscriptions /\ q.deliveries = refs.deliveries

LEMMA BiliWatchBeginQuietly ==
    ASSUME Settles, IInv, page = "biliwatch", Free # {},
           UNCHANGED <<server, page, visit, stores, sure>>,
           NEW op, NEW id, NEW form, NEW D, D # BiliWatchLoad, Begin(op, id, form, D),
           TablesLeft(refs')
    PROVE  Settles'
<1>1. ~Reads(Begun(op, id, form, D), visit, "subscriptions")
  BY BegunIs, BiliWatchPage
<1> QED
  BY <1>1, BiliWatchPage, BeginsQuietly DEF TablesLeft

LEMMA BiliWatchAskSettles ==
    ASSUME Settles, IInv, page = "biliwatch", Free # {}, BiliWatchAsk,
           UNCHANGED <<server, page, visit, stores>>
    PROVE  Settles'
<1>1. refs \in BiliWatchRefs /\ TablesLeft(refs)
  BY BiliWatchHere DEF TablesLeft
<1>2. \A a : {a} # BiliWatchLoad
  BY DEF BiliWatchLoad
<1>3. ASSUME NEW target \in Rows, NEW typed \in Typed, SaveSubscription(target, typed)
      PROVE  Settles'
  <2> DEFINE form == FillSubscription(target, typed)
             a == IF refs.editing # None THEN "updateBiliWatchSubscription"
                  ELSE "createBiliWatchSubscription"
  <2>1. /\ refs' = [refs EXCEPT !.saving = TRUE, !.form = form] /\ sure' = sure
        /\ Begin("saveSubscription", refs.editing, form, {a})
    BY <1>3 DEF SaveSubscription
  <2> HIDE DEF form, a
  <2>2. TablesLeft(refs')
    BY <1>1, <2>1 DEF BiliWatchRefs, TablesLeft
  <2> QED
    BY <1>2, <2>1, <2>2, BiliWatchBeginQuietly
<1>4. ASSUME NEW s \in Rows, RemoveSubscription(s)
      PROVE  Settles'
  <2>1. /\ refs' = refs /\ sure' = sure
        /\ Begin("removeSubscription", s, None, {"deleteBiliWatchSubscription"})
    BY <1>4 DEF RemoveSubscription
  <2> QED
    BY <1>1, <1>2, <2>1, BiliWatchBeginQuietly
<1>5. ASSUME NEW update \in BiliWatchConfigUpdate, SaveConfig(update)
      PROVE  Settles'
  <2>1. /\ refs' = [refs EXCEPT !.saving = TRUE, !.typed = update.settings,
                                !.cookie = update.cookie]
        /\ sure' = sure /\ Begin("saveConfig", None, update, {"updateBiliWatchConfig"})
    BY <1>5 DEF SaveConfig
  <2>2. TablesLeft(refs')
    BY <1>1, <2>1 DEF BiliWatchRefs, TablesLeft
  <2> QED
    BY <1>2, <2>1, <2>2, BiliWatchBeginQuietly
<1>6. ASSUME TestCookie
      PROVE  Settles'
  <2>1. /\ refs' = refs /\ sure' = sure
        /\ Begin("testCookie", None, None, {"testBiliWatchCookie"})
    BY <1>6 DEF TestCookie
  <2> QED
    BY <1>1, <1>2, <2>1, BiliWatchBeginQuietly
<1>7. ASSUME ReloadBiliWatch
      PROVE  Settles'
  <2> DEFINE j == Begun("loadBiliWatch", None, None, BiliWatchLoad)
  <2>1. /\ Begin("loadBiliWatch", None, None, BiliWatchLoad)
        /\ sure' => Reading(BiliWatchLoad) = {}
    BY <1>7 DEF ReloadBiliWatch
  <2>2. j.visit = visit /\ j.asks = Asked(BiliWatchLoad) /\ DOMAIN j.asks = BiliWatchLoad
    BY BegunIs
  <2>3. \A m \in Slots : DOMAIN jobs[m].asks \intersect BiliWatchLoad = {}
                            => ~Reads(jobs[m], visit, "subscriptions")
    BY BiliWatchPage DEF BiliWatchLoad
  <2> HIDE DEF j
  <2>4. Reads(j, visit, "subscriptions") /\ Right(j, "subscriptions", refs', server)
    BY <2>2, BiliWatchPage, AskedIs DEF BiliWatchLoad
  <2> QED
    BY <2>1, <2>3, <2>4, BiliWatchPage, BeginsToRead DEF j
<1> QED
  BY <1>3, <1>4, <1>5, <1>6, <1>7 DEF BiliWatchAsk

LEMMA BiliWatchOpenSettles ==
    ASSUME Settles, IInv, page = "biliwatch", BiliWatchOpenOrClose,
           UNCHANGED <<server, page, visit, stores>>
    PROVE  Settles'
<1>1. refs \in BiliWatchRefs
  BY BiliWatchHere
<1>2. jobs' = jobs /\ sure' = sure
  BY DEF BiliWatchOpenOrClose, OpenCreateSubscription, OpenEditSubscription, CancelSubscription
<1>3. TablesLeft(refs')
  BY <1>1 DEF BiliWatchOpenOrClose, OpenCreateSubscription, OpenEditSubscription,
         CancelSubscription, BiliWatchRefs, TablesLeft
<1> QED
  BY <1>2, <1>3, BiliWatchPage, NothingAsked DEF TablesLeft

LEMMA BiliWatchChangedSettles ==
    ASSUME Settles, IInv, NEW n \in Slots, jobs[n].op \in BiliWatchOps, BiliWatchChanged(n),
           UNCHANGED <<server, page, visit, stores>>
    PROVE  Settles'
<1> DEFINE j == [jobs[n] EXCEPT !.asks = Asked(BiliWatchLoad)]
<1>1. /\ Continue(n, BiliWatchLoad)
      /\ sure' => jobs[n].visit = visit /\ Reading(BiliWatchLoad) \subseteq {n}
  BY DEF BiliWatchChanged, Reload
<1>2. jobs' = [jobs EXCEPT ![n] = j]
  BY <1>1, ContinueIs
<1>3. Handler(jobs[n]) /\ (jobs[n].visit = visit => page = "biliwatch")
  BY BiliWatchHandler
<1>4. j.visit = jobs[n].visit /\ j.asks = Asked(BiliWatchLoad) /\ DOMAIN j.asks = BiliWatchLoad
  BY <1>3, GoneOnIs
<1> HIDE DEF j
<1>5. ASSUME sure', NEW t \in Things(page)
      PROVE  /\ \A m \in Slots \ {n} : DOMAIN jobs[m].asks \intersect BiliWatchLoad = {}
                                          => ~Reads(jobs[m], visit, t)
             /\ Reads(j, visit, t) /\ Right(j, t, refs', server)
  <2>1. page = "biliwatch" /\ t = "subscriptions" /\ jobs[n].visit = visit
    BY <1>1, <1>3, <1>5, BiliWatchPage
  <2>2. Right(j, "subscriptions", refs', server)
    BY <1>4, <2>1, AskedIs, BiliWatchPage DEF BiliWatchLoad
  <2>3. \A m \in Slots \ {n} : DOMAIN jobs[m].asks \intersect BiliWatchLoad = {}
                                 => ~Reads(jobs[m], visit, t)
    BY <2>1, BiliWatchPage DEF BiliWatchLoad
  <2> QED
    BY <1>4, <2>1, <2>2, <2>3, BiliWatchPage
<1>6. sure' => ToRead(n, j, BiliWatchLoad)
  BY <1>1, <1>5 DEF ToRead
<1> QED
  BY <1>2, <1>6, GoesOnToRead

LEMMA BiliWatchRestSettles ==
    ASSUME Settles, IInv, NEW n \in Slots, jobs[n].op \in BiliWatchOps,
           BiliWatchLoaded(n) \/ BiliWatchRefused(n) \/ CookieTested(n),
           UNCHANGED <<server, page, visit, stores>>
    PROVE  Settles'
<1> DEFINE op == jobs[n].op
<1>1. ASSUME End(n), sure' = sure, NEW shown, Show(n, shown),
             page = "biliwatch" =>
                \/ ~AsksFor(n, BiliWatchLoad) /\ ~Owes(jobs[n], page, visit) /\ TablesLeft(shown)
                \/ /\ AsksFor(n, BiliWatchLoad)
                   /\ Right(jobs[n], "subscriptions", refs, server) =>
                         Shows("subscriptions", shown, stores, server)
      PROVE  Settles'
  <2>1. /\ StoreRequests \intersect DOMAIN jobs[n].asks = {}
        /\ jobs[n].visit = visit => page = "biliwatch"
    BY BiliWatchHandler
  <2>2. ASSUME jobs[n].visit = visit
        PROVE  /\ ~Owes(jobs[n], page, visit)
               /\ \A t \in Things(page) :
                    \/ ~Reads(jobs[n], visit, t) /\ Same(t, refs, shown, stores, stores)
                    \/ /\ Reads(jobs[n], visit, t) /\ Looks(t, refs, shown)
                       /\ Right(jobs[n], t, refs, server) => Shows(t, shown, stores, server)
    BY <1>1, <2>1, <2>2, BiliWatchPage DEF AsksFor, TablesLeft
  <2> QED
    BY <1>1, <2>1, <2>2, EndsQuietly
<1>2. page = "biliwatch" => refs \in BiliWatchRefs
  BY BiliWatchHere
<1>3. CASE BiliWatchRefused(n)
  <2> DEFINE shown == [refs EXCEPT !.saving = IF op \in BiliWatchSaves THEN FALSE ELSE @]
  <2>1. ~AsksFor(n, BiliWatchLoad) /\ Show(n, shown) /\ End(n) /\ sure' = sure
    BY <1>3 DEF BiliWatchRefused
  <2>2. ~Answered(jobs[n])
    BY <1>3, SomeFailedIs DEF BiliWatchRefused
  <2>3. page = "biliwatch" => TablesLeft(shown) /\ ~Owes(jobs[n], page, visit)
    BY <1>2, <2>2, BiliWatchPage DEF TablesLeft, BiliWatchRefs
  <2> HIDE DEF shown
  <2> QED
    BY <1>1, <2>1, <2>3
<1>4. CASE CookieTested(n)
  <2>1. op = "testCookie" /\ Show(n, refs) /\ End(n) /\ sure' = sure
    BY <1>4 DEF CookieTested, Show
  <2>2. DOMAIN jobs[n].asks = {"testBiliWatchCookie"}
    BY <2>1, BiliWatchHandler DEF BiliWatchQuestions
  <2>3. ~AsksFor(n, BiliWatchLoad) /\ op \notin BiliWatchChanges
    BY <2>1, <2>2 DEF AsksFor, BiliWatchLoad, BiliWatchChanges, BiliWatchSaves
  <2>4. page = "biliwatch" => TablesLeft(refs) /\ ~Owes(jobs[n], page, visit)
    BY <2>3, BiliWatchPage DEF TablesLeft
  <2> QED
    BY <1>1, <2>1, <2>3, <2>4
<1>5. CASE BiliWatchLoaded(n)
  <2> DEFINE read == IF SomeFailed(n) THEN refs
                     ELSE [refs EXCEPT !.config = Value(n, "biliWatchConfig"),
                                       !.subscriptions = Value(n, "biliWatchSubscriptions"),
                                       !.deliveries = Value(n, "biliWatchDeliveries"),
                                       !.bots = Value(n, "onebotBots"),
                                       !.typed = Value(n, "biliWatchConfig").settings]
             shown == [read EXCEPT !.loading = FALSE,
                                   !.saving = IF op \in BiliWatchSaves THEN FALSE ELSE @]
  <2>1. /\ AsksFor(n, BiliWatchLoad) /\ Show(n, shown) /\ End(n) /\ sure' = sure
        /\ AllAnswered(n) \/ SomeFailed(n)
    BY <1>5 DEF BiliWatchLoaded
  <2>2. ASSUME page = "biliwatch", Right(jobs[n], "subscriptions", refs, server)
        PROVE  Shows("subscriptions", shown, stores, server)
    <3>1. /\ Is(jobs[n].asks["biliWatchConfig"], server.config)
          /\ Is(jobs[n].asks["biliWatchSubscriptions"], server.subscriptions)
          /\ Is(jobs[n].asks["biliWatchDeliveries"], server.deliveries)
          /\ jobs[n].asks["onebotBots"] # Failure
      BY <2>2, BiliWatchPage
    <3>2. DOMAIN jobs[n].asks = {"biliWatchConfig", "biliWatchSubscriptions",
                                 "biliWatchDeliveries", "onebotBots"}
      BY <2>1 DEF AsksFor, BiliWatchLoad
    <3>3. ~SomeFailed(n)
      <4>1. Handler(jobs[n])
        BY BiliWatchHandler
      <4>2. jobs[n].asks["onebotBots"].is # "failure"
        BY <3>1, <3>2, <4>1 DEF Handler, Stands, Sent, Failure, Taken, Answer
      <4> QED
        BY <3>1, <3>2, <4>2, CameRight DEF SomeFailed
    <3>4. /\ Value(n, "biliWatchConfig") = server.config
          /\ Value(n, "biliWatchSubscriptions") = server.subscriptions
          /\ Value(n, "biliWatchDeliveries") = server.deliveries
      BY <2>1, <3>1, <3>2, <3>3, CameRight DEF AllAnswered, Value
    <3> DEFINE typed == Value(n, "biliWatchConfig").settings
    <3>5. read = [refs EXCEPT !.config = server.config, !.subscriptions = server.subscriptions,
                              !.deliveries = server.deliveries, !.bots = Value(n, "onebotBots"),
                              !.typed = typed]
      BY <3>3, <3>4
    <3> HIDE DEF read, typed
    <3>6. /\ read.config = server.config /\ read.subscriptions = server.subscriptions
          /\ read.deliveries = server.deliveries
          /\ DOMAIN read = DOMAIN refs
      BY <1>2, <2>2, <3>5 DEF BiliWatchRefs
    <3>7. /\ shown.config = server.config /\ shown.subscriptions = server.subscriptions
          /\ shown.deliveries = server.deliveries
      BY <1>2, <2>2, <3>6 DEF BiliWatchRefs
    <3> QED
      BY <2>2, <3>7, BiliWatchPage
  <2> HIDE DEF shown
  <2> QED
    BY <1>1, <2>1, <2>2
<1> QED
  BY <1>3, <1>4, <1>5

LEMMA BiliWatchResumeSettles ==
    ASSUME Settles, IInv, NEW n \in Slots, BiliWatchResume(n),
           UNCHANGED <<server, page, visit, stores>>
    PROVE  Settles'
BY BiliWatchChangedSettles, BiliWatchRestSettles DEF BiliWatchResume

------------------------------------------------------------------------------
(* The knowledge page settles.                                               *)

LEMMA KnowledgePage ==
    ASSUME page = "knowledge"
    PROVE  /\ Things(page) = {"documents", "results"}
           /\ \A j : Reads(j, visit, "documents") <=>
                 j.visit = visit /\ DOMAIN j.asks = {"knowledgeDocuments"}
           /\ \A j : Reads(j, visit, "results") <=>
                 j.visit = visit /\ DOMAIN j.asks = {"searchKnowledge"}
           /\ \A j : Owes(j, page, visit) <=>
                 /\ j.visit = visit
                 /\ \/ /\ DOMAIN j.asks = {"knowledgeBases"}
                       /\ j.asks["knowledgeBases"] # Failure
                    \/ (\E a \in Changing : DOMAIN j.asks = {a}) /\ Answered(j)
           /\ \A r, q, st, su : Same("documents", r, q, st, su) <=>
                 q.documents = r.documents /\ q.selected = r.selected
           /\ \A r, q, st, su : Same("results", r, q, st, su) <=>
                 q.selected = r.selected /\ q.results \in {r.results, None}
           /\ \A r, q : Looks("documents", r, q) <=> q.selected = r.selected
           /\ \A r, q : Looks("results", r, q) <=> q.selected = r.selected
           /\ \A r, st, s : Shows("documents", r, st, s) <=>
                 r.documents = DocumentsIn(s, r.selected)
           /\ \A r, st, s : Shows("results", r, st, s) <=> r.results \in {None, r.selected}
           /\ \A j, r, s : Right(j, "documents", r, s) <=>
                 /\ j.id = r.selected
                 /\ Is(j.asks["knowledgeDocuments"], DocumentsIn(s, r.selected))
           /\ \A j, r, s : Right(j, "results", r, s) <=>
                 /\ j.id = r.selected
                 /\ \/ Is(j.asks["searchKnowledge"], None)
                    \/ Is(j.asks["searchKnowledge"], r.selected)
BY ThingsOf DEF Reads, Owes, Same, Looks, Shows, Right

\* The collection, its documents and the results found in it are left alone.
DocumentsLeft(q) ==
    /\ q.documents = refs.documents /\ q.selected = refs.selected /\ q.results = refs.results

LEMMA DocumentsStay ==
    ASSUME page = "knowledge", NEW q, DocumentsLeft(q)
    PROVE  \A t \in Things(page) : Same(t, refs, q, stores, stores)
<1>1. Same("documents", refs, q, stores, stores) /\ Same("results", refs, q, stores, stores)
  BY KnowledgePage DEF DocumentsLeft
<1> QED
  BY <1>1, KnowledgePage

LEMMA KnowledgeBeginQuietly ==
    ASSUME Settles, IInv, page = "knowledge", Free # {},
           UNCHANGED <<server, page, visit, stores, sure>>,
           NEW op, NEW id, NEW form, NEW a, a # "knowledgeDocuments", Begin(op, id, form, {a}),
           a = "searchKnowledge" => id = refs.selected, DocumentsLeft(refs')
    PROVE  Settles'
<1> DEFINE j == Begun(op, id, form, {a})
<1>1. j.id = id /\ j.asks = Asked({a}) /\ DOMAIN j.asks = {a}
  BY BegunIs
<1> HIDE DEF j
<1>2. ~Reads(j, visit, "documents")
  BY <1>1, KnowledgePage
<1>3. Reads(j, visit, "results") => Right(j, "results", refs', server)
  <2> SUFFICES ASSUME a = "searchKnowledge"
               PROVE  Right(j, "results", refs', server)
    BY <1>1, KnowledgePage
  <2>1. j.id = refs'.selected
    BY <1>1 DEF DocumentsLeft
  <2>2. Is(j.asks["searchKnowledge"], None)
    BY <1>1, AskedIs
  <2> QED
    BY <2>1, <2>2, KnowledgePage
<1>4. \A t \in Things(page) : Reads(j, visit, t) => Right(j, t, refs', server)
  BY <1>2, <1>3, KnowledgePage
<1>5. \A t \in Things(page) : Same(t, refs, refs', stores, stores')
  BY DocumentsStay
<1> QED
  BY <1>4, <1>5, BeginsQuietly DEF j

\* Whoever has searched is called so.
LEMMA NobodySearches ==
    ASSUME IInv, NoSearch, NEW m \in Slots
    PROVE  DOMAIN jobs[m].asks # {"searchKnowledge"}
<1> DEFINE a == "searchKnowledge"
           D == DOMAIN jobs[m].asks
<1> SUFFICES ASSUME D = {a}
             PROVE  FALSE
  OBVIOUS
<1>1. jobs[m].op \in Ops /\ D \in Questions(jobs[m].op)
  BY DEF IInv, Hands, Hand, Handler
<1>2. a \in KnowledgeRequests
  BY DEF KnowledgeRequests
<1>3. /\ a \notin TaskRequests \union ModelRequests \union BiliWatchRequests
      /\ a \notin MonitorRequests \union ModelsLoad \union OverviewLoad \union StoreRequests
  BY <1>2, RequestsApart DEF ModelsLoad, OverviewLoad
<1>4. jobs[m].op \notin TaskOps \union ModelPageOps \union BiliWatchOps \union MonitorOps
  BY <1>1, <1>3, TaskAsks, ModelAsks, BiliWatchAsks, MonitorAsks
<1>5. jobs[m].op \notin {"refresh", "idle"}
  BY <1>1, <1>3, OtherAsks DEF StoreRequests
<1>6. jobs[m].op \in KnowledgeOps /\ D \in KnowledgeQuestions(jobs[m].op)
  BY <1>1, <1>4, <1>5, KnowledgeAsks DEF Ops
<1>7. jobs[m].op = "search"
  BY <1>6 DEF KnowledgeOps, KnowledgeQuestions
<1> QED
  BY <1>7 DEF NoSearch, Running

\* The documents of the selected collection are being read, and its results have gone.
LEMMA DocumentsRead ==
    ASSUME IInv, page = "knowledge", NoSearch, NEW n \in Slots, NEW j,
           j.visit = visit, j.id = refs'.selected, j.asks = Asked({"knowledgeDocuments"}),
           refs'.results = None, NEW t \in Things(page)
    PROVE  /\ \A m \in Slots : DOMAIN jobs[m].asks \intersect {"knowledgeDocuments"} = {}
                                  => ~Reads(jobs[m], visit, t)
           /\ Reads(j, visit, t) => Right(j, t, refs', server)
           /\ Reads(j, visit, t) \/ Shows(t, refs', stores', server)
<1>1. DOMAIN j.asks = {"knowledgeDocuments"}
  BY DEF Asked
<1>2. CASE t = "documents"
  <2>1. Is(j.asks["knowledgeDocuments"], DocumentsIn(server, refs'.selected))
    BY AskedIs
  <2>2. Reads(j, visit, "documents") /\ Right(j, "documents", refs', server)
    BY <1>1, <2>1, KnowledgePage
  <2> QED
    BY <1>2, <2>2, KnowledgePage
<1>3. CASE t = "results"
  <2>1. \A m \in Slots : ~Reads(jobs[m], visit, "results")
    BY NobodySearches, KnowledgePage
  <2>2. ~Reads(j, visit, "results") /\ Shows("results", refs', stores', server)
    BY <1>1, KnowledgePage
  <2> QED
    BY <1>3, <2>1, <2>2
<1> QED
  BY <1>2, <1>3, KnowledgePage

LEMMA KnowledgeAskSettles ==
    ASSUME Settles, IInv, page = "knowledge", Free # {}, KnowledgeAsk,
           UNCHANGED <<server, page, visit, stores>>
    PROVE  Settles'
<1>1. refs \in KnowledgeRefs /\ DocumentsLeft(refs)
  BY KnowledgeHere DEF DocumentsLeft
<1>2. ASSUME NEW c \in Collections, SelectCollection(c)
      PROVE  Settles'
  <2> DEFINE j == Begun("documents", c, None, {"knowledgeDocuments"})
  <2>1. /\ refs' = DocumentsAreLoading([refs EXCEPT !.selected = c])
        /\ Begin("documents", c, None, {"knowledgeDocuments"})
        /\ sure' => NoSearch /\ Reading({"knowledgeDocuments"}) = {}
    BY <1>2 DEF SelectCollection
  <2>2. refs'.selected = c /\ refs'.results = None
    BY <1>1, <2>1 DEF DocumentsAreLoading, KnowledgeRefs
  <2>3. j.visit = visit /\ j.id = c /\ j.asks = Asked({"knowledgeDocuments"})
    BY BegunIs
  <2> HIDE DEF j
  <2>4. PICK n \in Slots : TRUE
    BY <2>1 DEF Free
  <2>5. sure' => \A t \in Things(page) :
           /\ \A m \in Slots : DOMAIN jobs[m].asks \intersect {"knowledgeDocuments"} = {}
                                  => ~Reads(jobs[m], visit, t)
           /\ Reads(j, visit, t) => Right(j, t, refs', server)
           /\ Reads(j, visit, t) \/ Shows(t, refs', stores', server)
    BY <2>1, <2>2, <2>3, <2>4, DocumentsRead
  <2> QED
    BY <2>1, <2>5, BeginsToRead DEF j
<1>3. ASSUME NEW file \in Values, UploadDocument(file)
      PROVE  Settles'
  <2>1. /\ refs' = [refs EXCEPT !.picked = file, !.uploading = TRUE] /\ sure' = sure
        /\ Begin("upload", refs.selected, None, {"uploadKnowledgeDocument"})
    BY <1>3 DEF UploadDocument
  <2>2. DocumentsLeft(refs')
    BY <1>1, <2>1 DEF KnowledgeRefs, DocumentsLeft
  <2> QED
    BY <2>1, <2>2, KnowledgeBeginQuietly
<1>4. ASSUME ImportUrl
      PROVE  Settles'
  <2>1. /\ refs' = [refs EXCEPT !.uploading = TRUE] /\ sure' = sure
        /\ Begin("importUrl", refs.selected, None, {"importKnowledgeUrl"})
    BY <1>4 DEF ImportUrl
  <2>2. DocumentsLeft(refs')
    BY <1>1, <2>1 DEF KnowledgeRefs, DocumentsLeft
  <2> QED
    BY <2>1, <2>2, KnowledgeBeginQuietly
<1>5. ASSUME SearchKnowledge
      PROVE  Settles'
  <2>1. /\ refs' = [refs EXCEPT !.loading = TRUE] /\ sure' = sure
        /\ Begin("search", refs.selected, None, {"searchKnowledge"})
    BY <1>5 DEF SearchKnowledge
  <2>2. DocumentsLeft(refs')
    BY <1>1, <2>1 DEF KnowledgeRefs, DocumentsLeft
  <2> QED
    BY <2>1, <2>2, KnowledgeBeginQuietly
<1>6. ASSUME NEW d \in Rows, RemoveDocument(d)
      PROVE  Settles'
  <2>1. /\ refs' = refs /\ sure' = sure
        /\ Begin("removeDocument", refs.selected, d, {"deleteKnowledgeDocument"})
    BY <1>6 DEF RemoveDocument
  <2> QED
    BY <1>1, <2>1, KnowledgeBeginQuietly
<1>7. ASSUME RebuildIndex
      PROVE  Settles'
  <2>1. /\ refs' = refs /\ sure' = sure
        /\ Begin("rebuild", refs.selected, None, {"rebuildKnowledge"})
    BY <1>7 DEF RebuildIndex
  <2> QED
    BY <1>1, <2>1, KnowledgeBeginQuietly
<1>8. ASSUME NEW kind \in Kinds, TestKnowledgeModel(kind)
      PROVE  Settles'
  <2>1. /\ refs' = [refs EXCEPT !.modelTesting = kind] /\ sure' = sure
        /\ Begin("testModel", None, kind, {"testKnowledgeModel"})
    BY <1>8 DEF TestKnowledgeModel
  <2>2. DocumentsLeft(refs')
    BY <1>1, <2>1 DEF KnowledgeRefs, DocumentsLeft
  <2> QED
    BY <2>1, <2>2, KnowledgeBeginQuietly
<1>9. ASSUME NEW kind \in Kinds, SaveKnowledgeModel(kind)
      PROVE  Settles'
  <2>1. /\ refs' = refs /\ sure' = sure
        /\ Begin("saveModel", None, kind, {"importKnowledgeModel"})
    BY <1>9 DEF SaveKnowledgeModel
  <2> QED
    BY <1>1, <2>1, KnowledgeBeginQuietly
<1> QED
  BY <1>2, <1>3, <1>4, <1>5, <1>6, <1>7, <1>8, <1>9 DEF KnowledgeAsk

\* loadDocuments() of c, which is selected from now on, by a handler that goes on.
LEMMA LoadDocumentsSettles ==
    ASSUME Settles, IInv, NEW n \in Slots, jobs[n].op \in KnowledgeOps, NEW c, LoadDocuments(n, c),
           UNCHANGED <<server, page, visit, stores>>, NEW shown, Show(n, shown),
           page = "knowledge" => shown.selected = c /\ shown.results = None
    PROVE  Settles'
<1>1. /\ StoreRequests \intersect DOMAIN jobs[n].asks = {} /\ Handler(jobs[n])
      /\ jobs[n].visit = visit => page = "knowledge"
  BY KnowledgeHandler
<1>2. CASE jobs[n].visit # visit
  <2>1. End(n) /\ sure' = sure
    BY <1>2 DEF LoadDocuments
  <2> QED
    BY <1>1, <1>2, <2>1, EndsQuietly
<1>3. CASE jobs[n].visit = visit
  <2> DEFINE j == [jobs[n] EXCEPT !.id = c, !.asks = Asked({"knowledgeDocuments"})]
  <2>1. /\ jobs' = [jobs EXCEPT ![n] = j] /\ page = "knowledge" /\ refs' = shown
        /\ sure' => NoSearch /\ Reading({"knowledgeDocuments"}) \subseteq {n}
    BY <1>1, <1>3 DEF LoadDocuments, Show
  <2>2. DOMAIN jobs[n] = {"op", "id", "form", "visit", "asks"}
    BY <1>1 DEF Handler
  <2>3. j.visit = visit /\ j.id = c /\ j.asks = Asked({"knowledgeDocuments"})
    BY <1>3, <2>2
  <2> HIDE DEF j
  <2>4. refs'.selected = c /\ refs'.results = None
    BY <2>1
  <2>5. sure' => ToRead(n, j, {"knowledgeDocuments"})
    BY <2>1, <2>3, <2>4, DocumentsRead DEF ToRead
  <2> QED
    BY <2>1, <2>5, GoesOnToRead
<1> QED
  BY <1>2, <1>3

LEMMA CollectionsLoadedSettles ==
    ASSUME Settles, IInv, NEW n \in Slots, jobs[n].op \in KnowledgeOps,
           CollectionsLoaded(n) \/ DocumentsChanged(n), UNCHANGED <<server, page, visit, stores>>
    PROVE  Settles'
<1>1. page = "knowledge" => refs \in KnowledgeRefs
  BY KnowledgeHere
<1>2. CASE CollectionsLoaded(n)
  <2> DEFINE known == Value(n, "knowledgeBases")
             chosen == IF refs.selected \in known \/ known = {} THEN refs.selected
                       ELSE CHOOSE c \in known : TRUE
             shown == DocumentsAreLoading([refs EXCEPT !.collections = known, !.selected = chosen])
  <2>1. Show(n, shown) /\ LoadDocuments(n, chosen)
    BY <1>2 DEF CollectionsLoaded
  <2> HIDE DEF known, chosen
  <2>2. page = "knowledge" => shown.selected = chosen /\ shown.results = None
    BY <1>1 DEF DocumentsAreLoading, KnowledgeRefs
  <2> HIDE DEF shown
  <2> QED
    BY <2>1, <2>2, LoadDocumentsSettles
<1>3. CASE DocumentsChanged(n)
  <2> DEFINE shown == DocumentsAreLoading(refs)
  <2>1. Show(n, shown) /\ LoadDocuments(n, refs.selected)
    BY <1>3 DEF DocumentsChanged
  <2>2. page = "knowledge" => shown.selected = refs.selected /\ shown.results = None
    BY <1>1 DEF DocumentsAreLoading, KnowledgeRefs
  <2> HIDE DEF shown
  <2> QED
    BY <2>1, <2>2, LoadDocumentsSettles
<1> QED
  BY <1>2, <1>3

\* A handler of this page goes on as j, or ends, and reads no more of what is shown.
LEMMA KnowledgeGoesQuiet ==
    ASSUME Settles, IInv, NEW n \in Slots, jobs[n].op \in KnowledgeOps, NEW j, Holds(n, j),
           DOMAIN j.asks \in {{}, {"knowledgeModels"}}, j.visit \in {jobs[n].visit, 0},
           UNCHANGED <<server, page, visit, stores, sure>>, NEW shown, Show(n, shown),
           page = "knowledge" =>
              /\ ~Owes(jobs[n], page, visit) /\ shown.selected = refs.selected
              /\ \/ ~AsksFor(n, {"knowledgeDocuments"}) /\ shown.documents = refs.documents
                 \/ /\ AsksFor(n, {"knowledgeDocuments"})
                    /\ Right(jobs[n], "documents", refs, server)
                          => shown.documents = DocumentsIn(server, refs.selected)
              /\ \/ ~AsksFor(n, {"searchKnowledge"}) /\ shown.results = refs.results
                 \/ /\ AsksFor(n, {"searchKnowledge"})
                    /\ Right(jobs[n], "results", refs, server)
                          => shown.results \in {None, refs.selected}
    PROVE  Settles'
<1>1. /\ StoreRequests \intersect DOMAIN jobs[n].asks = {}
      /\ jobs[n].visit = visit => page = "knowledge"
  BY KnowledgeHandler
<1>2. StoreRequests \intersect DOMAIN j.asks = {}
  BY DEF StoreRequests
<1>3. \A t \in Things(page) : ~Reads(j, visit, t)
  <2>1. CASE j.visit # visit
    BY <1>2, <2>1, ReadsNothing
  <2>2. CASE j.visit = visit
    <3>1. page = "knowledge"
      BY <1>1, <2>2 DEF IInv, Shapes
    <3>2. DOMAIN j.asks # {"knowledgeDocuments"} /\ DOMAIN j.asks # {"searchKnowledge"}
      OBVIOUS
    <3>3. ~Reads(j, visit, "documents") /\ ~Reads(j, visit, "results")
      BY <3>1, <3>2, KnowledgePage
    <3> QED
      BY <3>1, <3>3, KnowledgePage
  <2> QED
    BY <2>1, <2>2
<1>4. ASSUME jobs[n].visit = visit
      PROVE  /\ ~Owes(jobs[n], page, visit)
             /\ \A t \in Things(page) :
                  \/ ~Reads(jobs[n], visit, t) /\ Same(t, refs, shown, stores, stores)
                  \/ /\ Reads(jobs[n], visit, t) /\ Looks(t, refs, shown)
                     /\ Right(jobs[n], t, refs, server) => Shows(t, shown, stores, server)
  <2>1. page = "knowledge" /\ Things(page) = {"documents", "results"}
    BY <1>1, <1>4, KnowledgePage
  <2>2. \/ ~Reads(jobs[n], visit, "documents") /\ Same("documents", refs, shown, stores, stores)
        \/ /\ Reads(jobs[n], visit, "documents") /\ Looks("documents", refs, shown)
           /\ Right(jobs[n], "documents", refs, server) => Shows("documents", shown, stores, server)
    BY <1>4, <2>1, KnowledgePage DEF AsksFor
  <2>3. \/ ~Reads(jobs[n], visit, "results") /\ Same("results", refs, shown, stores, stores)
        \/ /\ Reads(jobs[n], visit, "results") /\ Looks("results", refs, shown)
           /\ Right(jobs[n], "results", refs, server) => Shows("results", shown, stores, server)
    BY <1>4, <2>1, KnowledgePage DEF AsksFor
  <2> QED
    BY <2>1, <2>2, <2>3
<1> QED
  BY <1>1, <1>3, <1>4, GoesQuiet

\* Who asks for one of these only, owes nothing.
LEMMA KnowledgeOwesNot ==
    ASSUME page = "knowledge", NEW j, NEW a, DOMAIN j.asks = {a},
           a \notin Changing \union {"knowledgeBases"}
    PROVE  ~Owes(j, page, visit)
<1>1. DOMAIN j.asks # {"knowledgeBases"} /\ \A b \in Changing : DOMAIN j.asks # {b}
  OBVIOUS
<1> QED
  BY <1>1, KnowledgePage

LEMMA FailureIs ==
    ASSUME NEW a, NEW state, Stands(a, state), state.is = "failure"
    PROVE  state = Failure
BY DEF Stands, Sent, Failure, Taken, Answer

LEMMA EndHolds ==
    ASSUME IInv, NEW n \in Slots, End(n), page' = page, visit' = visit
    PROVE  Holds(n, Idle) /\ DOMAIN Idle.asks = {} /\ Idle.visit = 0
<1>1. visit \in Nat \ {0}
  BY DEF IInv, Shapes
<1> QED
  BY <1>1, IdleHand DEF Holds, End

LEMMA DocumentsLoadedSettles ==
    ASSUME Settles, IInv, NEW n \in Slots, jobs[n].op \in KnowledgeOps, DocumentsLoaded(n),
           UNCHANGED <<server, page, visit, stores>>
    PROVE  Settles'
<1> DEFINE op == jobs[n].op
           shown == [refs EXCEPT !.documents = Value(n, "knowledgeDocuments"),
                                 !.uploading = IF op \in {"upload", "importUrl"} THEN FALSE ELSE @]
<1>1. /\ AsksFor(n, {"knowledgeDocuments"}) /\ AllAnswered(n) /\ Show(n, shown) /\ sure' = sure
      /\ IF op = "collections" THEN Continue(n, {"knowledgeModels"}) ELSE End(n)
  BY DEF DocumentsLoaded
<1>2. ASSUME page = "knowledge"
      PROVE  /\ ~Owes(jobs[n], page, visit) /\ shown.selected = refs.selected
             /\ Right(jobs[n], "documents", refs, server)
                   => shown.documents = DocumentsIn(server, refs.selected)
             /\ ~AsksFor(n, {"searchKnowledge"}) /\ shown.results = refs.results
  <2>1. refs \in KnowledgeRefs
    BY <1>2, KnowledgeHere
  <2>2. ~Owes(jobs[n], page, visit)
    BY <1>1, <1>2, KnowledgeOwesNot DEF AsksFor, Changing
  <2>3. /\ shown.selected = refs.selected /\ shown.results = refs.results
        /\ shown.documents = Value(n, "knowledgeDocuments")
    BY <2>1 DEF KnowledgeRefs
  <2> HIDE DEF shown
  <2>4. ASSUME Right(jobs[n], "documents", refs, server)
        PROVE  shown.documents = DocumentsIn(server, refs.selected)
    <3>1. Is(jobs[n].asks["knowledgeDocuments"], DocumentsIn(server, refs.selected))
      BY <1>2, <2>4, KnowledgePage
    <3>2. jobs[n].asks["knowledgeDocuments"].is = "answer"
      BY <1>1 DEF AsksFor, AllAnswered
    <3> QED
      BY <2>3, <3>1, <3>2, CameRight DEF Value
  <2> QED
    BY <1>1, <2>2, <2>3, <2>4 DEF AsksFor
<1> HIDE DEF shown
<1>3. CASE op # "collections"
  <2>1. End(n)
    BY <1>1, <1>3
  <2> QED
    BY <1>1, <1>2, <2>1, EndHolds, KnowledgeGoesQuiet
<1>4. CASE op = "collections"
  <2> DEFINE j == [jobs[n] EXCEPT !.asks = Asked({"knowledgeModels"})]
  <2>1. Handler(jobs[n])
    BY KnowledgeHandler
  <2>2. jobs' = [jobs EXCEPT ![n] = j]
    BY <1>1, <1>4, ContinueIs
  <2>3. j.visit = jobs[n].visit /\ DOMAIN j.asks = {"knowledgeModels"}
    BY <2>1, GoneOnIs
  <2> HIDE DEF j
  <2>4. Holds(n, j)
    BY <2>2 DEF Holds
  <2> QED
    BY <1>1, <1>2, <2>3, <2>4, KnowledgeGoesQuiet
<1> QED
  BY <1>3, <1>4

LEMMA KnowledgeModelSavedSettles ==
    ASSUME Settles, IInv, NEW n \in Slots, jobs[n].op \in KnowledgeOps, KnowledgeModelSaved(n),
           UNCHANGED <<server, page, visit, stores>>
    PROVE  Settles'
<1> DEFINE j == [jobs[n] EXCEPT !.asks = Asked({"knowledgeModels"})]
<1>1. /\ DOMAIN jobs[n].asks = {"importKnowledgeModel"} /\ Continue(n, {"knowledgeModels"})
      /\ Show(n, refs) /\ sure' = sure
  BY DEF KnowledgeModelSaved, Show, AsksFor
<1>2. Handler(jobs[n])
  BY KnowledgeHandler
<1>3. jobs' = [jobs EXCEPT ![n] = j]
  BY <1>1, ContinueIs
<1>4. j.visit = jobs[n].visit /\ DOMAIN j.asks = {"knowledgeModels"}
  BY <1>2, GoneOnIs
<1> HIDE DEF j
<1>5. Holds(n, j)
  BY <1>3 DEF Holds
<1>6. ~AsksFor(n, {"knowledgeDocuments"}) /\ ~AsksFor(n, {"searchKnowledge"})
  BY <1>1 DEF AsksFor
<1>7. page = "knowledge" => ~Owes(jobs[n], page, visit)
  BY <1>1, KnowledgeOwesNot DEF Changing
<1> QED
  BY <1>1, <1>4, <1>5, <1>6, <1>7, KnowledgeGoesQuiet

LEMMA KnowledgeRestSettles ==
    ASSUME Settles, IInv, NEW n \in Slots, jobs[n].op \in KnowledgeOps,
           \/ ModelConfigLoaded(n) \/ Searched(n) \/ IndexRebuilt(n) \/ KnowledgeModelTested(n)
           \/ KnowledgeFailed(n),
           UNCHANGED <<server, page, visit, stores>>
    PROVE  Settles'
<1> DEFINE D == DOMAIN jobs[n].asks
<1>1. Handler(jobs[n]) /\ D \in KnowledgeQuestions(jobs[n].op)
  BY KnowledgeHandler
<1>2. page = "knowledge" => refs \in KnowledgeRefs
  BY KnowledgeHere
<1>3. ASSUME D \in {{"knowledgeModels"}, {"rebuildKnowledge"}, {"testKnowledgeModel"}},
             End(n), sure' = sure, NEW shown, Show(n, shown),
             page = "knowledge" => DocumentsLeft(shown)
      PROVE  Settles'
  <2>1. ~AsksFor(n, {"knowledgeDocuments"}) /\ ~AsksFor(n, {"searchKnowledge"})
    BY <1>3 DEF AsksFor
  <2>2. page = "knowledge" => ~Owes(jobs[n], page, visit)
    BY <1>3, KnowledgeOwesNot DEF Changing
  <2> QED
    BY <1>3, <2>1, <2>2, EndHolds, KnowledgeGoesQuiet DEF DocumentsLeft
<1>4. CASE ModelConfigLoaded(n)
  <2> DEFINE shown == [refs EXCEPT !.modelConfig = Value(n, "knowledgeModels")]
  <2>1. D = {"knowledgeModels"} /\ Show(n, shown) /\ End(n) /\ sure' = sure
    BY <1>4 DEF ModelConfigLoaded, AsksFor
  <2>2. page = "knowledge" => DocumentsLeft(shown)
    BY <1>2 DEF KnowledgeRefs, DocumentsLeft
  <2> HIDE DEF shown
  <2> QED
    BY <1>3, <2>1, <2>2
<1>5. CASE IndexRebuilt(n)
  <2>1. D = {"rebuildKnowledge"} /\ Show(n, refs) /\ End(n) /\ sure' = sure /\ DocumentsLeft(refs)
    BY <1>5 DEF IndexRebuilt, AsksFor, Show, DocumentsLeft
  <2> QED
    BY <1>3, <2>1
<1>6. CASE KnowledgeModelTested(n)
  <2> DEFINE shown == [refs EXCEPT !.modelTesting = "none"]
  <2>1. D = {"testKnowledgeModel"} /\ Show(n, shown) /\ End(n) /\ sure' = sure
    BY <1>6 DEF KnowledgeModelTested, AsksFor
  <2>2. page = "knowledge" => DocumentsLeft(shown)
    BY <1>2 DEF KnowledgeRefs, DocumentsLeft
  <2> HIDE DEF shown
  <2> QED
    BY <1>3, <2>1, <2>2
<1>7. CASE Searched(n)
  <2> DEFINE a == "searchKnowledge"
             shown == [refs EXCEPT !.results = Value(n, a), !.loading = FALSE]
  <2>1. D = {a} /\ Show(n, shown) /\ End(n) /\ sure' = sure /\ jobs[n].asks[a].is = "answer"
    BY <1>7 DEF Searched, AsksFor, AllAnswered
  <2>2. AsksFor(n, {a}) /\ ~AsksFor(n, {"knowledgeDocuments"})
    BY <2>1 DEF AsksFor
  <2>3. ASSUME page = "knowledge"
        PROVE  /\ ~Owes(jobs[n], page, visit) /\ shown.selected = refs.selected
               /\ shown.documents = refs.documents
               /\ Right(jobs[n], "results", refs, server) => shown.results \in {None, refs.selected}
    <3>1. /\ shown.selected = refs.selected /\ shown.documents = refs.documents
          /\ shown.results = Value(n, a)
      BY <1>2, <2>3 DEF KnowledgeRefs
    <3> HIDE DEF shown
    <3>2. ~Owes(jobs[n], page, visit)
      BY <2>1, <2>3, KnowledgeOwesNot DEF Changing
    <3>3. Right(jobs[n], "results", refs, server) => Value(n, a) \in {None, refs.selected}
      BY <2>1, <2>3, KnowledgePage, CameRight DEF Value
    <3> QED
      BY <3>1, <3>2, <3>3
  <2> HIDE DEF shown
  <2> QED
    BY <2>1, <2>2, <2>3, EndHolds, KnowledgeGoesQuiet
<1>8. CASE KnowledgeFailed(n)
  <2> DEFINE op == jobs[n].op
             shown == [refs EXCEPT !.uploading = IF op \in {"upload", "importUrl"} THEN FALSE ELSE @,
                                   !.loading = IF op = "search" THEN FALSE ELSE @]
  <2>1. SomeFailed(n) /\ Show(n, shown) /\ End(n) /\ sure' = sure
    BY <1>8 DEF KnowledgeFailed
  <2>2. PICK a \in D : jobs[n].asks[a].is = "failure"
    BY <2>1 DEF SomeFailed
  <2>3. jobs[n].asks[a] = Failure
    BY <1>1, <2>2, FailureIs DEF Handler
  <2>4. ASSUME page = "knowledge"
        PROVE  /\ ~Owes(jobs[n], page, visit) /\ DocumentsLeft(shown)
               /\ D = {"knowledgeDocuments"} => ~Right(jobs[n], "documents", refs, server)
               /\ D = {"searchKnowledge"} => ~Right(jobs[n], "results", refs, server)
    <3>1. DocumentsLeft(shown)
      BY <1>2, <2>4 DEF KnowledgeRefs, DocumentsLeft
    <3>2. ~Owes(jobs[n], page, visit)
      BY <2>1, <2>2, <2>3, <2>4, KnowledgePage, SomeFailedIs
    <3>3. D = {"knowledgeDocuments"} => ~Right(jobs[n], "documents", refs, server)
      BY <2>2, <2>4, KnowledgePage, CameRight
    <3>4. D = {"searchKnowledge"} => ~Right(jobs[n], "results", refs, server)
      BY <2>2, <2>4, KnowledgePage, CameRight
    <3> QED
      BY <3>1, <3>2, <3>3, <3>4
  <2> HIDE DEF shown
  <2> QED
    BY <2>1, <2>4, EndHolds, KnowledgeGoesQuiet DEF DocumentsLeft, AsksFor
<1> QED
  BY <1>4, <1>5, <1>6, <1>7, <1>8

LEMMA KnowledgeResumeSettles ==
    ASSUME Settles, IInv, NEW n \in Slots, KnowledgeResume(n),
           UNCHANGED <<server, page, visit, stores>>
    PROVE  Settles'
BY CollectionsLoadedSettles, DocumentsLoadedSettles, KnowledgeModelSavedSettles, KnowledgeRestSettles
   DEF KnowledgeResume

------------------------------------------------------------------------------
(* What the stores take settles.                                             *)

\* What j, of which a has been taken, still waits for.
Remains(n, a, j) ==
    /\ \A b \in StoreRequests :
          (b \in DOMAIN j.asks /\ j.asks[b] # Taken) <=>
             (b # a /\ b \in DOMAIN jobs[n].asks /\ jobs[n].asks[b] # Taken)
    /\ \A b \in StoreRequests : b \in DOMAIN j.asks /\ j.asks[b] # Taken
                                   => j.asks[b] = jobs[n].asks[b]
    /\ Ends(n, a) => j.op \in {"idle", "refresh"} /\ DOMAIN j.asks \subseteq StoreRequests
    /\ ~Ends(n, a) => /\ j.op = jobs[n].op /\ j.visit = jobs[n].visit
                      /\ DOMAIN j.asks = DOMAIN jobs[n].asks /\ j.asks[a] = Taken
                      /\ \A b \in DOMAIN j.asks : b # a => j.asks[b] = jobs[n].asks[b]

Took(n, a) == IF Ends(n, a) THEN LeftAlone(n, a) ELSE [jobs[n] EXCEPT !.asks[a] = Taken]

LEMMA TakeRemains ==
    ASSUME IInv, NEW n \in Running, NEW a \in DOMAIN jobs[n].asks
    PROVE  Remains(n, a, Took(n, a))
<1> USE DEF IInv
<1>1. n \in Slots /\ Handler(jobs[n]) /\ visit \in Nat \ {0}
  BY DEF Running, Hands, Hand, Shapes
<1> DEFINE rest == {b \in StoreRequests \cap DOMAIN jobs[n].asks : b # a /\ ~Ready(n, b)}
<1>2. \A b : b \in rest <=> /\ b \in StoreRequests /\ b \in DOMAIN jobs[n].asks /\ b # a
                            /\ jobs[n].asks[b] # Taken
  BY <1>1, TakenIs DEF Ready
<1>3. CASE Ends(n, a) /\ rest = {}
  <2>1. Took(n, a) = Idle
    BY <1>3 DEF Took, LeftAlone
  <2>2. Idle.op = "idle" /\ DOMAIN Idle.asks = {}
    BY <1>1, IdleHand
  <2> QED
    BY <1>2, <1>3, <2>1, <2>2 DEF Remains
<1>4. CASE Ends(n, a) /\ rest # {}
  <2> DEFINE asks == [b \in rest |-> jobs[n].asks[b]]
             j == [jobs[n] EXCEPT !.op = "refresh", !.id = None, !.form = None, !.asks = asks]
  <2>1. Took(n, a) = j
    BY <1>4 DEF Took, LeftAlone
  <2>2. DOMAIN asks = rest /\ \A b \in rest : asks[b] = jobs[n].asks[b]
    OBVIOUS
  <2>3. j.op = "refresh" /\ j.asks = asks
    <3> HIDE DEF asks
    <3> QED
      BY <1>1 DEF Handler
  <2> HIDE DEF j, asks, rest
  <2>4. \A b \in rest : b \in StoreRequests
    BY <1>2
  <2> QED
    BY <1>2, <1>4, <2>1, <2>2, <2>3, <2>4 DEF Remains
<1>5. CASE ~Ends(n, a)
  <2> DEFINE j == Told(jobs[n], a, Taken)
  <2>1. Took(n, a) = j
    BY <1>5 DEF Took, Told
  <2>2. /\ j.op = jobs[n].op /\ j.visit = jobs[n].visit /\ DOMAIN j.asks = DOMAIN jobs[n].asks
        /\ j.asks[a] = Taken /\ \A b \in DOMAIN j.asks : b # a => j.asks[b] = jobs[n].asks[b]
    <3>1. DOMAIN jobs[n] = {"op", "id", "form", "visit", "asks"}
      BY <1>1 DEF Handler
    <3> QED
      BY <1>1, <3>1 DEF Told, Handler
  <2> HIDE DEF j
  <2> QED
    BY <1>5, <2>1, <2>2 DEF Remains
<1> QED
  BY <1>3, <1>4, <1>5

\* Handler n goes on as j when a has come; a store takes what it has been answered.
Takes(n, a, j) ==
    /\ n \in Running /\ a \in DOMAIN jobs[n].asks /\ HasCome(n, a) /\ Remains(n, a, j)
    /\ server' = server
    /\ IF a = "models"
       THEN jobs[n].asks[a].is = "answer" => stores'.profiles = Value(n, a)
       ELSE stores'.profiles = stores.profiles
    /\ IF a = "status"
       THEN jobs[n].asks[a].is = "answer" => stores'.status = Value(n, a) /\ ~stores'.statusError
       ELSE stores'.status = stores.status /\ stores'.statusError = stores.statusError

LEMMA ComeIs ==
    ASSUME NEW n, NEW a, HasCome(n, a), NEW value, Is(jobs[n].asks[a], value)
    PROVE  jobs[n].asks[a].is = "answer" /\ Value(n, a) = value
BY CameRight DEF HasCome, Value

LEMMA ComeNotTaken ==
    ASSUME NEW n, NEW a, HasCome(n, a)
    PROVE  jobs[n].asks[a] # Taken
BY DEF HasCome, Taken

LEMMA TakesProfiles ==
    ASSUME NEW n, NEW a, NEW j, Takes(n, a, j)
    PROVE  Stays(n, j, "profiles")
<1>1. /\ \A k : Reads(k, visit, "profiles") <=> "models" \in DOMAIN k.asks /\ k.asks["models"] # Taken
      /\ \A k, r, s : Right(k, "profiles", r, s) <=> Is(k.asks["models"], ProfilesIn(s))
      /\ \A r, st, s : Shows("profiles", r, st, s) <=> st.profiles = ProfilesIn(s)
  BY DEF Reads, Right, Shows
<1>2. CASE a = "models"
  <2>1. ~Reads(j, visit, "profiles") /\ Reads(jobs[n], visit, "profiles")
    BY <1>1, <1>2, ComeNotTaken DEF Takes, Remains, StoreRequests
  <2>2. ASSUME Right(jobs[n], "profiles", refs, server)
        PROVE  Shows("profiles", refs', stores', server')
    <3>1. Is(jobs[n].asks[a], ProfilesIn(server)) /\ HasCome(n, a)
      BY <1>1, <1>2, <2>2 DEF Takes
    <3>2. jobs[n].asks[a].is = "answer" /\ Value(n, a) = ProfilesIn(server)
      BY <3>1, ComeIs
    <3> QED
      BY <1>1, <1>2, <3>2 DEF Takes
  <2> QED
    BY <1>1, <2>1, <2>2 DEF Stays, Takes
<1>3. CASE a # "models"
  <2>1. /\ Reads(j, visit, "profiles") <=> Reads(jobs[n], visit, "profiles")
        /\ Reads(j, visit, "profiles") => j.asks["models"] = jobs[n].asks["models"]
    BY <1>1, <1>3 DEF Takes, Remains, StoreRequests
  <2>2. stores'.profiles = stores.profiles
    BY <1>3 DEF Takes
  <2> QED
    BY <1>1, <2>1, <2>2 DEF Stays, Takes
<1> QED
  BY <1>2, <1>3

LEMMA TakesStatus ==
    ASSUME NEW n, NEW a, NEW j, Takes(n, a, j)
    PROVE  Stays(n, j, "status")
<1>1. /\ \A k : Reads(k, visit, "status") <=> "status" \in DOMAIN k.asks /\ k.asks["status"] # Taken
      /\ \A k, r, s : Right(k, "status", r, s) <=> Is(k.asks["status"], StatusIn(s))
      /\ \A r, st, s : Shows("status", r, st, s) <=> st.status = StatusIn(s) /\ ~st.statusError
  BY DEF Reads, Right, Shows
<1>2. CASE a = "status"
  <2>1. ~Reads(j, visit, "status") /\ Reads(jobs[n], visit, "status")
    BY <1>1, <1>2, ComeNotTaken DEF Takes, Remains, StoreRequests
  <2>2. ASSUME Right(jobs[n], "status", refs, server)
        PROVE  Shows("status", refs', stores', server')
    <3>1. Is(jobs[n].asks[a], StatusIn(server)) /\ HasCome(n, a)
      BY <1>1, <1>2, <2>2 DEF Takes
    <3>2. jobs[n].asks[a].is = "answer" /\ Value(n, a) = StatusIn(server)
      BY <3>1, ComeIs
    <3> QED
      BY <1>1, <1>2, <3>2 DEF Takes
  <2> QED
    BY <1>1, <2>1, <2>2 DEF Stays, Takes
<1>3. CASE a # "status"
  <2>1. /\ Reads(j, visit, "status") <=> Reads(jobs[n], visit, "status")
        /\ Reads(j, visit, "status") => j.asks["status"] = jobs[n].asks["status"]
    BY <1>1, <1>3 DEF Takes, Remains, StoreRequests
  <2>2. stores'.status = stores.status /\ stores'.statusError = stores.statusError
    BY <1>3 DEF Takes
  <2> QED
    BY <1>1, <2>1, <2>2 DEF Stays, Takes
<1> QED
  BY <1>2, <1>3

\* Of the other things, a handler that waits for a store reads the overview's logs at most.
LEMMA TakesRecords ==
    ASSUME NEW n, NEW a, NEW j, Takes(n, a, j),
           jobs[n].op = "loadOverview" =>
              DOMAIN jobs[n].asks = OverviewLoad /\ (a = "status" \/ Ends(n, a)),
           \/ refs' = refs /\ (Reads(jobs[n], visit, "records") => ~Ends(n, a))
           \/ /\ Ends(n, a) /\ Reads(jobs[n], visit, "records")
              /\ Right(jobs[n], "records", refs, server) => Shows("records", refs', stores', server)
    PROVE  Stays(n, j, "records")
<1>1. /\ \A k : Reads(k, visit, "records") <=> k.visit = visit /\ k.op = "loadOverview"
      /\ \A k, r, s : Right(k, "records", r, s) <=>
            /\ Is(k.asks["logs"], s.logs) /\ Is(k.asks["onebotActions"], 0)
            /\ k.asks["status"] # Failure
      /\ \A r, st, s : Shows("records", r, st, s) <=> r.logs = s.logs /\ r.actions = 0
  BY DEF Reads, Right, Shows
<1>2. CASE Ends(n, a)
  <2>1. ~Reads(j, visit, "records")
    BY <1>1, <1>2 DEF Takes, Remains
  <2> QED
    BY <1>1, <1>2, <2>1 DEF Stays, Takes
<1>3. CASE ~Ends(n, a)
  <2>1. /\ Reads(j, visit, "records") <=> Reads(jobs[n], visit, "records")
        /\ Reads(j, visit, "records") => a = "status"
        /\ DOMAIN j.asks = DOMAIN jobs[n].asks /\ j.asks[a] = Taken
        /\ \A b \in DOMAIN j.asks : b # a => j.asks[b] = jobs[n].asks[b]
    BY <1>1, <1>3 DEF Takes, Remains
  <2>2. Taken # Failure
    BY DEF Taken, Failure
  <2>3. ASSUME Reads(j, visit, "records"), Right(jobs[n], "records", refs, server)
        PROVE  Right(j, "records", refs', server')
    <3>1. {"logs", "onebotActions"} \subseteq DOMAIN j.asks
      BY <1>1, <2>1, <2>3 DEF OverviewLoad
    <3>2. j.asks["logs"] = jobs[n].asks["logs"]
      BY <2>1, <2>3, <3>1
    <3>3. j.asks["onebotActions"] = jobs[n].asks["onebotActions"]
      BY <2>1, <2>3, <3>1
    <3> QED
      BY <1>1, <2>1, <2>2, <2>3, <3>2, <3>3 DEF Takes
  <2> QED
    BY <1>1, <1>3, <2>1, <2>3 DEF Stays, Takes
<1> QED
  BY <1>2, <1>3

LEMMA TakesOthers ==
    ASSUME NEW n, NEW a, NEW j, Takes(n, a, j),
           NEW t \in AllThings \ {"profiles", "status", "records"}, ~Reads(jobs[n], visit, t),
           Same(t, refs, refs', stores, stores')
    PROVE  Stays(n, j, t)
<1>1. /\ Looks(t, refs, refs')
      /\ Shows(t, refs, stores, server) => Shows(t, refs', stores', server)
  BY SameStays
<1>2. \A m : Right(jobs[m], t, refs, server) => Right(jobs[m], t, refs', server)
  BY <1>1, LooksRight
<1>3. CASE Ends(n, a)
  <2>1. DOMAIN j.asks \subseteq {"models", "status"}
    BY <1>3 DEF Takes, Remains, StoreRequests
  <2>2. ~Reads(j, visit, t)
    BY <2>1 DEF Reads, TaskList, BiliWatchLoad
  <2> QED
    BY <1>1, <1>2, <2>2 DEF Stays, Takes
<1>4. CASE ~Ends(n, a)
  <2>1. j.op = jobs[n].op /\ j.visit = jobs[n].visit /\ DOMAIN j.asks = DOMAIN jobs[n].asks
    BY <1>4 DEF Takes, Remains
  <2>2. ~Reads(j, visit, t)
    BY <2>1 DEF Reads
  <2> QED
    BY <1>1, <1>2, <2>2 DEF Stays, Takes
<1> QED
  BY <1>3, <1>4

\* Handler n takes a, which has come.
LEMMA TakeSettles ==
    ASSUME Settles, IInv, NEW n, NEW a, TakeAnswer(n, a), Takes(n, a, Took(n, a)),
           UNCHANGED <<page, visit, sure>>, ~Owes(jobs[n], page, visit),
           jobs[n].op = "loadOverview" =>
              DOMAIN jobs[n].asks = OverviewLoad /\ (a = "status" \/ Ends(n, a)),
           \A t \in Things(page) :
              /\ t \notin {"profiles", "status", "records"} =>
                    ~Reads(jobs[n], visit, t) /\ Same(t, refs, refs', stores, stores')
              /\ t = "records" =>
                    \/ refs' = refs /\ (Reads(jobs[n], visit, t) => ~Ends(n, a))
                    \/ /\ Ends(n, a) /\ Reads(jobs[n], visit, t)
                       /\ Right(jobs[n], t, refs, server) => Shows(t, refs', stores', server)
    PROVE  Settles'
<1> DEFINE j == Took(n, a)
<1>1. Holds(n, j)
  BY DEF TakeAnswer, Took, Holds, Takes, Running
<1> HIDE DEF j
<1>2. ASSUME NEW t \in Things(page)
      PROVE  Stays(n, j, t)
  <2>1. t \in AllThings
    BY ThingsKnown DEF IInv, Shapes
  <2>2. CASE t \notin {"profiles", "status", "records"}
    BY <2>1, <2>2, TakesOthers DEF j
  <2>3. CASE t = "records"
    BY <2>3, TakesRecords DEF j
  <2> QED
    BY <2>2, <2>3, TakesProfiles, TakesStatus DEF j
<1>3. server'.logs # 0
  BY DEF Settles, Takes
<1> QED
  BY <1>1, <1>2, <1>3, OneGoesOn DEF IInv

LEMMA RefreshedShows ==
    ASSUME IInv, NEW n \in Slots, NEW a \in StoreRequests, a \in DOMAIN jobs[n].asks
    PROVE  LET s == Refreshed(stores, n, a) IN
           /\ IF a = "models" THEN jobs[n].asks[a].is = "answer" => s.profiles = Value(n, a)
              ELSE s.profiles = stores.profiles
           /\ IF a = "status"
              THEN jobs[n].asks[a].is = "answer" => s.status = Value(n, a) /\ ~s.statusError
              ELSE s.status = stores.status /\ s.statusError = stores.statusError
<1>1. stores \in Stores
  BY DEF IInv, Shapes
<1>2. CASE a = "models"
  BY <1>1, <1>2 DEF Refreshed, ModelsRefreshed, Stores
<1>3. CASE a = "status"
  BY <1>1, <1>3 DEF Refreshed, RuntimeRefreshed, Stores
<1> QED
  BY <1>2, <1>3 DEF StoreRequests

LEMMA RefreshTakes ==
    ASSUME IInv, NEW n \in Running, NEW a \in StoreRequests, a \in DOMAIN jobs[n].asks,
           HasCome(n, a), server' = server,
           stores'.profiles = Refreshed(stores, n, a).profiles,
           stores'.status = Refreshed(stores, n, a).status,
           stores'.statusError = Refreshed(stores, n, a).statusError
    PROVE  Takes(n, a, Took(n, a))
<1> DEFINE s == Refreshed(stores, n, a)
<1>1. /\ IF a = "models" THEN jobs[n].asks[a].is = "answer" => s.profiles = Value(n, a)
         ELSE s.profiles = stores.profiles
      /\ IF a = "status"
         THEN jobs[n].asks[a].is = "answer" => s.status = Value(n, a) /\ ~s.statusError
         ELSE s.status = stores.status /\ s.statusError = stores.statusError
  BY RefreshedShows DEF Running
<1>2. Remains(n, a, Took(n, a))
  BY TakeRemains
<1> HIDE DEF s
<1> QED
  BY <1>1, <1>2 DEF Takes, s

LEMMA RefreshAloneSettles ==
    ASSUME Settles, IInv, NEW n \in Slots, RefreshAlone(n), UNCHANGED <<server, page, visit>>
    PROVE  Settles'
<1>1. PICK a \in DOMAIN jobs[n].asks :
         HasCome(n, a) /\ stores' = Refreshed(stores, n, a) /\ TakeAnswer(n, a)
  BY DEF RefreshAlone
<1>2. /\ jobs[n].op = "refresh" /\ n \in Running /\ refs' = refs /\ sure' = sure
      /\ DOMAIN jobs[n].asks \in {{"models"}, {"status"}, StoreRequests}
  <2>1. jobs[n].op = "refresh" /\ DOMAIN jobs[n].asks \in Questions(jobs[n].op)
    BY DEF RefreshAlone, IInv, Hands, Hand, Handler
  <2> QED
    BY <2>1, OtherAsks DEF Running, RefreshAlone
<1>3. a \in StoreRequests /\ DOMAIN jobs[n].asks \subseteq {"models", "status"}
  BY <1>2 DEF StoreRequests
<1>4. Takes(n, a, Took(n, a))
  BY <1>1, <1>2, <1>3, RefreshTakes
<1>5. ~Owes(jobs[n], page, visit)
  BY <1>2, <1>3 DEF Owes, TaskChanges, ModelOps, Submits, BiliWatchChanges, BiliWatchSaves, Changing
<1>6. ASSUME NEW t \in Things(page), t \notin {"profiles", "status"}
      PROVE  ~Reads(jobs[n], visit, t)
  BY <1>2, <1>3, <1>6 DEF Reads, TaskList, BiliWatchLoad
<1>7. \A t : Same(t, refs, refs', stores, stores') \/ t \in {"profiles", "status"}
  BY <1>2 DEF Same
<1> QED
  BY <1>1, <1>2, <1>4, <1>5, <1>6, <1>7, TakeSettles
------------------------------------------------------------------------------
(* The page of the models settles.                                           *)

LEMMA ModelsPage ==
    ASSUME page = "models"
    PROVE  /\ Things(page) = {"profiles", "status"}
           /\ \A j : Reads(j, visit, "profiles") <=>
                 "models" \in DOMAIN j.asks /\ j.asks["models"] # Taken
           /\ \A j : Reads(j, visit, "status") <=>
                 "status" \in DOMAIN j.asks /\ j.asks["status"] # Taken
           /\ \A j : Owes(j, page, visit) <=> /\ j.visit = visit /\ j.op \in ModelOps
                                              /\ DOMAIN j.asks # ModelsLoad /\ Answered(j)
           /\ \A r, q, st, su : Same("profiles", r, q, st, su) <=> su.profiles = st.profiles
           /\ \A r, q, st, su : Same("status", r, q, st, su) <=>
                 su.status = st.status /\ su.statusError = st.statusError
           /\ \A j, r, s : Right(j, "profiles", r, s) <=> Is(j.asks["models"], ProfilesIn(s))
           /\ \A j, r, s : Right(j, "status", r, s) <=> Is(j.asks["status"], StatusIn(s))
BY ThingsOf DEF Reads, Owes, Same, Right

\* A handler that only asks for a change reads nothing and leaves the stores alone.
LEMMA AskingSettles ==
    ASSUME Settles, IInv, page = "models", Free # {}, UNCHANGED <<server, page, visit>>,
           NEW new, NEW op, NEW id, NEW form, NEW a \in ModelRequests, Asking(new, op, id, form, a)
    PROVE  Settles'
<1> DEFINE j == Begun(op, id, form, {a})
<1>1. Begin(op, id, form, {a}) /\ stores' = stores /\ sure' = sure
  BY DEF Asking
<1>2. DOMAIN j.asks = {a} /\ a \notin {"models", "status"}
  BY BegunIs, RequestsApart DEF StoreRequests
<1> HIDE DEF j
<1>3. ~Reads(j, visit, "profiles") /\ ~Reads(j, visit, "status")
  BY <1>2, ModelsPage
<1>4. \A t \in Things(page) : ~Reads(j, visit, t) /\ Same(t, refs, refs', stores, stores')
  BY <1>1, <1>3, ModelsPage
<1> QED
  BY <1>1, <1>4, BeginsQuietly DEF j

LEMMA ModelsAskSettles ==
    ASSUME Settles, IInv, page = "models", Free # {}, ModelsAsk, UNCHANGED <<server, page, visit>>
    PROVE  Settles'
<1>1. {"importModels", "updateModel", "activateModel", "testModel", "activateEnvironment",
       "deleteModel"} \subseteq ModelRequests
  BY DEF ModelRequests
<1>2. ASSUME NEW typed \in Typed, SubmitSingle(typed)
      PROVE  Settles'
  <2> DEFINE edit == refs.dialog = "edit" /\ refs.editing # None
             a == IF edit THEN "updateModel" ELSE "importModels"
             op == IF edit THEN "submitEdit" ELSE "submitSingle"
             id == IF edit THEN refs.editing ELSE None
             form == FillModelForm(typed)
             new == [refs EXCEPT !.saving = TRUE, !.form = form]
  <2>1. Asking(new, op, id, form, a)
    BY <1>2 DEF SubmitSingle
  <2>2. a \in ModelRequests
    BY <1>1
  <2> HIDE DEF new, op, id, form, a
  <2> QED
    BY <2>1, <2>2, AskingSettles
<1>3. ASSUME NEW typed \in Typed, SubmitBulk(typed)
      PROVE  Settles'
  <2> DEFINE new == [refs EXCEPT !.saving = TRUE]
             form == [of |-> None, def |-> typed]
  <2>1. Asking(new, "submitBulk", None, form, "importModels")
    BY <1>3 DEF SubmitBulk
  <2> HIDE DEF new, form
  <2> QED
    BY <1>1, <2>1, AskingSettles
<1>4. ASSUME NEW p \in Rows, ActivateModel(p)
      PROVE  Settles'
  <2>1. Asking(refs, "activate", p, None, "activateModel")
    BY <1>4 DEF ActivateModel
  <2> QED
    BY <1>1, <2>1, AskingSettles
<1>5. ASSUME NEW p \in Rows, TestConnection(p)
      PROVE  Settles'
  <2> DEFINE new == [refs EXCEPT !.testing = p]
  <2>1. Asking(new, "test", p, None, "testModel")
    BY <1>5 DEF TestConnection
  <2> HIDE DEF new
  <2> QED
    BY <1>1, <2>1, AskingSettles
<1>6. ASSUME NEW p \in Rows, RemoveModel(p)
      PROVE  Settles'
  <2>1. Asking(refs, "remove", p, None, "deleteModel")
    BY <1>6 DEF RemoveModel
  <2> QED
    BY <1>1, <2>1, AskingSettles
<1>7. CASE UseEnvironment
  <2>1. Asking(refs, "useEnvironment", None, None, "activateEnvironment")
    BY <1>7 DEF UseEnvironment
  <2> QED
    BY <1>1, <2>1, AskingSettles
<1> QED
  BY <1>2, <1>3, <1>4, <1>5, <1>6, <1>7 DEF ModelsAsk

LEMMA ModelsOpenSettles ==
    ASSUME Settles, IInv, page = "models", ModelsOpenOrClose, UNCHANGED <<server, page, visit>>
    PROVE  Settles'
<1>1. jobs' = jobs /\ stores' = stores /\ sure' = sure
  BY DEF ModelsOpenOrClose, OpenCreateModel, OpenBulkImport, CancelModelDialog, OpenEditModel, Only
<1>2. \A t \in Things(page) : Same(t, refs, refs', stores, stores')
  BY <1>1, ModelsPage
<1> QED
  BY <1>1, <1>2, NothingAsked

LEMMA ModelChangedSettles ==
    ASSUME Settles, IInv, NEW n \in Slots, ModelChanged(n), UNCHANGED <<server, page, visit>>
    PROVE  Settles'
<1> DEFINE j == [jobs[n] EXCEPT !.asks = Asked(ModelsLoad)]
<1>1. /\ jobs[n].op \in ModelPageOps /\ Continue(n, ModelsLoad)
      /\ sure' => jobs[n].visit = visit /\ Reading(ModelsLoad) \subseteq {n}
  BY DEF ModelChanged, Reload, ModelPageOps
<1>2. jobs' = [jobs EXCEPT ![n] = j]
  BY <1>1, ContinueIs
<1>3. Handler(jobs[n]) /\ (jobs[n].visit = visit => page = "models")
  BY <1>1, ModelHandler
<1>4. j.asks = Asked(ModelsLoad) /\ DOMAIN j.asks = ModelsLoad
  BY <1>3, GoneOnIs
<1> HIDE DEF j
<1>5. ASSUME sure', NEW t \in Things(page)
      PROVE  /\ \A m \in Slots \ {n} : DOMAIN jobs[m].asks \intersect ModelsLoad = {}
                                          => ~Reads(jobs[m], visit, t)
             /\ Reads(j, visit, t) /\ Right(j, t, refs', server)
  <2>1. page = "models" /\ t \in {"profiles", "status"}
    BY <1>1, <1>3, <1>5, ModelsPage
  <2>2. \A m \in Slots \ {n} : DOMAIN jobs[m].asks \intersect ModelsLoad = {}
                                 => ~Reads(jobs[m], visit, t)
    BY <2>1, ModelsPage DEF ModelsLoad
  <2>3. "models" \in ModelsLoad /\ "status" \in ModelsLoad
    BY DEF ModelsLoad
  <2>4. ASSUME NEW a \in ModelsLoad
        PROVE  a \in DOMAIN j.asks /\ j.asks[a] # Taken /\ \A value : Is(j.asks[a], value)
    BY <1>4, AskedIs
  <2>5. Reads(j, visit, t) /\ Right(j, t, refs', server)
    <3>1. Reads(j, visit, "profiles") /\ Right(j, "profiles", refs', server)
      BY <2>1, <2>3, <2>4, ModelsPage
    <3>2. Reads(j, visit, "status") /\ Right(j, "status", refs', server)
      BY <2>1, <2>3, <2>4, ModelsPage
    <3> QED
      BY <2>1, <3>1, <3>2
  <2> QED
    BY <2>2, <2>5
<1>6. sure' => ToRead(n, j, ModelsLoad)
  BY <1>1, <1>5 DEF ToRead
<1> QED
  BY <1>2, <1>6, GoesOnToRead

LEMMA ModelRestSettles ==
    ASSUME Settles, IInv, NEW n \in Slots, ModelRefused(n) \/ ModelTested(n),
           UNCHANGED <<server, page, visit>>
    PROVE  Settles'
<1>1. ASSUME jobs[n].op \in ModelPageOps, ~AsksFor(n, ModelsLoad), End(n),
             UNCHANGED <<stores, sure>>, NEW shown, Show(n, shown),
             page = "models" => ~Owes(jobs[n], page, visit)
      PROVE  Settles'
  <2>1. /\ StoreRequests \intersect DOMAIN jobs[n].asks = {}
        /\ jobs[n].visit = visit => page = "models"
    BY <1>1, ModelHandler
  <2>2. ASSUME page = "models", NEW t \in Things(page)
        PROVE  ~Reads(jobs[n], visit, t) /\ Same(t, refs, shown, stores, stores)
    BY <2>1, <2>2, ModelsPage DEF StoreRequests
  <2> QED
    BY <1>1, <2>1, <2>2, EndsQuietly
<1>2. CASE ModelRefused(n)
  <2> DEFINE shown == ModelHandlerEnds(jobs[n].op, refs)
  <2>1. /\ jobs[n].op \in ModelPageOps /\ ~AsksFor(n, ModelsLoad) /\ End(n)
        /\ UNCHANGED <<stores, sure>> /\ Show(n, shown) /\ ~Answered(jobs[n])
    BY <1>2, SomeFailedIs DEF ModelRefused, ModelPageOps
  <2> HIDE DEF shown
  <2>2. page = "models" => ~Owes(jobs[n], page, visit)
    BY <2>1, ModelsPage
  <2> QED
    BY <1>1, <2>1, <2>2
<1>3. CASE ModelTested(n)
  <2> DEFINE shown == [refs EXCEPT !.testing = None]
  <2>1. /\ jobs[n].op = "test" /\ End(n) /\ UNCHANGED <<stores, sure>> /\ Show(n, shown)
    BY <1>3 DEF ModelTested
  <2> HIDE DEF shown
  <2>2. jobs[n].op \in ModelPageOps /\ jobs[n].op \notin ModelOps
    BY <2>1 DEF ModelPageOps, ModelOps, Submits
  <2>3. ~AsksFor(n, ModelsLoad)
    <3>1. DOMAIN jobs[n].asks = {"testModel"}
      BY <2>1, <2>2, ModelHandler DEF ModelQuestions
    <3> QED
      BY <3>1 DEF AsksFor, ModelsLoad
  <2>4. page = "models" => ~Owes(jobs[n], page, visit)
    BY <2>2, ModelsPage
  <2> QED
    BY <1>1, <2>1, <2>2, <2>3, <2>4
<1> QED
  BY <1>2, <1>3

LEMMA ModelsLoadingSettles ==
    ASSUME Settles, IInv, NEW n \in Slots, ModelsLoading(n), UNCHANGED <<server, page, visit>>
    PROVE  Settles'
<1> DEFINE op == jobs[n].op
           s(a) == Refreshed(stores, n, a)
<1>1. PICK a \in ModelsLoad :
         /\ HasCome(n, a)
         /\ stores' = IF Ends(n, a) THEN [s(a) EXCEPT !.profilesLoading = FALSE] ELSE s(a)
         /\ IF Ends(n, a) THEN Show(n, ModelHandlerEnds(op, refs)) ELSE UNCHANGED refs
         /\ TakeAnswer(n, a)
  BY DEF ModelsLoading
<1>2. /\ op \in ModelOps \union {"loadModels"} /\ op \in ModelPageOps /\ op # "loadOverview"
      /\ a \in DOMAIN jobs[n].asks /\ a \in StoreRequests
      /\ DOMAIN jobs[n].asks = {"models", "status"} /\ sure' = sure
  BY DEF ModelsLoading, AsksFor, ModelPageOps, ModelOps, Submits, ModelsLoad, StoreRequests
<1>3. n \in Running /\ (jobs[n].visit = visit => page = "models")
  BY <1>2, ModelHandler
<1>4. s(a) \in Stores
  BY <1>2, RefreshedType
<1>5. /\ stores'.profiles = s(a).profiles /\ stores'.status = s(a).status
      /\ stores'.statusError = s(a).statusError
  <2> DEFINE su == s(a)
  <2>1. stores' = IF Ends(n, a) THEN [su EXCEPT !.profilesLoading = FALSE] ELSE su
    BY <1>1
  <2>2. su \in Stores
    BY <1>4
  <2> HIDE DEF su
  <2>3. stores'.profiles = su.profiles /\ stores'.status = su.status /\ stores'.statusError = su.statusError
    BY <2>1, <2>2 DEF Stores
  <2> QED
    BY <2>3 DEF su
<1>6. Takes(n, a, Took(n, a))
  BY <1>1, <1>2, <1>3, <1>5, RefreshTakes
<1>7. ~Owes(jobs[n], page, visit)
  BY <1>2 DEF Owes, TaskChanges, ModelsLoad, ModelOps, Submits, BiliWatchChanges, BiliWatchSaves, Changing
<1>8. ASSUME NEW t \in Things(page), t \notin {"profiles", "status"}
      PROVE  ~Reads(jobs[n], visit, t) /\ refs' = refs
  <2>1. ~Reads(jobs[n], visit, t)
    BY <1>2, <1>8 DEF Reads, TaskList, BiliWatchLoad
  <2>2. page # "models"
    BY <1>8, ModelsPage
  <2> QED
    BY <1>1, <1>3, <2>1, <2>2 DEF Show
<1>9. \A t : refs' = refs => Same(t, refs, refs', stores, stores') \/ t \in {"profiles", "status"}
  BY DEF Same
<1> QED
  BY <1>1, <1>2, <1>6, <1>7, <1>8, <1>9, TakeSettles

LEMMA ModelsResumeSettles ==
    ASSUME Settles, IInv, NEW n \in Slots, ModelsResume(n), UNCHANGED <<server, page, visit>>
    PROVE  Settles'
BY ModelChangedSettles, ModelRestSettles, ModelsLoadingSettles DEF ModelsResume

------------------------------------------------------------------------------
(* The pages that only read settle.                                          *)

LEMMA MonitorPage ==
    ASSUME page \in MonitorPages
    PROVE  /\ \A j : ~Owes(j, page, visit)
           /\ page = "overview" => Things(page) = {"status", "records"}
           /\ page = "logs" => Things(page) = {"logs"}
           /\ page = "tools" => Things(page) = {"tools"}
           /\ page = "settings" => Things(page) = {"config"}
BY ThingsOf DEF MonitorPages, Owes

LEMMA RecordsAre ==
    /\ \A j, v : Reads(j, v, "records") <=> j.visit = v /\ j.op = "loadOverview"
    /\ \A j, r, s : Right(j, "records", r, s) <=>
          /\ Is(j.asks["logs"], s.logs) /\ Is(j.asks["onebotActions"], 0)
          /\ j.asks["status"] # Failure
    /\ \A r, st, s : Shows("records", r, st, s) <=> r.logs = s.logs /\ r.actions = 0
BY DEF Reads, Right, Shows

LEMMA StatusIs ==
    /\ \A j, v : Reads(j, v, "status") <=> "status" \in DOMAIN j.asks /\ j.asks["status"] # Taken
    /\ \A j, r, s : Right(j, "status", r, s) <=> Is(j.asks["status"], StatusIn(s))
BY DEF Reads, Right

\* The logs, the tools and the settings are read alone.
LEMMA ListsAre ==
    /\ \A j, v : Reads(j, v, "logs") <=> j.visit = v /\ DOMAIN j.asks = {"logs"}
    /\ \A j, v : Reads(j, v, "tools") <=> j.visit = v /\ DOMAIN j.asks = {"tools"}
    /\ \A j, v : Reads(j, v, "config") <=> j.visit = v /\ DOMAIN j.asks = {"config"}
    /\ \A j, r, s : Right(j, "logs", r, s) <=> Is(j.asks["logs"], s.logs)
    /\ \A j, r, s : Right(j, "tools", r, s) <=> Is(j.asks["tools"], 0)
    /\ \A j, r, s : Right(j, "config", r, s) <=> Is(j.asks["config"], 0)
    /\ \A r, st, s : Shows("logs", r, st, s) <=> r.logs = s.logs
    /\ \A r, st, s : Shows("tools", r, st, s) <=> r.tools = 0
    /\ \A r, st, s : Shows("config", r, st, s) <=> r.config = 0
    /\ \A t, r, q : t \in {"logs", "tools", "config"} => Looks(t, r, q)
BY DEF Reads, Right, Shows, Looks

\* Whoever reads the overview's logs has asked for all that it shows.
LEMMA RecordsAsked ==
    ASSUME IInv, NEW m \in Slots, DOMAIN jobs[m].asks \intersect OverviewLoad = {}
    PROVE  ~Reads(jobs[m], visit, "records") /\ ~Reads(jobs[m], visit, "status")
<1>1. "status" \in OverviewLoad
  BY DEF OverviewLoad
<1>2. jobs[m].op # "loadOverview"
  <2> SUFFICES ASSUME jobs[m].op = "loadOverview"
               PROVE  FALSE
    OBVIOUS
  <2>1. DOMAIN jobs[m].asks = OverviewLoad
    BY MonitorHandler DEF MonitorOps, MonitorQuestions
  <2> QED
    BY <1>1, <2>1
<1> QED
  BY <1>1, <1>2, RecordsAre, StatusIs

LEMMA ReloadOverviewSettles ==
    ASSUME Settles, IInv, page = "overview", Free # {}, ReloadOverview,
           UNCHANGED <<server, page, visit>>
    PROVE  Settles'
<1> DEFINE j == Begun("loadOverview", None, None, OverviewLoad)
<1>1. Begin("loadOverview", None, None, OverviewLoad) /\ (sure' => Reading(OverviewLoad) = {})
  BY DEF ReloadOverview
<1>2. /\ j.op = "loadOverview" /\ j.visit = visit /\ j.asks = Asked(OverviewLoad)
      /\ DOMAIN j.asks = OverviewLoad
  BY BegunIs
<1> HIDE DEF j
<1>3. {"status", "logs", "onebotActions"} \subseteq OverviewLoad
  BY DEF OverviewLoad
<1>4. Reads(j, visit, "status") /\ Right(j, "status", refs', server)
  BY <1>2, <1>3, AskedIs, StatusIs
<1>5. Reads(j, visit, "records") /\ Right(j, "records", refs', server)
  BY <1>2, <1>3, AskedIs, RecordsAre
<1>6. \A t \in Things(page) :
         /\ \A m \in Slots : DOMAIN jobs[m].asks \intersect OverviewLoad = {}
                                => ~Reads(jobs[m], visit, t)
         /\ Reads(j, visit, t) /\ Right(j, t, refs', server)
  BY <1>4, <1>5, RecordsAsked, MonitorPage DEF MonitorPages
<1> QED
  BY <1>1, <1>6, BeginsToRead DEF j

LEMMA ReadLogsSettles ==
    ASSUME Settles, IInv, page = "logs", Free # {}, ReadLogs, UNCHANGED <<server, page, visit>>
    PROVE  Settles'
<1> DEFINE j == Begun("loadLogs", None, None, {"logs"})
<1>1. Begin("loadLogs", None, None, {"logs"}) /\ (sure' => Reading({"logs"}) = {})
  BY DEF ReadLogs
<1>2. j.visit = visit /\ j.asks = Asked({"logs"}) /\ DOMAIN j.asks = {"logs"}
  BY BegunIs
<1> HIDE DEF j
<1>3. Reads(j, visit, "logs") /\ Right(j, "logs", refs', server)
  BY <1>2, AskedIs, ListsAre
<1>4. \A t \in Things(page) :
         /\ \A m \in Slots : DOMAIN jobs[m].asks \intersect {"logs"} = {}
                                => ~Reads(jobs[m], visit, t)
         /\ Reads(j, visit, t) /\ Right(j, t, refs', server)
  BY <1>3, ListsAre, MonitorPage DEF MonitorPages
<1> QED
  BY <1>1, <1>4, BeginsToRead DEF j

LEMMA ReloadToolsSettles ==
    ASSUME Settles, IInv, page = "tools", Free # {}, ReloadTools, UNCHANGED <<server, page, visit>>
    PROVE  Settles'
<1> DEFINE j == Begun("loadTools", None, None, {"tools"})
<1>1. Begin("loadTools", None, None, {"tools"}) /\ (sure' => Reading({"tools"}) = {})
  BY DEF ReloadTools
<1>2. j.visit = visit /\ j.asks = Asked({"tools"}) /\ DOMAIN j.asks = {"tools"}
  BY BegunIs
<1> HIDE DEF j
<1>3. Reads(j, visit, "tools") /\ Right(j, "tools", refs', server)
  BY <1>2, AskedIs, ListsAre
<1>4. \A t \in Things(page) :
         /\ \A m \in Slots : DOMAIN jobs[m].asks \intersect {"tools"} = {}
                                => ~Reads(jobs[m], visit, t)
         /\ Reads(j, visit, t) /\ Right(j, t, refs', server)
  BY <1>3, ListsAre, MonitorPage DEF MonitorPages
<1> QED
  BY <1>1, <1>4, BeginsToRead DEF j

LEMMA MonitorAskSettles ==
    ASSUME Settles, IInv, Free # {}, MonitorAsk, UNCHANGED <<server, page, visit>>
    PROVE  Settles'
BY ReloadOverviewSettles, ReadLogsSettles, ReloadToolsSettles DEF MonitorAsk, ReloadLogs

LEMMA PauseSettles ==
    ASSUME Settles, IInv, page = "logs", PauseLogs, UNCHANGED <<server, page, visit, stores>>
    PROVE  Settles'
<1>1. refs'.logs = refs.logs
  BY MonitorHere DEF PauseLogs, MonitorPages, RefsOf
<1>2. Same("logs", refs, refs', stores, stores')
  BY <1>1 DEF Same
<1> QED
  BY <1>2, MonitorPage, NothingAsked DEF PauseLogs, MonitorPages

\* A reading of one of the lists ends.
LEMMA ListEnds ==
    ASSUME Settles, IInv, NEW n \in Slots, jobs[n].op \in MonitorOps, jobs[n].op # "loadOverview",
           End(n), UNCHANGED <<server, page, visit, stores, sure>>, NEW shown, Show(n, shown),
           jobs[n].visit = visit =>
              \E t \in {"logs", "tools", "config"} :
                 /\ Things(page) = {t} /\ Reads(jobs[n], visit, t)
                 /\ Right(jobs[n], t, refs, server) => Shows(t, shown, stores, server)
    PROVE  Settles'
<1>1. /\ StoreRequests \intersect DOMAIN jobs[n].asks = {}
      /\ jobs[n].visit = visit => page \in MonitorPages
  BY MonitorHandler
<1> QED
  BY <1>1, ListsAre, MonitorPage, EndsQuietly

LEMMA LogsLoadedSettles ==
    ASSUME Settles, IInv, NEW n \in Slots, LogsLoaded(n), UNCHANGED <<server, page, visit>>
    PROVE  Settles'
<1> DEFINE shown == IF SomeFailed(n) THEN [refs EXCEPT !.error = TRUE]
                    ELSE [refs EXCEPT !.logs = Value(n, "logs"), !.error = FALSE]
<1>1. /\ jobs[n].op = "loadLogs" /\ jobs[n].op \in MonitorOps /\ HasCome(n, "logs")
      /\ Show(n, shown) /\ End(n) /\ UNCHANGED <<stores, sure>>
  BY DEF LogsLoaded, MonitorOps
<1>2. /\ DOMAIN jobs[n].asks = {"logs"}
      /\ jobs[n].visit = visit => page = "logs"
  BY <1>1, MonitorHandler DEF MonitorQuestions, MonitorPages, OpsOf
<1>3. ASSUME page = "logs", Right(jobs[n], "logs", refs, server)
      PROVE  Shows("logs", shown, stores, server)
  <2>1. Is(jobs[n].asks["logs"], server.logs)
    BY <1>3, ListsAre
  <2>2. jobs[n].asks["logs"].is = "answer" /\ Value(n, "logs") = server.logs
    BY <1>1, <2>1, ComeIs
  <2>3. ~SomeFailed(n)
    BY <1>2, <2>2 DEF SomeFailed
  <2>4. refs \in RefsOf("logs")
    BY <1>3, MonitorHere DEF MonitorPages
  <2> QED
    BY <2>2, <2>3, <2>4, ListsAre DEF RefsOf
<1> HIDE DEF shown
<1> QED
  BY <1>1, <1>2, <1>3, ListsAre, MonitorPage, ListEnds DEF MonitorPages

LEMMA ToolsLoadedSettles ==
    ASSUME Settles, IInv, NEW n \in Slots, ToolsLoaded(n), UNCHANGED <<server, page, visit>>
    PROVE  Settles'
<1> DEFINE shown == [refs EXCEPT !.loading = FALSE,
                                 !.tools = IF SomeFailed(n) THEN @ ELSE Value(n, "tools")]
<1>1. /\ jobs[n].op = "loadTools" /\ jobs[n].op \in MonitorOps /\ HasCome(n, "tools")
      /\ Show(n, shown) /\ End(n) /\ UNCHANGED <<stores, sure>>
  BY DEF ToolsLoaded, MonitorOps
<1>2. /\ DOMAIN jobs[n].asks = {"tools"}
      /\ jobs[n].visit = visit => page = "tools"
  BY <1>1, MonitorHandler DEF MonitorQuestions, MonitorPages, OpsOf
<1>3. ASSUME page = "tools", Right(jobs[n], "tools", refs, server)
      PROVE  Shows("tools", shown, stores, server)
  <2>1. Is(jobs[n].asks["tools"], 0)
    BY <1>3, ListsAre
  <2>2. jobs[n].asks["tools"].is = "answer" /\ Value(n, "tools") = 0
    BY <1>1, <2>1, ComeIs
  <2>3. ~SomeFailed(n)
    BY <1>2, <2>2 DEF SomeFailed
  <2>4. refs \in RefsOf("tools")
    BY <1>3, MonitorHere DEF MonitorPages
  <2> QED
    BY <2>2, <2>3, <2>4, ListsAre DEF RefsOf
<1> HIDE DEF shown
<1> QED
  BY <1>1, <1>2, <1>3, ListsAre, MonitorPage, ListEnds DEF MonitorPages

LEMMA SettingsLoadedSettles ==
    ASSUME Settles, IInv, NEW n \in Slots, SettingsLoaded(n), UNCHANGED <<server, page, visit>>
    PROVE  Settles'
<1> DEFINE shown == [refs EXCEPT !.config = IF SomeFailed(n) THEN @ ELSE Value(n, "config")]
<1>1. /\ jobs[n].op = "loadSettings" /\ jobs[n].op \in MonitorOps /\ HasCome(n, "config")
      /\ Show(n, shown) /\ End(n) /\ UNCHANGED <<stores, sure>>
  BY DEF SettingsLoaded, MonitorOps
<1>2. /\ DOMAIN jobs[n].asks = {"config"}
      /\ jobs[n].visit = visit => page = "settings"
  BY <1>1, MonitorHandler DEF MonitorQuestions, MonitorPages, OpsOf
<1>3. ASSUME page = "settings", Right(jobs[n], "config", refs, server)
      PROVE  Shows("config", shown, stores, server)
  <2>1. Is(jobs[n].asks["config"], 0)
    BY <1>3, ListsAre
  <2>2. jobs[n].asks["config"].is = "answer" /\ Value(n, "config") = 0
    BY <1>1, <2>1, ComeIs
  <2>3. ~SomeFailed(n)
    BY <1>2, <2>2 DEF SomeFailed
  <2>4. refs \in RefsOf("settings")
    BY <1>3, MonitorHere DEF MonitorPages
  <2> QED
    BY <2>2, <2>3, <2>4, ListsAre DEF RefsOf
<1> HIDE DEF shown
<1> QED
  BY <1>1, <1>2, <1>3, ListsAre, MonitorPage, ListEnds DEF MonitorPages

\* All that the overview asked for has come.
LEMMA OverviewCame ==
    ASSUME NEW n, NEW a \in OverviewLoad, DOMAIN jobs[n].asks = OverviewLoad, Handler(jobs[n]),
           HasCome(n, a), Ends(n, a), Right(jobs[n], "records", refs, server)
    PROVE  /\ jobs[n].asks[a].is # "failure"
           /\ Value(n, "logs") = server.logs /\ Value(n, "onebotActions") = 0
<1>1. /\ Is(jobs[n].asks["logs"], server.logs) /\ Is(jobs[n].asks["onebotActions"], 0)
      /\ jobs[n].asks["status"] # Failure
  BY RecordsAre
<1>2. OverviewLoad = {"status", "logs", "onebotActions"}
  BY DEF OverviewLoad
<1>3. Stands(a, jobs[n].asks[a])
  BY DEF Handler
<1>4. jobs[n].asks[a].is # "failure"
  BY <1>1, <1>2, <1>3, FailureIs, CameRight
<1>5. \A b \in OverviewLoad \ {a} : Ready(n, b)
  BY <1>4 DEF Ends
<1>6. jobs[n].asks[a].is = "answer"
  BY <1>4 DEF HasCome
<1>7. jobs[n].asks["logs"].is = "answer" /\ jobs[n].asks["onebotActions"].is = "answer"
  BY <1>2, <1>5, <1>6 DEF Ready, StoreRequests
<1> QED
  BY <1>1, <1>4, <1>7, CameRight DEF Value

LEMMA OverviewLoadingSettles ==
    ASSUME Settles, IInv, NEW n \in Slots, OverviewLoading(n), UNCHANGED <<server, page, visit>>
    PROVE  Settles'
<1> DEFINE taken(a) == IF a = "status" THEN RuntimeRefreshed(stores, n) ELSE stores
           shown(a) == IF jobs[n].asks[a].is = "failure" THEN refs
                       ELSE [refs EXCEPT !.logs = Value(n, "logs"),
                                         !.actions = Value(n, "onebotActions")]
<1>1. PICK a \in OverviewLoad :
         /\ HasCome(n, a) /\ (a = "status" \/ Ends(n, a))
         /\ stores' = IF Ends(n, a) THEN [taken(a) EXCEPT !.statusLoading = FALSE] ELSE taken(a)
         /\ IF ~Ends(n, a) THEN UNCHANGED refs ELSE Show(n, shown(a))
         /\ TakeAnswer(n, a)
  BY DEF OverviewLoading
<1>2. jobs[n].op = "loadOverview" /\ jobs[n].op \in MonitorOps /\ sure' = sure
  BY DEF OverviewLoading, MonitorOps
<1>3. /\ n \in Running /\ Handler(jobs[n]) /\ DOMAIN jobs[n].asks = OverviewLoad
      /\ jobs[n].visit = visit => page = "overview"
  BY <1>2, MonitorHandler DEF MonitorQuestions, MonitorPages, OpsOf
<1>4. taken(a) \in Stores
  <2>1. stores \in Stores
    BY DEF IInv, Shapes
  <2>2. a = "status" => taken(a) = Refreshed(stores, n, a)
    BY DEF Refreshed
  <2> QED
    BY <1>3, <2>1, <2>2, RefreshedType DEF StoreRequests
<1>5. /\ stores'.profiles = taken(a).profiles /\ stores'.status = taken(a).status
      /\ stores'.statusError = taken(a).statusError
  <2> DEFINE su == taken(a)
  <2>1. stores' = IF Ends(n, a) THEN [su EXCEPT !.statusLoading = FALSE] ELSE su
    BY <1>1
  <2>2. su \in Stores
    BY <1>4
  <2> HIDE DEF su
  <2>3. stores'.profiles = su.profiles /\ stores'.status = su.status /\ stores'.statusError = su.statusError
    BY <2>1, <2>2 DEF Stores
  <2> QED
    BY <2>3 DEF su
<1>6. Takes(n, a, Took(n, a))
  <2>1. CASE a = "status"
    <3>1. a \in StoreRequests /\ taken(a) = Refreshed(stores, n, a)
      BY <2>1 DEF StoreRequests, Refreshed
    <3> QED
      BY <1>1, <1>3, <1>5, <3>1, RefreshTakes
  <2>2. CASE a # "status"
    <3>1. a # "models"
      BY DEF OverviewLoad
    <3> QED
      BY <1>1, <1>3, <1>5, <2>2, <3>1, TakeRemains DEF Takes
  <2> QED
    BY <2>1, <2>2
<1> HIDE DEF taken
<1>7. ~Owes(jobs[n], page, visit)
  BY <1>2, <1>3 DEF Owes, OverviewLoad, TaskChanges, ModelOps, Submits, BiliWatchChanges,
                    BiliWatchSaves, Changing
<1>8. ASSUME NEW t \in Things(page), t \notin {"profiles", "status", "records"}
      PROVE  ~Reads(jobs[n], visit, t) /\ refs' = refs
  <2>1. ~Reads(jobs[n], visit, t)
    BY <1>2, <1>3, <1>8 DEF Reads, TaskList, BiliWatchLoad, OverviewLoad
  <2>2. page # "overview"
    BY <1>8, ThingsOf
  <2> QED
    BY <1>1, <1>3, <2>1, <2>2 DEF Show
<1>9. \A t : refs' = refs => Same(t, refs, refs', stores, stores') \/ t \in {"profiles", "status"}
  BY DEF Same
<1>10. \/ refs' = refs /\ (Reads(jobs[n], visit, "records") => ~Ends(n, a))
       \/ /\ Ends(n, a) /\ Reads(jobs[n], visit, "records")
          /\ Right(jobs[n], "records", refs, server) => Shows("records", refs', stores', server)
  <2>1. CASE ~Ends(n, a)
    BY <1>1, <2>1
  <2>2. CASE jobs[n].visit # visit
    BY <1>1, <2>2, RecordsAre DEF Show
  <2>3. CASE Ends(n, a) /\ jobs[n].visit = visit
    <3>1. ASSUME Right(jobs[n], "records", refs, server)
          PROVE  refs'.logs = server.logs /\ refs'.actions = 0
      <4>1. /\ jobs[n].asks[a].is # "failure" /\ Value(n, "logs") = server.logs
            /\ Value(n, "onebotActions") = 0
        BY <1>1, <1>3, <2>3, <3>1, OverviewCame
      <4>2. refs' = [refs EXCEPT !.logs = server.logs, !.actions = 0]
        BY <1>1, <2>3, <4>1 DEF Show
      <4>3. refs \in RefsOf("overview")
        BY <1>3, <2>3, MonitorHere DEF MonitorPages
      <4> QED
        BY <4>2, <4>3 DEF RefsOf
    <3> QED
      BY <1>2, <2>3, <3>1, RecordsAre
  <2> QED
    BY <2>1, <2>2, <2>3
<1> QED
  BY <1>1, <1>2, <1>3, <1>6, <1>7, <1>8, <1>9, <1>10, TakeSettles

LEMMA MonitorResumeSettles ==
    ASSUME Settles, IInv, NEW n \in Slots, MonitorResume(n), UNCHANGED <<server, page, visit>>
    PROVE  Settles'
BY OverviewLoadingSettles, LogsLoadedSettles, ToolsLoadedSettles, SettingsLoadedSettles
   DEF MonitorResume

------------------------------------------------------------------------------
(* The server answers.                                                       *)

\* What becomes of request a of j.
Served(j, a) == IF Reply(j, a).ok THEN Answer(Reply(j, a).value) ELSE Failure

\* What is only read is answered with what the tables hold.
LEMMA TasksServed ==
    ASSUME NEW j
    PROVE  Is(Served(j, "scheduledTasks"), server.tasks) /\ Served(j, "scheduledTaskHandlers") # Failure
<1>1. /\ Reply(j, "scheduledTasks") = TaskReply(j, "scheduledTasks")
      /\ Reply(j, "scheduledTaskHandlers") = TaskReply(j, "scheduledTaskHandlers")
  <2>1. "scheduledTasks" \in TaskRequests /\ "scheduledTaskHandlers" \in TaskRequests
    BY DEF TaskRequests, TaskList
  <2> QED
    BY <2>1, RequestsApart DEF Reply
<1>2. /\ TaskReply(j, "scheduledTasks") = [ok |-> TRUE, server |-> server, value |-> server.tasks]
      /\ TaskReply(j, "scheduledTaskHandlers") = [ok |-> TRUE, server |-> server, value |-> TRUE]
  BY DEF TaskReply
<1> QED
  BY <1>1, <1>2 DEF Served, Is, Answer, Failure

LEMMA StoresServed ==
    ASSUME NEW j
    PROVE  /\ Is(Served(j, "models"), ProfilesIn(server))
           /\ Is(Served(j, "status"), StatusIn(server)) /\ Served(j, "status") # Failure
<1>1. \A a \in StoreRequests : Reply(j, a) = StoreReply(j, a)
  BY RequestsApart DEF Reply
<1>2. "models" \in StoreRequests /\ "status" \in StoreRequests
  BY DEF StoreRequests
<1> QED
  BY <1>1, <1>2 DEF StoreReply, Served, Is, Answer, Failure, ProfilesIn, StatusIn

LEMMA KnowledgeServed ==
    ASSUME NEW j
    PROVE  /\ Served(j, "knowledgeBases") # Failure
           /\ Is(Served(j, "knowledgeDocuments"), DocumentsIn(server, j.id))
           /\ Is(Served(j, "searchKnowledge"), None) \/ Is(Served(j, "searchKnowledge"), j.id)
<1>1. \A a \in KnowledgeRequests : Reply(j, a) = KnowledgeReply(j, a)
  BY RequestsApart DEF Reply
<1>2. /\ "knowledgeBases" \in KnowledgeRequests /\ "knowledgeDocuments" \in KnowledgeRequests
      /\ "searchKnowledge" \in KnowledgeRequests
  BY DEF KnowledgeRequests
<1>3. KnowledgeReply(j, "knowledgeBases").ok
  BY DEF KnowledgeReply
<1>4. /\ KnowledgeReply(j, "knowledgeDocuments").ok
      /\ KnowledgeReply(j, "knowledgeDocuments").value = DocumentsIn(server, j.id)
  BY DEF KnowledgeReply, DocumentsOf, DocumentsIn
<1>5. /\ KnowledgeReply(j, "searchKnowledge").ok
      /\ KnowledgeReply(j, "searchKnowledge").value \in {None, j.id}
  BY DEF KnowledgeReply
<1> QED
  BY <1>1, <1>2, <1>3, <1>4, <1>5 DEF Served, Is, Answer, Failure

LEMMA BiliWatchServed ==
    ASSUME NEW j
    PROVE  /\ Is(Served(j, "biliWatchConfig"), server.config)
           /\ Is(Served(j, "biliWatchSubscriptions"), server.subscriptions)
           /\ Is(Served(j, "biliWatchDeliveries"), server.deliveries)
           /\ Served(j, "onebotBots") # Failure
<1>1. \A a \in BiliWatchRequests : Reply(j, a) = BiliWatchReply(j, a)
  BY RequestsApart DEF Reply
<1>2. BiliWatchLoad \subseteq BiliWatchRequests
  BY DEF BiliWatchRequests
<1>3. \A a \in BiliWatchLoad : BiliWatchReply(j, a).ok
  BY DEF BiliWatchReply, BiliWatchLoad
<1>4. /\ BiliWatchReply(j, "biliWatchConfig").value = server.config
      /\ BiliWatchReply(j, "biliWatchSubscriptions").value = server.subscriptions
      /\ BiliWatchReply(j, "biliWatchDeliveries").value = server.deliveries
  BY DEF BiliWatchReply
<1>5. \A a \in BiliWatchLoad : Served(j, a) = Answer(BiliWatchReply(j, a).value)
  BY <1>1, <1>2, <1>3 DEF Served
<1>6. /\ "biliWatchConfig" \in BiliWatchLoad /\ "biliWatchSubscriptions" \in BiliWatchLoad
      /\ "biliWatchDeliveries" \in BiliWatchLoad /\ "onebotBots" \in BiliWatchLoad
  BY DEF BiliWatchLoad
<1> QED
  BY <1>4, <1>5, <1>6 DEF Is, Answer, Failure

LEMMA MonitorServed ==
    ASSUME NEW j
    PROVE  /\ Is(Served(j, "logs"), server.logs) /\ Is(Served(j, "onebotActions"), 0)
           /\ Is(Served(j, "tools"), 0) /\ Is(Served(j, "config"), 0)
<1>1. \A a \in MonitorRequests : Reply(j, a) = MonitorReply(j, a)
  BY RequestsApart DEF Reply
<1> QED
  BY <1>1 DEF MonitorRequests, MonitorReply, Served, Is, Answer

\* j, with the answer to a.
AnsweredAt(k, j, a) ==
    /\ k.op = j.op /\ k.id = j.id /\ k.visit = j.visit /\ DOMAIN k.asks = DOMAIN j.asks
    /\ k.asks[a] = Served(j, a) /\ \A b \in DOMAIN j.asks : b # a => k.asks[b] = j.asks[b]

\* What a handler reads right it goes on to read right.
LEMMA ServedRight ==
    ASSUME IInv, NEW n \in Slots, NEW a \in DOMAIN jobs[n].asks, NEW k, AnsweredAt(k, jobs[n], a),
           NEW t \in AllThings, Reads(jobs[n], visit, t), Right(jobs[n], t, refs, server)
    PROVE  Right(k, t, refs, server)
<1> DEFINE j == jobs[n]
<1>1. CASE t = "tasks"
  <2>1. "scheduledTasks" \in DOMAIN j.asks /\ "scheduledTaskHandlers" \in DOMAIN j.asks
    BY <1>1 DEF Reads, TaskList
  <2> QED
    BY <1>1, <2>1, TasksServed DEF Right, AnsweredAt
<1>2. CASE t \in {"profiles", "status"}
  BY <1>2, StoresServed DEF Right, AnsweredAt, Reads
<1>3. CASE t \in {"documents", "results"}
  <2>1. /\ t = "documents" => "knowledgeDocuments" \in DOMAIN j.asks
        /\ t = "results" => "searchKnowledge" \in DOMAIN j.asks
    BY <1>3 DEF Reads
  <2> QED
    BY <1>3, <2>1, KnowledgeServed DEF Right, AnsweredAt
<1>4. CASE t = "subscriptions"
  <2>1. /\ "biliWatchConfig" \in DOMAIN j.asks /\ "biliWatchSubscriptions" \in DOMAIN j.asks
        /\ "biliWatchDeliveries" \in DOMAIN j.asks /\ "onebotBots" \in DOMAIN j.asks
    BY <1>4 DEF Reads, BiliWatchLoad
  <2> QED
    BY <1>4, <2>1, BiliWatchServed DEF Right, AnsweredAt
<1>5. CASE t = "records"
  <2>1. j.op = "loadOverview"
    BY <1>5 DEF Reads
  <2>2. DOMAIN j.asks \in MonitorQuestions(j.op)
    BY <2>1, MonitorHandler DEF MonitorOps
  <2>3. "logs" \in DOMAIN j.asks /\ "onebotActions" \in DOMAIN j.asks /\ "status" \in DOMAIN j.asks
    BY <2>1, <2>2 DEF MonitorQuestions, OverviewLoad
  <2> QED
    BY <1>5, <2>3, StoresServed, MonitorServed DEF Right, AnsweredAt
<1>6. CASE t \in {"logs", "tools", "config"}
  BY <1>6, MonitorServed DEF Right, AnsweredAt, Reads
<1> QED
  BY <1>1, <1>2, <1>3, <1>4, <1>5, <1>6 DEF AllThings

\* Which page's handlers ask for what.
LEMMA Askers ==
    ASSUME NEW op \in Ops, NEW D \in Questions(op), NEW a \in D
    PROVE  /\ a \in TaskRequests => op \in TaskOps
           /\ a \in ModelRequests => op \in ModelPageOps
           /\ a \in KnowledgeRequests => op \in KnowledgeOps
           /\ a \in BiliWatchRequests => op \in BiliWatchOps
<1>1. ModelsLoad = StoreRequests /\ OverviewLoad \subseteq StoreRequests \union MonitorRequests
  BY DEF ModelsLoad, StoreRequests, OverviewLoad, MonitorRequests
<1>2. CASE op \in TaskOps
  BY <1>2, TaskAsks, RequestsApart
<1>3. CASE op \in ModelPageOps
  BY <1>1, <1>3, ModelAsks, RequestsApart
<1>4. CASE op \in KnowledgeOps
  BY <1>4, KnowledgeAsks, RequestsApart
<1>5. CASE op \in BiliWatchOps
  BY <1>5, BiliWatchAsks, RequestsApart
<1>6. CASE op \in MonitorOps
  BY <1>1, <1>6, MonitorAsks, RequestsApart
<1>7. CASE op \in {"refresh", "idle"}
  BY <1>7, OtherAsks, RequestsApart DEF StoreRequests
<1> QED
  BY <1>2, <1>3, <1>4, <1>5, <1>6, <1>7 DEF Ops

LEMMA LogsStay ==
    ASSUME server \in Tables
    PROVE  /\ \A r, x : [server EXCEPT !.tasks[r] = x].logs = server.logs
           /\ \A r, x, y : [server EXCEPT !.tasks[r] = x, !.runs[r] = y].logs = server.logs
           /\ \A r, y : [server EXCEPT !.runs[r] = y].logs = server.logs
           /\ \A r, x : [server EXCEPT !.profiles[r] = x].logs = server.logs
           /\ \A x : [server EXCEPT !.active = x].logs = server.logs
           /\ \A r, x : [server EXCEPT !.documents[r] = x].logs = server.logs
           /\ \A r, x : /\ [server EXCEPT !.retrieval[r] = x].logs = server.logs
                        /\ [server EXCEPT !.retrieval[r] = x].documents = server.documents
           /\ \A x : [server EXCEPT !.config = x].logs = server.logs
           /\ \A r, x : [server EXCEPT !.subscriptions[r] = x].logs = server.logs
           /\ \A x : [server EXCEPT !.deliveries = x].logs = server.logs
BY DEF Tables

\* Who changes a table asks for that alone, is told that it is done, and will load its page.
LEMMA TaskChangeDone ==
    ASSUME server \in Tables, NEW j, NEW a \in TaskRequests, TaskReply(j, a).server # server
    PROVE  /\ TaskReply(j, a).ok /\ TaskReply(j, a).server.logs = server.logs
           /\ \A op \in TaskOps : \A D \in TaskQuestions(op) :
                 a \in D => op \in TaskChanges /\ D = {a} /\ D # TaskList
<1>1. a \in {"createScheduledTask", "updateScheduledTask", "deleteScheduledTask", "runScheduledTask"}
  <2>1. TaskReply(j, "scheduledTasks").server = server
    BY DEF TaskReply
  <2>2. TaskReply(j, "scheduledTaskHandlers").server = server
    BY DEF TaskReply
  <2>3. TaskReply(j, "scheduledTaskRuns").server = server
    BY DEF TaskReply
  <2> QED
    BY <2>1, <2>2, <2>3 DEF TaskRequests, TaskList
<1>2. TaskReply(j, a).ok /\ TaskReply(j, a).server.logs = server.logs
  <2>1. CASE a = "createScheduledTask"
    BY <2>1, LogsStay DEF TaskReply
  <2>2. CASE a = "updateScheduledTask"
    <3> DEFINE known == j.id # None /\ server.tasks[j.id] # None
               tables == [server EXCEPT !.tasks[j.id] = [def |-> j.form.def, enabled |-> j.form.enabled]]
    <3>1. TaskReply(j, a) = IF known THEN [ok |-> TRUE, server |-> tables, value |-> None]
                            ELSE [ok |-> FALSE, server |-> server, value |-> None]
      BY <2>2 DEF TaskReply
    <3>2. tables.logs = server.logs
      BY LogsStay
    <3> HIDE DEF known, tables
    <3> QED
      BY <3>1, <3>2
  <2>3. CASE a = "deleteScheduledTask"
    <3> DEFINE known == j.id # None /\ server.tasks[j.id] # None
               tables == [server EXCEPT !.tasks[j.id] = None, !.runs[j.id] = 0]
    <3>1. TaskReply(j, a) = [ok |-> known, server |-> IF known THEN tables ELSE server,
                             value |-> None]
      BY <2>3 DEF TaskReply
    <3>2. tables.logs = server.logs
      BY LogsStay
    <3> HIDE DEF known, tables
    <3> QED
      BY <3>1, <3>2
  <2>4. CASE a = "runScheduledTask"
    <3> DEFINE known == j.id # None /\ server.tasks[j.id] # None
               more == server.runs[j.id] < MaxRuns
               tables == [server EXCEPT !.runs[j.id] = @ + 1]
    <3>1. TaskReply(j, a) = [ok |-> known, server |-> IF known /\ more THEN tables ELSE server,
                             value |-> None]
      BY <2>4 DEF TaskReply
    <3>2. tables.logs = server.logs
      BY DEF Tables
    <3> HIDE DEF known, more, tables
    <3> QED
      BY <3>1, <3>2
  <2> QED
    BY <1>1, <2>1, <2>2, <2>3, <2>4
<1>3. \A op \in TaskOps : \A D \in TaskQuestions(op) :
         a \in D => op \in TaskChanges /\ D = {a} /\ D # TaskList
  BY <1>1 DEF TaskOps, TaskQuestions, TaskChanges, TaskList
<1> QED
  BY <1>2, <1>3

LEMMA ModelChangeDone ==
    ASSUME server \in Tables, NEW j, NEW a \in ModelRequests, ModelReply(j, a).server # server
    PROVE  /\ ModelReply(j, a).ok /\ ModelReply(j, a).server.logs = server.logs
           /\ \A op \in ModelPageOps : \A D \in ModelQuestions(op) :
                 a \in D => op \in ModelOps /\ D = {a} /\ D # ModelsLoad
<1>1. a \in {"importModels", "activateModel", "activateEnvironment", "updateModel", "deleteModel"}
  <2>1. ModelReply(j, "testModel").server = server
    BY DEF ModelReply
  <2> QED
    BY <2>1 DEF ModelRequests
<1>2. ModelReply(j, a).ok /\ ModelReply(j, a).server.logs = server.logs
  <2>1. CASE a = "importModels"
    BY <2>1, LogsStay DEF ModelReply
  <2>2. CASE a = "updateModel"
    BY <2>2, LogsStay DEF ModelReply
  <2>3. CASE a = "activateModel"
    BY <2>3, LogsStay DEF ModelReply
  <2>4. CASE a = "activateEnvironment"
    BY <2>4, LogsStay DEF ModelReply
  <2>5. CASE a = "deleteModel"
    BY <2>5, LogsStay DEF ModelReply
  <2> QED
    BY <1>1, <2>1, <2>2, <2>3, <2>4, <2>5
<1>3. \A op \in ModelPageOps : \A D \in ModelQuestions(op) :
         a \in D => op \in ModelOps /\ D = {a} /\ D # ModelsLoad
  BY <1>1 DEF ModelPageOps, ModelOps, Submits, ModelQuestions, ModelsLoad
<1> QED
  BY <1>2, <1>3

LEMMA KnowledgeChangeDone ==
    ASSUME server \in Tables, NEW j, NEW a \in KnowledgeRequests, KnowledgeReply(j, a).server # server
    PROVE  /\ KnowledgeReply(j, a).ok /\ KnowledgeReply(j, a).server.logs = server.logs
           /\ \/ a \in Changing
              \/ /\ a = "importKnowledgeModel"
                 /\ KnowledgeReply(j, a).server.documents = server.documents
           /\ \A op \in KnowledgeOps : \A D \in KnowledgeQuestions(op) : a \in D => D = {a}
<1>1. a \in Changing \union {"importKnowledgeModel"}
  BY DEF KnowledgeReply, KnowledgeRequests, Changing
<1>2. /\ KnowledgeReply(j, a).ok /\ KnowledgeReply(j, a).server.logs = server.logs
      /\ a = "importKnowledgeModel" => KnowledgeReply(j, a).server.documents = server.documents
  <2>1. CASE a \in {"uploadKnowledgeDocument", "importKnowledgeUrl"}
    <3> DEFINE unused == {d \in Rows : server.documents[d] = None}
               tables == [server EXCEPT !.documents[CHOOSE d \in unused : TRUE] = j.id]
    <3>1. KnowledgeReply(j, a) = IF unused = {} THEN [ok |-> FALSE, server |-> server, value |-> None]
                                 ELSE [ok |-> TRUE, server |-> tables, value |-> None]
      BY <2>1 DEF KnowledgeReply
    <3>2. tables.logs = server.logs
      BY LogsStay
    <3> HIDE DEF unused, tables
    <3> QED
      BY <2>1, <3>1, <3>2
  <2>2. CASE a = "deleteKnowledgeDocument"
    <3> DEFINE tables == [server EXCEPT !.documents[j.form] = None]
    <3>1. KnowledgeReply(j, a) = [ok |-> TRUE, server |-> tables, value |-> None]
      BY <2>2 DEF KnowledgeReply
    <3>2. tables.logs = server.logs
      BY LogsStay
    <3> HIDE DEF tables
    <3>3. KnowledgeReply(j, a).ok /\ KnowledgeReply(j, a).server.logs = server.logs
      BY <3>1, <3>2
    <3> QED
      BY <2>2, <3>3
  <2>3. CASE a = "importKnowledgeModel"
    <3> DEFINE tables == [server EXCEPT !.retrieval[j.form] = TRUE]
    <3>1. KnowledgeReply(j, a) = [ok |-> TRUE, server |-> tables, value |-> None]
      BY <2>3 DEF KnowledgeReply
    <3>2. tables.logs = server.logs /\ tables.documents = server.documents
      BY LogsStay
    <3> HIDE DEF tables
    <3> QED
      BY <3>1, <3>2
  <2> QED
    BY <1>1, <2>1, <2>2, <2>3 DEF Changing
<1>3. \A op \in KnowledgeOps : \A D \in KnowledgeQuestions(op) : a \in D => D = {a}
  BY DEF KnowledgeOps, KnowledgeQuestions
<1> QED
  BY <1>1, <1>2, <1>3

LEMMA BiliWatchChangeDone ==
    ASSUME server \in Tables, NEW j, NEW a \in BiliWatchRequests, BiliWatchReply(j, a).server # server
    PROVE  /\ BiliWatchReply(j, a).ok /\ BiliWatchReply(j, a).server.logs = server.logs
           /\ \A op \in BiliWatchOps : \A D \in BiliWatchQuestions(op) :
                 a \in D => op \in BiliWatchChanges /\ D = {a} /\ D # BiliWatchLoad
<1>1. a \in {"updateBiliWatchConfig", "createBiliWatchSubscription", "updateBiliWatchSubscription",
             "deleteBiliWatchSubscription"}
  <2>1. \A b \in BiliWatchLoad : BiliWatchReply(j, b).server = server
    BY DEF BiliWatchReply, BiliWatchLoad
  <2>2. BiliWatchReply(j, "testBiliWatchCookie").server = server
    BY DEF BiliWatchReply
  <2> QED
    BY <2>1, <2>2 DEF BiliWatchRequests
<1>2. BiliWatchReply(j, a).ok /\ BiliWatchReply(j, a).server.logs = server.logs
  <2>1. CASE a = "updateBiliWatchConfig"
    <3> DEFINE config == [settings |-> j.form.settings,
                          cookie |-> server.config.cookie \/ j.form.cookie]
               tables == [server EXCEPT !.config = config]
    <3>1. BiliWatchReply(j, a) = [ok |-> TRUE, server |-> tables, value |-> config]
      BY <2>1 DEF BiliWatchReply
    <3>2. tables.logs = server.logs
      BY LogsStay
    <3> HIDE DEF tables, config
    <3> QED
      BY <3>1, <3>2
  <2>2. CASE a = "createBiliWatchSubscription"
    <3> DEFINE tables == [server EXCEPT !.subscriptions[j.form.target] = j.form.def]
    <3>1. BiliWatchReply(j, a) = [ok |-> TRUE, server |-> tables, value |-> None]
      BY <2>2 DEF BiliWatchReply
    <3>2. tables.logs = server.logs
      BY LogsStay
    <3> HIDE DEF tables
    <3> QED
      BY <3>1, <3>2
  <2>3. CASE a = "updateBiliWatchSubscription"
    <3> DEFINE known == j.id # None /\ server.subscriptions[j.id] # None
               tables == [server EXCEPT !.subscriptions[j.id] = j.form.def]
    <3>1. BiliWatchReply(j, a) =
             IF known /\ j.form.target = j.id THEN [ok |-> TRUE, server |-> tables, value |-> None]
             ELSE [ok |-> FALSE, server |-> server, value |-> None]
      BY <2>3 DEF BiliWatchReply
    <3>2. tables.logs = server.logs
      BY LogsStay
    <3> HIDE DEF known, tables
    <3> QED
      BY <3>1, <3>2
  <2>4. CASE a = "deleteBiliWatchSubscription"
    <3> DEFINE known == j.id # None /\ server.subscriptions[j.id] # None
               tables == [server EXCEPT !.subscriptions[j.id] = None]
    <3>1. BiliWatchReply(j, a) = [ok |-> known, server |-> IF known THEN tables ELSE server,
                                  value |-> None]
      BY <2>4 DEF BiliWatchReply
    <3>2. tables.logs = server.logs
      BY LogsStay
    <3> HIDE DEF known, tables
    <3> QED
      BY <3>1, <3>2
  <2> QED
    BY <1>1, <2>1, <2>2, <2>3, <2>4
<1>3. \A op \in BiliWatchOps : \A D \in BiliWatchQuestions(op) :
         a \in D => op \in BiliWatchChanges /\ D = {a} /\ D # BiliWatchLoad
  BY <1>1 DEF BiliWatchOps, BiliWatchSaves, BiliWatchChanges, BiliWatchQuestions, BiliWatchLoad
<1> QED
  BY <1>2, <1>3

\* A request that changes the tables is done; it is its handler's only one.
LEMMA ServedChange ==
    ASSUME IInv, NEW n \in Slots, NEW a \in DOMAIN jobs[n].asks, a \in Requests,
           Reply(jobs[n], a).server # server
    PROVE  /\ Reply(jobs[n], a).ok /\ Reply(jobs[n], a).server.logs = server.logs
           /\ DOMAIN jobs[n].asks = {a}
           /\ \/ /\ jobs[n].op \in TaskOps /\ jobs[n].op \in TaskChanges /\ {a} # TaskList
              \/ /\ jobs[n].op \in ModelPageOps /\ jobs[n].op \in ModelOps /\ {a} # ModelsLoad
              \/ /\ jobs[n].op \in KnowledgeOps /\ a \in Changing
              \/ /\ jobs[n].op \in KnowledgeOps /\ a = "importKnowledgeModel"
                 /\ Reply(jobs[n], a).server.documents = server.documents
              \/ /\ jobs[n].op \in BiliWatchOps /\ jobs[n].op \in BiliWatchChanges
                 /\ {a} # BiliWatchLoad
<1> DEFINE j == jobs[n]
<1>1. /\ j.op \in Ops /\ DOMAIN j.asks \in Questions(j.op) /\ server \in Tables
  BY DEF IInv, Hands, Hand, Handler, Shapes
<1>2. CASE a \in TaskRequests
  <2>1. Reply(j, a) = TaskReply(j, a)
    BY <1>2, RequestsApart DEF Reply
  <2>2. j.op \in TaskOps
    BY <1>1, <1>2, Askers
  <2>3. DOMAIN j.asks \in TaskQuestions(j.op)
    BY <2>2, TaskHandler
  <2>4. TaskReply(j, a).ok /\ TaskReply(j, a).server.logs = server.logs
    BY <1>1, <1>2, <2>1, TaskChangeDone
  <2>5. j.op \in TaskChanges /\ DOMAIN j.asks = {a} /\ {a} # TaskList
    BY <1>1, <1>2, <2>1, <2>2, <2>3, TaskChangeDone
  <2> QED
    BY <2>1, <2>2, <2>4, <2>5
<1>3. CASE a \in ModelRequests
  <2>1. Reply(j, a) = ModelReply(j, a)
    BY <1>3, RequestsApart DEF Reply
  <2>2. j.op \in ModelPageOps
    BY <1>1, <1>3, Askers
  <2>3. DOMAIN j.asks \in ModelQuestions(j.op)
    BY <2>2, ModelHandler
  <2>4. ModelReply(j, a).ok /\ ModelReply(j, a).server.logs = server.logs
    BY <1>1, <1>3, <2>1, ModelChangeDone
  <2>5. j.op \in ModelOps /\ DOMAIN j.asks = {a} /\ {a} # ModelsLoad
    BY <1>1, <1>3, <2>1, <2>2, <2>3, ModelChangeDone
  <2> QED
    BY <2>1, <2>2, <2>4, <2>5
<1>4. CASE a \in KnowledgeRequests
  <2>1. Reply(j, a) = KnowledgeReply(j, a)
    BY <1>4, RequestsApart DEF Reply
  <2>2. j.op \in KnowledgeOps
    BY <1>1, <1>4, Askers
  <2>3. DOMAIN j.asks \in KnowledgeQuestions(j.op)
    BY <2>2, KnowledgeHandler
  <2> QED
    BY <1>1, <1>4, <2>1, <2>2, <2>3, KnowledgeChangeDone
<1>5. CASE a \in BiliWatchRequests
  <2>1. Reply(j, a) = BiliWatchReply(j, a)
    BY <1>5, RequestsApart DEF Reply
  <2>2. j.op \in BiliWatchOps
    BY <1>1, <1>5, Askers
  <2>3. DOMAIN j.asks \in BiliWatchQuestions(j.op)
    BY <2>2, BiliWatchHandler
  <2>4. BiliWatchReply(j, a).ok /\ BiliWatchReply(j, a).server.logs = server.logs
    BY <1>1, <1>5, <2>1, BiliWatchChangeDone
  <2>5. j.op \in BiliWatchChanges /\ DOMAIN j.asks = {a} /\ {a} # BiliWatchLoad
    BY <1>1, <1>5, <2>1, <2>2, <2>3, BiliWatchChangeDone
  <2> QED
    BY <2>1, <2>2, <2>4, <2>5
<1>6. a \notin StoreRequests \union MonitorRequests
  <2>1. ASSUME a \in StoreRequests
        PROVE  Reply(j, a).server = server
    BY <2>1, RequestsApart DEF Reply, StoreReply
  <2>2. ASSUME a \in MonitorRequests
        PROVE  Reply(j, a).server = server
    BY <2>2, RequestsApart DEF Reply, MonitorReply
  <2> QED
    BY <2>1, <2>2
<1> QED
  BY <1>2, <1>3, <1>4, <1>5, <1>6 DEF Requests

LEMMA ServeSettles ==
    ASSUME Settles, IInv, NEW n \in Slots, Serve(n)
    PROVE  Settles'
<1>1. PICK a \in Waiting(n) :
        /\ server' = Reply(jobs[n], a).server
        /\ jobs' = [jobs EXCEPT ![n].asks[a] = IF Reply(jobs[n], a).ok
                                               THEN Answer(Reply(jobs[n], a).value) ELSE Failure]
        /\ sure' = (sure /\ (Reply(jobs[n], a).server = server \/ jobs[n].visit = visit))
        /\ UNCHANGED <<page, visit, refs, stores, timer, budget>>
  BY DEF Serve
<1> DEFINE state == Served(jobs[n], a)
           k == Told(jobs[n], a, state)
<1>2. /\ Hand(jobs[n]) /\ a \in DOMAIN jobs[n].asks /\ jobs[n].asks[a] = Sent
      /\ a \in Requests /\ Fit(jobs[n], a)
  BY WaitingRuns DEF IInv
<1>3. Stands(a, state) /\ state # Taken
  <2>1. Replied(a, Reply(jobs[n], a).value)
    BY <1>2, Replies DEF IInv, Shapes
  <2> QED
    BY <2>1 DEF Stands, Answer, Failure, Taken, Served
<1>4. Holds(n, k)
  BY <1>1 DEF Holds, Told, Served
<1> HIDE DEF state, k
<1>5. AnsweredAt(k, jobs[n], a) /\ k.asks[a] = state
  <2>1. /\ k.op = jobs[n].op /\ k.id = jobs[n].id /\ k.visit = jobs[n].visit
        /\ DOMAIN k.asks = DOMAIN jobs[n].asks
        /\ k.asks[a] = state /\ \A b \in DOMAIN jobs[n].asks : b # a => k.asks[b] = jobs[n].asks[b]
    BY <1>2, <1>3, ToldHand DEF k
  <2> QED
    BY <2>1 DEF AnsweredAt, state
<1>6. \A t : Reads(k, visit, t) <=> Reads(jobs[n], visit, t)
  <2>1. Sent # Taken
    BY DEF Sent, Taken
  <2> QED
    BY <1>2, <1>3, <1>5, <2>1 DEF Reads, AnsweredAt
<1>7. Owes(jobs[n], page, visit) => Owes(k, page, visit)
  <2>1. ~Answered(jobs[n])
    BY <1>2 DEF Answered, Sent
  <2>2. DOMAIN jobs[n].asks = {"knowledgeBases"} => k.asks["knowledgeBases"] # Failure
    BY <1>2, <1>5, KnowledgeServed DEF AnsweredAt
  <2> QED
    BY <1>5, <2>1, <2>2 DEF Owes, AnsweredAt
<1>8. CASE server' = server
  <2>1. ASSUME NEW t \in Things(page)
        PROVE  Stays(n, k, t)
    <3>1. t \in AllThings
      BY ThingsKnown DEF IInv, Shapes
    <3>2. Reads(jobs[n], visit, t) /\ Right(jobs[n], t, refs, server) => Right(k, t, refs, server)
      BY <1>2, <1>5, <3>1, ServedRight
    <3> QED
      BY <1>1, <1>6, <1>8, <3>2 DEF Stays
  <2>2. server'.logs # 0 /\ (sure' => sure)
    BY <1>1, <1>8 DEF Settles
  <2> QED
    BY <1>4, <1>7, <2>1, <2>2, OneGoesOn DEF IInv
<1>9. CASE server' # server
  <2>1. /\ Reply(jobs[n], a).ok /\ server'.logs = server.logs /\ DOMAIN jobs[n].asks = {a}
        /\ \/ /\ jobs[n].op \in TaskOps /\ jobs[n].op \in TaskChanges /\ {a} # TaskList
           \/ /\ jobs[n].op \in ModelPageOps /\ jobs[n].op \in ModelOps /\ {a} # ModelsLoad
           \/ /\ jobs[n].op \in KnowledgeOps /\ a \in Changing
           \/ /\ jobs[n].op \in KnowledgeOps /\ a = "importKnowledgeModel"
              /\ server'.documents = server.documents
           \/ /\ jobs[n].op \in BiliWatchOps /\ jobs[n].op \in BiliWatchChanges
              /\ {a} # BiliWatchLoad
    BY <1>1, <1>2, <1>9, ServedChange
  <2>2. Answered(k)
    BY <1>5, <2>1 DEF Answered, AnsweredAt, Served, Answer, state
  <2>3. ASSUME sure'
        PROVE  Owes(k, page, visit) \/ \A t \in Things(page) : Stays(n, k, t)
    <3>1. jobs[n].visit = visit
      BY <1>1, <1>9, <2>3
    <3>2. CASE jobs[n].op \in TaskOps /\ jobs[n].op \in TaskChanges /\ {a} # TaskList
      <4>1. page = "scheduled-tasks"
        BY <3>1, <3>2, TaskHandler
      <4> QED
        BY <1>5, <2>1, <2>2, <3>1, <3>2, <4>1 DEF Owes, AnsweredAt
    <3>3. CASE jobs[n].op \in ModelPageOps /\ jobs[n].op \in ModelOps /\ {a} # ModelsLoad
      <4>1. page = "models"
        BY <3>1, <3>3, ModelHandler
      <4> QED
        BY <1>5, <2>1, <2>2, <3>1, <3>3, <4>1 DEF Owes, AnsweredAt
    <3>4. CASE jobs[n].op \in KnowledgeOps /\ a \in Changing
      <4>1. page = "knowledge"
        BY <3>1, <3>4, KnowledgeHandler
      <4> QED
        BY <1>5, <2>1, <2>2, <3>1, <3>4, <4>1 DEF Owes, AnsweredAt
    <3>5. CASE jobs[n].op \in BiliWatchOps /\ jobs[n].op \in BiliWatchChanges /\ {a} # BiliWatchLoad
      <4>1. page = "biliwatch"
        BY <3>1, <3>5, BiliWatchHandler
      <4> QED
        BY <1>5, <2>1, <2>2, <3>1, <3>5, <4>1 DEF Owes, AnsweredAt
    <3>6. CASE /\ jobs[n].op \in KnowledgeOps /\ a = "importKnowledgeModel"
               /\ server'.documents = server.documents
      <4>1. Things(page) = {"documents", "results"}
        BY <3>1, <3>6, KnowledgeHandler, ThingsOf
      <4>2. ~Reads(k, visit, "documents") /\ ~Reads(k, visit, "results")
        BY <1>5, <2>1, <3>6 DEF Reads, AnsweredAt
      <4>3. \A c : DocumentsIn(server', c) = DocumentsIn(server, c)
        BY <3>6 DEF DocumentsIn
      <4>4. ASSUME NEW t \in {"documents", "results"}
            PROVE  Stays(n, k, t)
        BY <1>1, <1>6, <4>2, <4>3 DEF Stays, Right, Shows
      <4> QED
        BY <4>1, <4>4
    <3> QED
      BY <2>1, <3>2, <3>3, <3>4, <3>5, <3>6
  <2>4. server'.logs # 0 /\ (sure' => sure)
    BY <1>1, <2>1 DEF Settles
  <2> QED
    BY <1>4, <1>7, <2>3, <2>4, OneGoesOn DEF IInv
<1> QED
  BY <1>8, <1>9

------------------------------------------------------------------------------
(* A page is mounted, the menu, and what makes the page unsure.              *)

\* The first handler of a page reads all that the page shows, or will.
LEMMA MountReads ==
    ASSUME NEW p \in Routes, NEW number
    PROVE  LET j == MountJob(p, number) IN
           /\ j.visit = number /\ DOMAIN j.asks = OnMounted(p).asks
           /\ p = "knowledge" => Owes(j, p, number)
           /\ p # "knowledge" => \A t \in Things(p) : /\ Reads(j, number, t)
                                                      /\ \A r, s : Right(j, t, r, s)
           /\ "profiles" \in Things(p) => "models" \in DOMAIN j.asks
           /\ "status" \in Things(p) => "status" \in DOMAIN j.asks
<1> DEFINE j == MountJob(p, number)
<1>1. /\ j.visit = number /\ j.op = OnMounted(p).op /\ j.asks = Asked(OnMounted(p).asks)
      /\ DOMAIN j.asks = OnMounted(p).asks
  BY AskedStands DEF MountJob
<1> HIDE DEF j
<1>2. \A a \in OnMounted(p).asks : /\ j.asks[a] # Failure /\ j.asks[a] # Taken
                                   /\ \A value : Is(j.asks[a], value)
  BY <1>1, AskedIs
<1>3. CASE p = "scheduled-tasks"
  <2>1. DOMAIN j.asks = TaskList /\ Things(p) = {"tasks"}
    BY <1>1, <1>3, ThingsOf DEF OnMounted, TasksOnMounted
  <2>2. Reads(j, number, "tasks")
    BY <1>1, <2>1 DEF Reads
  <2>3. \A r, s : Right(j, "tasks", r, s)
    BY <1>1, <1>2, <2>1 DEF Right, TaskList
  <2> QED
    BY <1>1, <1>3, <2>1, <2>2, <2>3 DEF j
<1>4. CASE p = "models"
  <2>1. DOMAIN j.asks = {"models", "status"} /\ Things(p) = {"profiles", "status"}
    BY <1>1, <1>4, ThingsOf DEF OnMounted, ModelsOnMounted, ModelsLoad
  <2>2. \A t \in {"profiles", "status"} : Reads(j, number, t) /\ \A r, s : Right(j, t, r, s)
    BY <1>1, <1>2, <2>1 DEF Reads, Right
  <2> QED
    BY <1>1, <1>4, <2>1, <2>2 DEF j
<1>5. CASE p = "knowledge"
  <2>1. DOMAIN j.asks = {"knowledgeBases"} /\ Things(p) = {"documents", "results"}
    BY <1>1, <1>5, ThingsOf DEF OnMounted, KnowledgeOnMounted
  <2>2. Owes(j, p, number)
    BY <1>1, <1>2, <1>5, <2>1 DEF Owes
  <2> QED
    BY <1>1, <1>5, <2>1, <2>2 DEF j
<1>6. CASE p = "biliwatch"
  <2>1. DOMAIN j.asks = BiliWatchLoad /\ Things(p) = {"subscriptions"}
    BY <1>1, <1>6, ThingsOf DEF OnMounted, BiliWatchOnMounted
  <2>2. Reads(j, number, "subscriptions")
    BY <1>1, <2>1 DEF Reads
  <2>3. \A r, s : Right(j, "subscriptions", r, s)
    BY <1>1, <1>2, <2>1 DEF Right, BiliWatchLoad
  <2> QED
    BY <1>1, <1>6, <2>1, <2>2, <2>3 DEF j
<1>7. CASE p = "overview"
  <2>1. /\ DOMAIN j.asks = {"status", "logs", "onebotActions"} /\ j.op = "loadOverview"
        /\ Things(p) = {"status", "records"}
    BY <1>1, <1>7, ThingsOf DEF OnMounted, OverviewOnMounted, OverviewLoad
  <2>2. \A t \in {"status", "records"} : Reads(j, number, t) /\ \A r, s : Right(j, t, r, s)
    BY <1>1, <1>2, <2>1 DEF Reads, Right
  <2> QED
    BY <1>1, <1>7, <2>1, <2>2 DEF j
<1>8. CASE p \in {"logs", "tools", "settings"}
  <2>1. /\ p = "logs" => DOMAIN j.asks = {"logs"} /\ Things(p) = {"logs"}
        /\ p = "tools" => DOMAIN j.asks = {"tools"} /\ Things(p) = {"tools"}
        /\ p = "settings" => DOMAIN j.asks = {"config"} /\ Things(p) = {"config"}
    BY <1>1, <1>8, ThingsOf DEF OnMounted, LogsOnMounted, ToolsOnMounted, SettingsOnMounted
  <2>2. \A t \in Things(p) : Reads(j, number, t) /\ \A r, s : Right(j, t, r, s)
    BY <1>1, <1>2, <1>8, <2>1 DEF Reads, Right
  <2> QED
    BY <1>1, <1>8, <2>1, <2>2 DEF j
<1> QED
  BY <1>3, <1>4, <1>5, <1>6, <1>7, <1>8 DEF Routes

LEMMA NavigateSettles ==
    ASSUME Settles, IInv, NEW p \in Routes, Navigate(p)
    PROVE  Settles'
<1> DEFINE n == CHOOSE k \in Free : TRUE
           j == MountJob(p, visit + 1)
<1>1. /\ Free # {} /\ page' = p /\ visit' = visit + 1 /\ server' = server
      /\ jobs' = [jobs EXCEPT ![n] = j]
      /\ sure' = (Reading(OnMounted(p).asks) = {})
  BY DEF Navigate
<1>2. n \in Slots
  <2>1. n \in Free
    BY <1>1
  <2> QED
    BY <2>1 DEF Free
<1> HIDE DEF n
<1>3. /\ DOMAIN j.asks = OnMounted(p).asks
      /\ p = "knowledge" => Owes(j, p, visit')
      /\ p # "knowledge" => \A t \in Things(p) : /\ Reads(j, visit', t)
                                                 /\ \A r, s : Right(j, t, r, s)
      /\ "profiles" \in Things(p) => "models" \in DOMAIN j.asks
      /\ "status" \in Things(p) => "status" \in DOMAIN j.asks
  BY <1>1, MountReads
<1> HIDE DEF j
<1>4. ASSUME sure', p # "knowledge", NEW t \in Things(p)
      PROVE  Starts(n, j, t)
  <2>1. ASSUME NEW m \in Slots \ {n}
        PROVE  ~Reads(jobs[m], visit', t)
    <3>1. DOMAIN jobs[m].asks \intersect OnMounted(p).asks = {}
      BY <1>1, <1>4, NobodyReads
    <3>2. visit \in Nat /\ jobs[m].visit \in 0..visit
      BY DEF IInv, Shapes, Hands, Hand
    <3>3. jobs[m].visit # visit'
      BY <1>1, <3>2
    <3> QED
      BY <1>3, <1>4, <3>1, <3>3 DEF Reads
  <2> QED
    BY <1>3, <1>4, <2>1 DEF Starts
<1>5. server'.logs # 0
  BY <1>1 DEF Settles
<1>6. sure' => Owes(j, page', visit') \/ \A t \in Things(page') : Starts(n, j, t)
  BY <1>1, <1>3, <1>4
<1>7. Hands
  BY DEF IInv
<1> QED
  BY <1>1, <1>2, <1>5, <1>6, <1>7, ReadsAnew

LEMMA MenuSettles ==
    ASSUME Settles, IInv, ToggleMenu \/ CloseMenu
    PROVE  Settles'
<1>1. UNCHANGED <<server, page, visit, refs, jobs, sure>>
  BY DEF ToggleMenu, CloseMenu
<1>2. stores \in Stores
  BY DEF IInv, Shapes
<1>3. /\ stores'.profiles = stores.profiles /\ stores'.status = stores.status
      /\ stores'.statusError = stores.statusError
  BY <1>2 DEF ToggleMenu, CloseMenu, ToggleSidebar, CloseSidebar, Stores
<1>4. \A t : Same(t, refs, refs', stores, stores')
  BY <1>1, <1>3 DEF Same
<1> QED
  BY <1>1, <1>4, NothingAsked

LEMMA LoseSettles ==
    ASSUME Settles, IInv, NEW n \in Slots, Lose(n)
    PROVE  Settles'
<1>1. PICK a \in Waiting(n) : server' \in {server, Reply(jobs[n], a).server} /\ ~sure'
  BY DEF Lose
<1>2. a \in DOMAIN jobs[n].asks /\ a \in Requests
  BY WaitingRuns DEF IInv
<1>3. server'.logs # 0
  BY <1>1, <1>2, ServedChange DEF Settles
<1> QED
  BY <1>1, <1>3 DEF Settles

LEMMA ElsewhereSettles ==
    ASSUME Settles, IInv, Elsewhere
    PROVE  Settles'
<1>1. server \in Tables /\ server.logs # 0 /\ ~sure'
  BY DEF IInv, Shapes, Settles, Elsewhere
<1>2. server'.logs # 0
  <2>1. ASSUME NEW r \in Rows, NEW t \in ScheduledTask \union {None},
               server' = [server EXCEPT !.tasks[r] = t, !.runs[r] = 0]
        PROVE  server'.logs = server.logs
    BY <1>1, <2>1, LogsStay
  <2>2. ASSUME NEW r \in Rows \union {None}, server' = [server EXCEPT !.active = r]
        PROVE  server'.logs = server.logs
    BY <1>1, <2>2, LogsStay
  <2>3. ASSUME server' = [server EXCEPT !.deliveries = @ + 1]
        PROVE  server'.logs = server.logs
    BY <1>1, <2>3 DEF Tables
  <2>4. ASSUME server' = [server EXCEPT !.logs = @ + 1]
        PROVE  server'.logs # 0
    <3>1. server.logs \in Nat
      BY <1>1, LogsAssumption DEF Tables, LogEntries
    <3>2. server'.logs = server.logs + 1
      BY <1>1, <2>4 DEF Tables
    <3> QED
      BY <3>1, <3>2
  <2>5. server'.logs = server.logs \/ server'.logs # 0
    BY <2>1, <2>2, <2>3, <2>4 DEF Elsewhere
  <2> QED
    BY <1>1, <2>5
<1> QED
  BY <1>1, <1>2 DEF Settles

LEMMA AskSettles ==
    ASSUME Settles, IInv, Ask
    PROVE  Settles'
<1>1. Free # {} /\ UNCHANGED <<server, page, visit>>
  BY DEF Ask, Act
<1>2. CASE page = "scheduled-tasks" /\ TasksAsk /\ UNCHANGED stores
  BY <1>1, <1>2, TasksAskSettles
<1>3. CASE page = "models" /\ ModelsAsk
  BY <1>1, <1>3, ModelsAskSettles
<1>4. CASE page = "knowledge" /\ KnowledgeAsk /\ UNCHANGED stores
  BY <1>1, <1>4, KnowledgeAskSettles
<1>5. CASE page = "biliwatch" /\ BiliWatchAsk /\ UNCHANGED stores
  BY <1>1, <1>5, BiliWatchAskSettles
<1>6. CASE MonitorAsk
  BY <1>1, <1>6, MonitorAskSettles
<1> QED
  BY <1>2, <1>3, <1>4, <1>5, <1>6 DEF Ask

LEMMA OpenOrCloseSettles ==
    ASSUME Settles, IInv, OpenOrClose
    PROVE  Settles'
<1>1. UNCHANGED <<server, page, visit>>
  BY DEF OpenOrClose
<1>2. CASE page = "scheduled-tasks" /\ TasksOpenOrClose /\ UNCHANGED stores
  BY <1>1, <1>2, TasksOpenSettles
<1>3. CASE page = "models" /\ ModelsOpenOrClose
  BY <1>1, <1>3, ModelsOpenSettles
<1>4. CASE page = "biliwatch" /\ BiliWatchOpenOrClose /\ UNCHANGED stores
  BY <1>1, <1>4, BiliWatchOpenSettles
<1>5. CASE page = "logs" /\ PauseLogs /\ UNCHANGED stores
  BY <1>1, <1>5, PauseSettles
<1> QED
  BY <1>2, <1>3, <1>4, <1>5 DEF OpenOrClose

LEMMA ResumeSettles ==
    ASSUME Settles, IInv, NEW n \in Slots, Resume(n)
    PROVE  Settles'
<1>1. UNCHANGED <<server, page, visit>>
  BY DEF Resume
<1>2. CASE TasksResume(n) /\ UNCHANGED stores
  BY <1>1, <1>2, TasksResumeSettles
<1>3. CASE ModelsResume(n)
  BY <1>1, <1>3, ModelsResumeSettles
<1>4. CASE KnowledgeResume(n) /\ UNCHANGED stores
  BY <1>1, <1>4, KnowledgeResumeSettles
<1>5. CASE BiliWatchResume(n) /\ UNCHANGED stores
  BY <1>1, <1>5, BiliWatchResumeSettles
<1>6. CASE MonitorResume(n)
  BY <1>1, <1>6, MonitorResumeSettles
<1>7. CASE RefreshAlone(n)
  BY <1>1, <1>7, RefreshAloneSettles
<1> QED
  BY <1>2, <1>3, <1>4, <1>5, <1>6, <1>7 DEF Resume

LEMMA SettlesStart == Init => Settles
<1> SUFFICES ASSUME Init
             PROVE  Settles
  OBVIOUS
<1>1. IInv /\ page \in Routes /\ visit = 1
  BY StartIsOne DEF Init, IInv, Shapes
<1>2. server.logs # 0
  BY DEF Init, InitialServer
<1> DEFINE j == MountJob(page, 1)
<1>3. /\ 2 \in Slots /\ jobs[2] = j
      /\ \A n \in Slots \ {2} : jobs[n] \in {AppRefresh, Idle}
  BY BoundsAssumption DEF Init, Slots
<1>4. /\ page = "knowledge" => Owes(j, page, visit)
      /\ page # "knowledge" => \A t \in Things(page) : /\ Reads(j, visit, t)
                                                       /\ \A r, s : Right(j, t, r, s)
  BY <1>1, MountReads
<1> HIDE DEF j
<1>5. ASSUME NEW t, Reads(AppRefresh, visit, t)
      PROVE  Right(AppRefresh, t, refs, server)
  <2>1. AppRefresh.visit = 0 /\ AppRefresh.asks = Asked({"status"})
    BY DEF AppRefresh
  <2>2. DOMAIN AppRefresh.asks = {"status"} /\ Is(AppRefresh.asks["status"], StatusIn(server))
    BY <2>1, AskedStands, AskedIs
  <2>3. t = "status"
    BY <1>1, <1>5, <2>1, <2>2 DEF Reads
  <2> QED
    BY <2>2, <2>3 DEF Right
<1>6. \A t : ~Reads(Idle, visit, t)
  BY <1>1, IdleReads
<1>7. CASE page = "knowledge"
  BY <1>2, <1>3, <1>4, <1>7 DEF Settles
<1>8. CASE page # "knowledge"
  <2>1. ASSUME NEW t \in Things(page)
        PROVE  Holding(t)
    BY <1>3, <1>4, <1>5, <1>6, <1>8, <2>1 DEF Holding
  <2> QED
    BY <1>2, <2>1 DEF Settles
<1> QED
  BY <1>7, <1>8

LEMMA SettlesStep == IInv /\ Settles /\ [Next]_<<vars, timer>> => Settles'
<1> SUFFICES ASSUME IInv, Settles, [Next]_<<vars, timer>>
             PROVE  Settles'
  OBVIOUS
<1>1. CASE UNCHANGED <<vars, timer>>
  <2>1. UNCHANGED <<server, page, visit, refs, stores, jobs, sure>>
    BY <1>1 DEF vars
  <2>2. \A t : Same(t, refs, refs', stores, stores')
    BY <2>1, SameItself
  <2> QED
    BY <2>1, <2>2, NothingAsked
<1>2. ASSUME NEW p \in Routes, Navigate(p)
      PROVE  Settles'
  BY <1>2, NavigateSettles
<1>3. ASSUME NEW n \in Slots, Serve(n) \/ Lose(n) \/ Resume(n)
      PROVE  Settles'
  BY <1>3, ServeSettles, LoseSettles, ResumeSettles
<1>4. CASE ToggleMenu \/ CloseMenu
  BY <1>4, MenuSettles
<1>5. CASE Ask
  BY <1>5, AskSettles
<1>6. CASE OpenOrClose
  BY <1>6, OpenOrCloseSettles
<1>7. CASE Interval
  <2>1. page = "logs" /\ Free # {} /\ ReadLogs /\ UNCHANGED <<server, page, visit>>
    BY <1>7 DEF Interval, Tick
  <2> QED
    BY <2>1, ReadLogsSettles
<1>8. CASE Elsewhere
  BY <1>8, ElsewhereSettles
<1> QED
  BY <1>1, <1>2, <1>3, <1>4, <1>5, <1>6, <1>7, <1>8 DEF Next

\* At rest nobody reads or owes anything, so what is sure is shown, and no flag is on.
LEMMA SettledShows == IInv /\ Settles => SettledShowsServer
<1> SUFFICES ASSUME IInv, Settles, Running = {}, sure
             PROVE  CASE page = "scheduled-tasks" -> TasksShown
                      [] page = "models" -> ModelsShown
                      [] page = "knowledge" -> DocumentsShown
                      [] page = "biliwatch" -> BiliWatchShown
                      [] OTHER -> MonitorShown
  BY DEF SettledShowsServer
<1>1. \A n \in Slots : ~Owes(jobs[n], page, visit) /\ \A t : ~Reads(jobs[n], visit, t)
  BY FreeReads DEF Running
<1>2. \A t \in Things(page) : Shows(t, refs, stores, server)
  BY <1>1 DEF Settles, Holding
<1>3. page \in Routes /\ BusyMeansAsked /\ refs \in RefsOf(page) /\ server \in Tables
  BY DEF IInv, Shapes
<1>4. CASE page = "scheduled-tasks"
  <2>1. TasksBusy /\ Shows("tasks", refs, stores, server)
    BY <1>2, <1>3, <1>4, ThingsOf DEF BusyMeansAsked
  <2>2. TasksShown
    BY <2>1 DEF TasksBusy, Shows, TasksShown, TaskTable
  <2> QED
    BY <1>4, <2>2
<1>5. ASSUME page \in {"models", "overview"}
      PROVE  /\ stores.status = [model |-> server.active] /\ stores.status # None
             /\ ~stores.statusError
  <2>1. Shows("status", refs, stores, server)
    BY <1>2, <1>5, ThingsOf
  <2>2. stores.status = [model |-> server.active] /\ ~stores.statusError
    BY <2>1 DEF Shows, StatusIn
  <2>3. [model |-> server.active] \in RuntimeStatus
    BY <1>3 DEF Tables, RuntimeStatus, ActiveModel
  <2> QED
    BY <2>2, <2>3, StatusAssumption
<1>6. CASE page = "models"
  <2>1. ~stores.profilesLoading
    BY <1>3 DEF BusyMeansAsked, StoresBusy
  <2>2. stores.profiles = ProfilesIn(server)
    BY <1>2, <1>6, ThingsOf DEF Shows
  <2>3. stores.status.model = server.active
    BY <1>5, <1>6
  <2>4. ModelsShown
    BY <1>5, <1>6, <2>1, <2>2, <2>3
    DEF ModelsShown, ProfileTable, EnvironmentInUse, Offline, ProfilesIn
  <2> QED
    BY <1>6, <2>4
<1>7. CASE page = "knowledge"
  <2>1. ~refs.loading
    BY <1>3, <1>7 DEF BusyMeansAsked, KnowledgeBusy
  <2>2. /\ refs.documents = DocumentsIn(server, refs.selected)
        /\ refs.results \in {None, refs.selected}
    BY <1>2, <1>7, ThingsOf DEF Shows
  <2>3. DocumentsShown
    BY <2>1, <2>2 DEF DocumentsShown, DocumentList, ResultList, DocumentsOf, DocumentsIn
  <2> QED
    BY <1>7, <2>3
<1>8. CASE page = "biliwatch"
  <2>1. ~refs.loading
    BY <1>3, <1>8 DEF BusyMeansAsked, BiliWatchBusy
  <2>2. Shows("subscriptions", refs, stores, server)
    BY <1>2, <1>8, ThingsOf
  <2>3. BiliWatchShown
    BY <2>1, <2>2 DEF BiliWatchShown, SubscriptionTable, DeliveryTable, Shows
  <2> QED
    BY <1>8, <2>3
<1>9. CASE page = "overview"
  <2>1. refs.logs = server.logs /\ refs.actions = 0
    BY <1>2, <1>9, ThingsOf DEF Shows
  <2>2. OverviewPanels = [model |-> server.active, logs |-> server.logs, actions |-> 0]
    BY <1>5, <1>9, <2>1 DEF OverviewPanels
  <2>3. MonitorShown
    BY <1>5, <1>9, <2>2 DEF MonitorShown, Offline
  <2> QED
    BY <1>9, <2>3
<1>10. CASE page = "logs"
  <2>1. refs.logs = server.logs /\ server.logs # 0
    BY <1>2, <1>10, ThingsOf DEF Shows, Settles
  <2>2. MonitorShown
    BY <1>10, <2>1 DEF MonitorShown, LogList, LogsAwaited
  <2> QED
    BY <1>10, <2>2
<1>11. CASE page = "tools"
  <2>1. ~refs.loading /\ refs.tools = 0
    <3>1. MonitorBusy
      BY <1>3, <1>11 DEF BusyMeansAsked
    <3> QED
      BY <1>2, <1>11, <3>1, ThingsOf DEF Shows, MonitorBusy
  <2>2. MonitorShown
    BY <1>11, <2>1 DEF MonitorShown, ToolTable
  <2> QED
    BY <1>11, <2>2
<1>12. CASE page = "settings"
  <2>1. MonitorShown
    BY <1>2, <1>12, ThingsOf DEF Shows, MonitorShown, SettingsShown
  <2> QED
    BY <1>12, <2>1
<1> QED
  BY <1>3, <1>4, <1>6, <1>7, <1>8, <1>9, <1>10, <1>11, <1>12 DEF Routes

(* What a page that is sure shows it has read since all that has been done, or  *)
(* is reading, or a handler under way will read: the inductive invariant of    *)
(* what the pages show.                                                        *)
THEOREM DashboardSettling == Spec => []Settles
<1>1. IInv /\ IInv' /\ Settles /\ [Next]_<<vars, timer>> => Settles'
  BY SettlesStep
<1> QED
  BY SettlesStart, <1>1, DashboardInductive, PTL DEF Spec

(* When nothing is under way, and nothing has failed, been done elsewhere or    *)
(* been overtaken by an older reading since the page was last loaded, the page *)
(* shows what the server holds, in any order of requests, answers and visits.  *)
THEOREM DashboardSettles == Spec => []SettledShowsServer
BY SettledShows, DashboardInductive, DashboardSettling, PTL
=============================================================================
