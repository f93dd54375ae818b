--------------------------- MODULE DashboardMonitor --------------------------
(* The pages that only read: OverviewView.vue, LogsView.vue, ToolsView.vue and *)
(* SettingsView.vue.  The logs are read again by a timer, whether or not the   *)
(* last reading has been answered.                                             *)
EXTENDS DashboardStores

CONSTANTS MaxLogs,  \* bound: entries that are written
          MaxPolls  \* bound: readings of the logs under way at once

ASSUME LogsAssumption == MaxLogs \in Nat \ {0}

VARIABLE timer  \* the number of the page whose interval runs; 0 is none

LogEntries == 0..MaxLogs
OneBotActionRecords == {0}
ToolInfos == {0}
DashboardConfig == {0}

OverviewSetup == [logs |-> 0, actions |-> None]
LogsSetup == [logs |-> 0, live |-> TRUE, error |-> FALSE]
ToolsSetup == [tools |-> None, loading |-> TRUE]
SettingsSetup == [config |-> None]

MonitorRefs ==
    CASE page = "overview" -> [logs : LogEntries, actions : OneBotActionRecords \union {None}]
      [] page = "logs" -> [logs : LogEntries, live : BOOLEAN, error : BOOLEAN]
      [] page = "tools" -> [tools : ToolInfos \union {None}, loading : BOOLEAN]
      [] page = "settings" -> [config : DashboardConfig \union {None}]

MonitorRequests == {"logs", "onebotActions", "tools", "config"}
MonitorReply(job, a) ==
    [ok |-> TRUE, server |-> server, value |-> IF a = "logs" THEN server.logs ELSE 0]

(* --- OverviewView.vue: load() -------------------------------------------- *)
OverviewLoad == {"status", "logs", "onebotActions"}

OverviewOnMounted == [op |-> "loadOverview", asks |-> OverviewLoad]

OverviewPanels == IF stores.status = None THEN None
                  ELSE [model |-> stores.status.model, logs |-> refs.logs, actions |-> refs.actions]

ReloadOverview ==
    /\ ~stores.statusLoading
    /\ stores' = RefreshRuntime(stores)
    /\ Begin("loadOverview", None, None, OverviewLoad)
    /\ sure' = (Reading(OverviewLoad) = {})
    /\ UNCHANGED refs

OverviewLoading(n) ==
    /\ jobs[n].op = "loadOverview"
    /\ \E a \in OverviewLoad :
          LET failed == jobs[n].asks[a].is = "failure"
              taken == IF a = "status" THEN RuntimeRefreshed(stores, n) ELSE stores
          IN  /\ HasCome(n, a)
              /\ a = "status" \/ Ends(n, a)
              /\ stores' = IF Ends(n, a) THEN [taken EXCEPT !.statusLoading = FALSE] ELSE taken
              /\ IF ~Ends(n, a) THEN UNCHANGED refs
                 ELSE Show(n, IF failed THEN refs
                              ELSE [refs EXCEPT !.logs = Value(n, "logs"),
                                                !.actions = Value(n, "onebotActions")])
              /\ TakeAnswer(n, a)
    /\ UNCHANGED sure

(* --- LogsView.vue -------------------------------------------------------- *)
LogsOnMounted == [op |-> "loadLogs", asks |-> {"logs"}]
Polls == {n \in Running : jobs[n].op = "loadLogs"}

ReadLogs ==
    /\ Begin("loadLogs", None, None, {"logs"})
    /\ sure' = (Reading({"logs"}) = {})
    /\ UNCHANGED refs

(* Mutant: the interval stops reading when a reading has failed. *)
TickUnlessFailed ==
    /\ timer = visit /\ refs.live /\ ~refs.error
    /\ Cardinality(Polls) < MaxPolls /\ Free # {}
    /\ ReadLogs

(* The interval's callback, every two seconds as long as the interval runs. *)
Tick ==
    /\ timer = visit /\ refs.live
    /\ Cardinality(Polls) < MaxPolls /\ Free # {}
    /\ ReadLogs

(* A spinner, of 刷新 too, is shown until something has been read. *)
LogsAwaited == refs.logs = 0 /\ ~refs.error
LogList == IF LogsAwaited THEN None ELSE refs.logs

ReloadLogs == ~LogsAwaited /\ ReadLogs

PauseLogs ==
    /\ refs' = [refs EXCEPT !.live = ~@]
    /\ UNCHANGED <<jobs, sure>>

LogsLoaded(n) ==
    /\ jobs[n].op = "loadLogs" /\ HasCome(n, "logs")
    /\ Show(n, IF SomeFailed(n) THEN [refs EXCEPT !.error = TRUE]
               ELSE [refs EXCEPT !.logs = Value(n, "logs"), !.error = FALSE])
    /\ End(n)
    /\ UNCHANGED <<stores, sure>>

(* --- ToolsView.vue and SettingsView.vue ----------------------------------- *)
ToolsOnMounted == [op |-> "loadTools", asks |-> {"tools"}]
SettingsOnMounted == [op |-> "loadSettings", asks |-> {"config"}]

ToolTable == IF refs.loading THEN None ELSE refs.tools
SettingsShown == refs.config

ReloadTools ==
    /\ ~refs.loading
    /\ refs' = [refs EXCEPT !.loading = TRUE]
    /\ Begin("loadTools", None, None, {"tools"})
    /\ sure' = (Reading({"tools"}) = {})

ToolsLoaded(n) ==
    /\ jobs[n].op = "loadTools" /\ HasCome(n, "tools")
    /\ Show(n, [refs EXCEPT !.loading = FALSE,
                            !.tools = IF SomeFailed(n) THEN @ ELSE Value(n, "tools")])
    /\ End(n)
    /\ UNCHANGED <<stores, sure>>

SettingsLoaded(n) ==
    /\ jobs[n].op = "loadSettings" /\ HasCome(n, "config")
    /\ Show(n, [refs EXCEPT !.config = IF SomeFailed(n) THEN @ ELSE Value(n, "config")])
    /\ End(n)
    /\ UNCHANGED <<stores, sure>>

MonitorAsk ==
    \/ page = "overview" /\ ReloadOverview
    \/ page = "logs" /\ ReloadLogs /\ UNCHANGED stores
    \/ page = "tools" /\ ReloadTools /\ UNCHANGED stores

MonitorResume(n) == OverviewLoading(n) \/ LogsLoaded(n) \/ ToolsLoaded(n) \/ SettingsLoaded(n)

MonitorShown ==
    CASE page = "overview" ->
            /\ OverviewPanels = [model |-> server.active, logs |-> server.logs, actions |-> 0]
            /\ ~Offline
      [] page = "logs" -> LogList = server.logs
      [] page = "tools" -> ToolTable = 0
      [] page = "settings" -> SettingsShown = 0

MonitorBusy ==
    page = "tools" /\ refs.loading =>
        \E n \in Running : jobs[n].visit = visit /\ AsksFor(n, {"tools"})
==============================================================================
