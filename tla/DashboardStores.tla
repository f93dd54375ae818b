--------------------------- MODULE DashboardStores ---------------------------
(* stores/models.ts, stores/runtime.ts and stores/ui.ts.  A refresh runs to    *)
(* its end whichever page is mounted, and its `loading` is one flag for all    *)
(* who refresh: pages set and clear it too.                                    *)
EXTENDS DashboardPage

(* GET /api/models: the profiles, and which of them is active. *)
ModelProfiles == [rows : [Rows -> Values \union {None}], active : Rows \union {None}]
(* GET /api/status, of which the pages' behaviour depends on the active model. *)
ActiveModel == Rows \union {None}
RuntimeStatus == [model : ActiveModel]

(* No status is null. *)
ASSUME StatusAssumption == None \notin RuntimeStatus

ModelStore == [profiles : ModelProfiles, profilesLoading : BOOLEAN]
RuntimeStore == [status : RuntimeStatus \union {None}, statusLoading : BOOLEAN, statusError : BOOLEAN]
UiStore == [sidebarOpen : BOOLEAN]

NoProfiles == [rows |-> [r \in Rows |-> None], active |-> None]
StoresSetup ==
    [profiles |-> NoProfiles, profilesLoading |-> FALSE,
     status |-> None, statusLoading |-> FALSE, statusError |-> FALSE, sidebarOpen |-> FALSE]

StoreRequests == {"models", "status"}

StoreReply(job, a) ==
    [ok |-> TRUE, server |-> server,
     value |-> IF a = "models" THEN [rows |-> server.profiles, active |-> server.active]
               ELSE [model |-> server.active]]

(* refresh() up to its await. *)
RefreshModels(s) == [s EXCEPT !.profilesLoading = TRUE]
RefreshRuntime(s) == [s EXCEPT !.statusLoading = TRUE, !.statusError = FALSE]

(* refresh() from its await on. *)
ModelsRefreshed(s, n) ==
    [s EXCEPT !.profilesLoading = FALSE,
              !.profiles = IF jobs[n].asks["models"].is = "answer" THEN Value(n, "models") ELSE @]
RuntimeRefreshed(s, n) ==
    [s EXCEPT !.statusLoading = FALSE,
              !.status = IF jobs[n].asks["status"].is = "answer" THEN Value(n, "status") ELSE @,
              !.statusError = jobs[n].asks["status"].is = "failure"]
Refreshed(s, n, a) == IF a = "models" THEN ModelsRefreshed(s, n) ELSE RuntimeRefreshed(s, n)

Ready(n, a) == IF a \in StoreRequests THEN jobs[n].asks[a].is = "taken"
               ELSE jobs[n].asks[a].is = "answer"

(* Promise.all over refreshes and requests: it ends with its last answer or its *)
(* first error, and the refreshes that are still under way go on alone.         *)
Ends(n, a) ==
    \/ jobs[n].asks[a].is = "failure"
    \/ \A b \in DOMAIN jobs[n].asks \ {a} : Ready(n, b)

LeftAlone(n, a) ==
    LET rest == {b \in StoreRequests \cap DOMAIN jobs[n].asks : b # a /\ ~Ready(n, b)}
    IN  IF rest = {} THEN Idle
        ELSE [jobs[n] EXCEPT !.op = "refresh", !.id = None, !.form = None,
                             !.asks = [b \in rest |-> jobs[n].asks[b]]]

TakeAnswer(n, a) ==
    jobs' = [jobs EXCEPT ![n] = IF Ends(n, a) THEN LeftAlone(n, a)
                                ELSE [jobs[n] EXCEPT !.asks[a] = Taken]]

(* A refresh nobody waits for: App.vue's, and those LeftAlone. *)
RefreshAlone(n) ==
    /\ jobs[n].op = "refresh"
    /\ \E a \in DOMAIN jobs[n].asks :
          /\ HasCome(n, a)
          /\ stores' = Refreshed(stores, n, a)
          /\ TakeAnswer(n, a)
    /\ UNCHANGED <<refs, sure>>

ToggleSidebar == [stores EXCEPT !.sidebarOpen = ~@]
CloseSidebar == [stores EXCEPT !.sidebarOpen = FALSE]

(* The sidebar says that the server cannot be reached. *)
Offline == stores.statusError

(* A store says that it is loading only while something it waits for is asked. *)
StoresBusy ==
    LET waits(a) == \E n \in Running : a \in DOMAIN jobs[n].asks /\ jobs[n].asks[a] # Taken
    IN  /\ stores.profilesLoading => waits("models")
        /\ stores.statusLoading => waits("status")
==============================================================================
