-------------------------- MODULE DashboardBiliWatch -------------------------
(* BiliWatchView.vue: the watcher's settings, the subscriptions and the form   *)
(* that creates or edits one, the deliveries.  A subscription's row is its     *)
(* target (bot, group, uid); its switches are one value.  The administrators   *)
(* and the interval are one value, the three cookie fields one flag.           *)
EXTENDS DashboardPage

CONSTANT MaxDeliveries  \* bound: deliveries that are recorded

ASSUME DeliveriesAssumption == MaxDeliveries \in Nat

BiliWatchConfig == [settings : Values, cookie : BOOLEAN]
BiliWatchConfigUpdate == [settings : Typed, cookie : BOOLEAN]
BiliWatchSubscriptions == [Rows -> Values \union {None}]
BiliWatchDeliveries == 0..MaxDeliveries
ConnectedOneBots == {0}
BiliWatchSubscriptionRequest ==
    [of : Rows \union {None}, target : Rows \union {None}, def : Values \union {None}]

EmptySubscription == [of |-> None, target |-> None, def |-> None]

BiliWatchSetup ==
    [loading |-> TRUE, saving |-> FALSE, config |-> None,
     subscriptions |-> [r \in Rows |-> None], deliveries |-> 0, showForm |-> FALSE,
     editing |-> None, form |-> EmptySubscription, typed |-> None, cookie |-> FALSE,
     bots |-> None]

BiliWatchRefs ==
    [loading : BOOLEAN, saving : BOOLEAN, config : BiliWatchConfig \union {None},
     subscriptions : BiliWatchSubscriptions, deliveries : BiliWatchDeliveries, showForm : BOOLEAN,
     editing : Rows \union {None}, form : BiliWatchSubscriptionRequest,
     typed : Values \union {None}, cookie : BOOLEAN, bots : ConnectedOneBots \union {None}]

(* The endpoints.  Creating what is there already saves it; a cookie field left *)
(* empty keeps what is stored; the target of a subscription stays.             *)
BiliWatchLoad == {"biliWatchConfig", "biliWatchSubscriptions", "biliWatchDeliveries", "onebotBots"}
BiliWatchRequests == BiliWatchLoad \union
    {"updateBiliWatchConfig", "testBiliWatchCookie", "createBiliWatchSubscription",
     "updateBiliWatchSubscription", "deleteBiliWatchSubscription"}

BiliWatchReply(job, a) ==
    LET known == job.id # None /\ server.subscriptions[job.id] # None
        done(ok, tables, value) ==
            [ok |-> ok, server |-> IF ok THEN tables ELSE server, value |-> value]
        config == [settings |-> job.form.settings, cookie |-> server.config.cookie \/ job.form.cookie]
    IN  CASE a = "biliWatchConfig" -> done(TRUE, server, server.config)
          [] a = "biliWatchSubscriptions" -> done(TRUE, server, server.subscriptions)
          [] a = "biliWatchDeliveries" -> done(TRUE, server, server.deliveries)
          [] a = "onebotBots" -> done(TRUE, server, 0)
          [] a = "updateBiliWatchConfig" -> done(TRUE, [server EXCEPT !.config = config], config)
          [] a = "testBiliWatchCookie" -> done(server.config.cookie, server, None)
          [] a = "createBiliWatchSubscription" ->
                done(TRUE, [server EXCEPT !.subscriptions[job.form.target] = job.form.def], None)
          [] a = "updateBiliWatchSubscription" ->
                IF known /\ job.form.target = job.id
                THEN done(TRUE, [server EXCEPT !.subscriptions[job.id] = job.form.def], None)
                ELSE done(FALSE, server, None)
          [] a = "deleteBiliWatchSubscription" ->
                done(known, [server EXCEPT !.subscriptions[job.id] = None], None)

BiliWatchOnMounted == [op |-> "loadBiliWatch", asks |-> BiliWatchLoad]
BiliWatchIsLoading(r) == [r EXCEPT !.loading = TRUE]

(* The rows of a table that is loading take no click. *)
SubscriptionTable == IF refs.loading THEN None ELSE refs.subscriptions
DeliveryTable == IF refs.loading THEN None ELSE refs.deliveries
SubscriptionRow(s) == ~refs.showForm /\ SubscriptionTable # None /\ refs.subscriptions[s] # None

OpenCreateSubscription ==
    /\ ~refs.showForm
    /\ refs' = [refs EXCEPT !.editing = None, !.form = EmptySubscription, !.showForm = TRUE]
    /\ UNCHANGED <<jobs, sure>>

OpenEditSubscription(s) ==
    /\ SubscriptionRow(s)
    /\ refs' = [refs EXCEPT !.editing = s, !.showForm = TRUE,
                            !.form = [of |-> s, target |-> s, def |-> refs.subscriptions[s]]]
    /\ UNCHANGED <<jobs, sure>>

CancelSubscription ==
    /\ refs.showForm
    /\ refs' = [refs EXCEPT !.showForm = FALSE]
    /\ UNCHANGED <<jobs, sure>>

(* All fields of the form can be typed into, the target of a row's form too. *)
FillSubscription(target, typed) == [refs.form EXCEPT !.target = target, !.def = typed]

SaveSubscription(target, typed) ==
    LET form == FillSubscription(target, typed) IN
    /\ refs.showForm /\ ~refs.saving
    /\ refs' = [refs EXCEPT !.saving = TRUE, !.form = form]
    /\ Begin("saveSubscription", refs.editing, form,
             {IF refs.editing # None THEN "updateBiliWatchSubscription"
              ELSE "createBiliWatchSubscription"})
    /\ UNCHANGED sure

RemoveSubscription(s) ==
    /\ SubscriptionRow(s)
    /\ Begin("removeSubscription", s, None, {"deleteBiliWatchSubscription"})
    /\ UNCHANGED <<refs, sure>>

(* The settings card: its fields are filled by load() and by the keyboard. *)
SaveConfig(update) ==
    /\ ~refs.showForm /\ ~refs.saving
    /\ refs' = [refs EXCEPT !.saving = TRUE, !.typed = update.settings, !.cookie = update.cookie]
    /\ Begin("saveConfig", None, update, {"updateBiliWatchConfig"})
    /\ UNCHANGED sure

TestCookie ==
    /\ ~refs.showForm
    /\ Begin("testCookie", None, None, {"testBiliWatchCookie"})
    /\ UNCHANGED <<refs, sure>>

ReloadBiliWatch ==
    /\ ~refs.showForm /\ ~refs.loading
    /\ refs' = BiliWatchIsLoading(refs)
    /\ Begin("loadBiliWatch", None, None, BiliWatchLoad)
    /\ sure' = (Reading(BiliWatchLoad) = {})

BiliWatchAsk ==
    \/ \E target \in Rows, typed \in Typed : SaveSubscription(target, typed)
    \/ \E s \in Rows : RemoveSubscription(s)
    \/ \E update \in BiliWatchConfigUpdate : SaveConfig(update)
    \/ TestCookie \/ ReloadBiliWatch

BiliWatchOpenOrClose ==
    \/ OpenCreateSubscription \/ CancelSubscription
    \/ \E s \in Rows : OpenEditSubscription(s)

BiliWatchSaves == {"saveSubscription", "saveConfig"}
BiliWatchOps == BiliWatchSaves \union {"removeSubscription", "testCookie", "loadBiliWatch"}

(* After the await of a change. *)
BiliWatchChanged(n) ==
    LET op == jobs[n].op
        closed == CASE op = "saveSubscription" -> [refs EXCEPT !.showForm = FALSE]
                    [] op = "saveConfig" -> [refs EXCEPT !.cookie = FALSE,
                                                         !.config = Value(n, "updateBiliWatchConfig")]
                    [] OTHER -> refs
    IN  /\ op \in BiliWatchSaves \union {"removeSubscription"} /\ ~AsksFor(n, BiliWatchLoad)
        /\ AllAnswered(n)
        /\ Show(n, BiliWatchIsLoading(closed))
        /\ Reload(n, BiliWatchLoad)

(* load() puts what it has read into the tables and into the settings' fields. *)
BiliWatchLoaded(n) ==
    LET shown == IF SomeFailed(n) THEN refs
                 ELSE [refs EXCEPT !.config = Value(n, "biliWatchConfig"),
                                   !.subscriptions = Value(n, "biliWatchSubscriptions"),
                                   !.deliveries = Value(n, "biliWatchDeliveries"),
                                   !.bots = Value(n, "onebotBots"),
                                   !.typed = Value(n, "biliWatchConfig").settings]
    IN  /\ AsksFor(n, BiliWatchLoad)
        /\ AllAnswered(n) \/ SomeFailed(n)
        /\ Show(n, [shown EXCEPT !.loading = FALSE,
                                 !.saving = IF jobs[n].op \in BiliWatchSaves THEN FALSE ELSE @])
        /\ End(n)
        /\ UNCHANGED sure

BiliWatchRefused(n) ==
    /\ ~AsksFor(n, BiliWatchLoad) /\ SomeFailed(n)
    /\ Show(n, [refs EXCEPT !.saving = IF jobs[n].op \in BiliWatchSaves THEN FALSE ELSE @])
    /\ End(n)
    /\ UNCHANGED sure

CookieTested(n) ==
    /\ jobs[n].op = "testCookie" /\ AllAnswered(n)
    /\ End(n)
    /\ UNCHANGED <<refs, sure>>

BiliWatchResume(n) ==
    /\ jobs[n].op \in BiliWatchOps
    /\ BiliWatchChanged(n) \/ BiliWatchLoaded(n) \/ BiliWatchRefused(n) \/ CookieTested(n)

BiliWatchShown ==
    /\ refs.config = server.config
    /\ SubscriptionTable = server.subscriptions
    /\ DeliveryTable = server.deliveries

BiliWatchBusy ==
    LET mine(ops) == \E n \in Running : jobs[n].visit = visit /\ jobs[n].op \in ops
    IN  /\ refs.loading => \E n \in Running : jobs[n].visit = visit /\ AsksFor(n, BiliWatchLoad)
        /\ refs.saving => mine(BiliWatchSaves)
==============================================================================
