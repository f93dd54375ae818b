--------------------------- MODULE DashboardModels ---------------------------
(* ModelsView.vue: the imported profiles, the dialog that creates, edits or    *)
(* imports them, activation, connection test and deletion.  A profile's        *)
(* fields are one value; the API key is left out.                              *)
EXTENDS DashboardStores

ModelProfileInput == [of : Rows \union {None}, def : Values \union {None}]
BlankProfile == [of |-> None, def |-> None]
ModelDialogs == {"single", "edit", "bulk", "none"}

ModelsSetup ==
    [saving |-> FALSE, testing |-> None,
     dialog |-> "none", editing |-> None, form |-> BlankProfile]

ModelsRefs ==
    [saving : BOOLEAN, testing : Rows \union {None},
     dialog : ModelDialogs, editing : Rows \union {None}, form : ModelProfileInput]

(* The endpoints.  A profile that is in use cannot be deleted; the environment's *)
(* model is active when no profile is.                                           *)
ModelRequests == {"importModels", "activateModel", "activateEnvironment", "updateModel",
                  "deleteModel", "testModel"}

ModelReply(job, a) ==
    LET known == job.id # None /\ server.profiles[job.id] # None
        unused == {r \in Rows : server.profiles[r] = None}
        done(ok, tables) == [ok |-> ok, server |-> IF ok THEN tables ELSE server, value |-> None]
    IN  CASE a = "importModels" ->
                IF unused = {} \/ job.form.def = None THEN done(FALSE, server)
                ELSE done(TRUE, [server EXCEPT !.profiles[CHOOSE r \in unused : TRUE] = job.form.def])
          [] a = "updateModel" ->
                IF known /\ job.form.def # None
                THEN done(TRUE, [server EXCEPT !.profiles[job.id] = job.form.def])
                ELSE done(FALSE, server)
          [] a = "activateModel" -> done(known, [server EXCEPT !.active = job.id])
          [] a = "activateEnvironment" -> done(TRUE, [server EXCEPT !.active = None])
          [] a = "deleteModel" ->
                IF known /\ server.active # job.id
                THEN done(TRUE, [server EXCEPT !.profiles[job.id] = None])
                ELSE done(FALSE, server)
          [] a = "testModel" -> done(known, server)

(* load(): both stores are refreshed; the table's spinner is the model store's. *)
ModelsLoad == {"models", "status"}
ModelsOnMounted == [op |-> "loadModels", asks |-> ModelsLoad]
ModelsAreLoading == RefreshRuntime(RefreshModels(stores))

CloseModelDialog(r) ==
    [r EXCEPT !.dialog = "none", !.editing = None]
ResetModelForm(r) == [r EXCEPT !.form = BlankProfile]

Only(new) == refs' = new /\ UNCHANGED <<jobs, stores, sure>>

OpenCreateModel ==
    /\ refs.dialog = "none"
    /\ Only([ResetModelForm(refs) EXCEPT !.dialog = "single"])

OpenBulkImport ==
    /\ refs.dialog = "none"
    /\ Only([refs EXCEPT !.dialog = "bulk"])

(* The row of the environment's model, and those of the table, which is there *)
(* unless the model store is loading.                                         *)
EnvironmentInUse == stores.status # None /\ stores.status.model = None
ProfileTable == IF stores.profilesLoading THEN None ELSE stores.profiles
ModelRow(p) == refs.dialog = "none" /\ ProfileTable # None /\ stores.profiles.rows[p] # None
Standby(p) == ModelRow(p) /\ stores.profiles.active # p

OpenEditModel(p) ==
    /\ ModelRow(p)
    /\ Only([refs EXCEPT !.form = [of |-> p, def |-> stores.profiles.rows[p]],
                         !.editing = p, !.dialog = "edit"])

CancelModelDialog ==
    /\ refs.dialog # "none"
    /\ Only(CloseModelDialog(refs))

Asking(new, op, id, form, request) ==
    /\ refs' = new
    /\ Begin(op, id, form, {request})
    /\ UNCHANGED <<stores, sure>>

(* The fields follow the keyboard; the key that submits the form works while the *)
(* button shows its spinner.                                                      *)
FillModelForm(typed) == [refs.form EXCEPT !.def = typed]

SubmitSingle(typed) ==
    LET form == FillModelForm(typed)
        edit == refs.dialog = "edit" /\ refs.editing # None
    IN  /\ refs.dialog \in {"single", "edit"}
        /\ Asking([refs EXCEPT !.saving = TRUE, !.form = form],
                  IF edit THEN "submitEdit" ELSE "submitSingle",
                  IF edit THEN refs.editing ELSE None, form,
                  IF edit THEN "updateModel" ELSE "importModels")

(* submitBulk: what is no list of profiles asks nothing. *)
SubmitBulk(typed) ==
    /\ refs.dialog = "bulk"
    /\ Asking([refs EXCEPT !.saving = TRUE], "submitBulk", None,
              [of |-> None, def |-> typed], "importModels")

ActivateModel(p) ==
    /\ Standby(p)
    /\ Asking(refs, "activate", p, None, "activateModel")

TestConnection(p) ==
    /\ ModelRow(p) /\ refs.testing = None
    /\ Asking([refs EXCEPT !.testing = p], "test", p, None,
              "testModel")

UseEnvironment ==
    /\ refs.dialog = "none"
    /\ ~EnvironmentInUse
    /\ Asking(refs, "useEnvironment", None, None, "activateEnvironment")

RemoveModel(p) ==
    /\ Standby(p)
    /\ Asking(refs, "remove", p, None, "deleteModel")

ModelsAsk ==
    \/ \E typed \in Typed : SubmitSingle(typed) \/ SubmitBulk(typed)
    \/ \E p \in Rows : ActivateModel(p) \/ TestConnection(p) \/ RemoveModel(p)
    \/ UseEnvironment

ModelsOpenOrClose ==
    \/ OpenCreateModel \/ OpenBulkImport \/ CancelModelDialog
    \/ \E p \in Rows : OpenEditModel(p)

(* The end of a handler: saving is over, and a creation blanks the form. *)
Submits == {"submitSingle", "submitEdit", "submitBulk"}
ModelHandlerEnds(op, r) ==
    LET over == [r EXCEPT !.saving = IF op \in Submits THEN FALSE ELSE @]
    IN  IF op = "submitSingle" THEN ResetModelForm(over) ELSE over

ModelOps == Submits \union {"activate", "useEnvironment", "remove"}

ModelChanged(n) ==
    LET op == jobs[n].op
        shown == IF op \in Submits THEN CloseModelDialog(refs) ELSE refs
    IN  /\ op \in ModelOps /\ ~AsksFor(n, ModelsLoad)
        /\ AllAnswered(n)
        /\ Show(n, shown)
        /\ stores' = ModelsAreLoading
        /\ Reload(n, ModelsLoad)

ModelRefused(n) ==
    /\ jobs[n].op \in ModelOps /\ ~AsksFor(n, ModelsLoad)
    /\ SomeFailed(n)
    /\ Show(n, ModelHandlerEnds(jobs[n].op, refs))
    /\ End(n)
    /\ UNCHANGED <<stores, sure>>

(* An answer of load(): the store takes it, and with the last one load ends. *)
ModelsLoading(n) ==
    /\ jobs[n].op \in ModelOps \union {"loadModels"} /\ AsksFor(n, ModelsLoad)
    /\ \E a \in ModelsLoad :
          /\ HasCome(n, a)
          /\ stores' = IF Ends(n, a) THEN [Refreshed(stores, n, a) EXCEPT !.profilesLoading = FALSE]
                       ELSE Refreshed(stores, n, a)
          /\ IF Ends(n, a)
             THEN Show(n, ModelHandlerEnds(jobs[n].op, refs))
             ELSE UNCHANGED refs
          /\ TakeAnswer(n, a)
    /\ UNCHANGED sure

ModelTested(n) ==
    /\ jobs[n].op = "test"
    /\ HasCome(n, "testModel")
    /\ Show(n, [refs EXCEPT !.testing = None])
    /\ End(n)
    /\ UNCHANGED <<stores, sure>>

ModelsResume(n) == ModelChanged(n) \/ ModelRefused(n) \/ ModelsLoading(n) \/ ModelTested(n)

ModelsShown ==
    /\ ProfileTable = [rows |-> server.profiles, active |-> server.active]
    /\ EnvironmentInUse <=> server.active = None
    /\ ~Offline

ModelsBusy ==
    /\ refs.saving => \E n \in Running : jobs[n].visit = visit /\ jobs[n].op \in Submits
    /\ refs.testing # None => \E n \in Running : /\ jobs[n].visit = visit
                                                /\ jobs[n].op = "test" /\ jobs[n].id = refs.testing
==============================================================================
