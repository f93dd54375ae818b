---------------------------- MODULE DashboardTasks ---------------------------
(* ScheduledTasksView.vue: the table of the scheduled tasks, the form that     *)
(* creates or edits one, the switch of each row, the deletion dialog and the   *)
(* history of runs.  A definition (name, handler, schedule, payload) is one    *)
(* value; the row's enabled flag is kept apart, for the switch sends both.     *)
EXTENDS DashboardPage

CONSTANT MaxRuns  \* bound: runs of a task that are counted

ASSUME RunsAssumption == MaxRuns \in Nat

ScheduledTask == [def : Values, enabled : BOOLEAN]
ScheduledTaskRequest == [of : Rows \union {None}, def : Values \union {None}, enabled : BOOLEAN]
TaskRuns == [of : Rows \union {None}, count : 0..MaxRuns]

(* The form remembers, for the properties, the row its values were taken from. *)
EmptyForm == [of |-> None, def |-> None, enabled |-> TRUE]

TasksSetup ==
    [tasks |-> [r \in Rows |-> None], handlers |-> FALSE, runs |-> [of |-> None, count |-> 0],
     loading |-> TRUE, saving |-> FALSE, showForm |-> FALSE, showRuns |-> FALSE,
     editingId |-> None, deletingTask |-> None, togglingId |-> None, form |-> EmptyForm]

TasksRefs ==
    [tasks : [Rows -> ScheduledTask \union {None}], handlers : BOOLEAN, runs : TaskRuns,
     loading : BOOLEAN, saving : BOOLEAN, showForm : BOOLEAN, showRuns : BOOLEAN,
     editingId : Rows \union {None}, deletingTask : Rows \union {None},
     togglingId : Rows \union {None}, form : ScheduledTaskRequest]

(* The endpoints: what each request does to the server and answers.  A run by    *)
(* hand adds to the history of runs; it also sets the status and the times of    *)
(* the row, which are left out, and leaves its enabled flag alone: run_now does  *)
(* not use up a task that runs once.  What the scheduler starts by itself is in  *)
(* TaskScheduler.                                                                *)
TaskList == {"scheduledTasks", "scheduledTaskHandlers"}
TaskRequests == TaskList \union {"createScheduledTask", "updateScheduledTask",
                                 "deleteScheduledTask", "runScheduledTask", "scheduledTaskRuns"}

TaskReply(job, a) ==
    LET known == job.id # None /\ server.tasks[job.id] # None
        unused == {r \in Rows : server.tasks[r] = None}
        done(ok, tables, value) == [ok |-> ok, server |-> tables, value |-> value]
        saved(r) == [server EXCEPT !.tasks[r] = [def |-> job.form.def, enabled |-> job.form.enabled]]
    IN  CASE a = "scheduledTasks" -> done(TRUE, server, server.tasks)
          [] a = "scheduledTaskHandlers" -> done(TRUE, server, TRUE)
          [] a = "createScheduledTask" ->
                IF unused = {} THEN done(FALSE, server, None)
                ELSE done(TRUE, saved(CHOOSE r \in unused : TRUE), None)
          [] a = "updateScheduledTask" ->
                IF known THEN done(TRUE, saved(job.id), None) ELSE done(FALSE, server, None)
          [] a = "deleteScheduledTask" ->
                done(known, IF known THEN [server EXCEPT !.tasks[job.id] = None, !.runs[job.id] = 0]
                            ELSE server, None)
          [] a = "runScheduledTask" ->
                done(known, IF known /\ server.runs[job.id] < MaxRuns
                            THEN [server EXCEPT !.runs[job.id] = @ + 1] ELSE server, None)
          [] a = "scheduledTaskRuns" ->
                done(known, server, [of |-> job.id, count |-> IF known THEN server.runs[job.id] ELSE 0])

TasksOnMounted == [op |-> "load", asks |-> TaskList]

(* load() inside a handler: the two lists are asked for together. *)
TasksAreLoading(r) == [r EXCEPT !.loading = TRUE]

(* A dialog covers the page; a spinner is there while something is being loaded. *)
NoTaskDialog == ~refs.showForm /\ ~refs.showRuns /\ refs.deletingTask = None
TaskTable == IF refs.loading THEN None ELSE refs.tasks
TaskRow(t) == NoTaskDialog /\ TaskTable # None /\ refs.tasks[t] # None

(* Mutant: the task that was edited before is not forgotten. *)
OpenCreateTaskEditing ==
    /\ NoTaskDialog
    /\ refs' = [refs EXCEPT !.form = EmptyForm, !.showForm = TRUE]
    /\ UNCHANGED <<jobs, sure>>

OpenCreateTask ==
    /\ NoTaskDialog
    /\ refs' = [refs EXCEPT !.editingId = None, !.form = EmptyForm, !.showForm = TRUE]
    /\ UNCHANGED <<jobs, sure>>

OpenEditTask(t) ==
    /\ TaskRow(t)
    /\ refs' = [refs EXCEPT !.editingId = t, !.showForm = TRUE,
                            !.form = [of |-> t, def |-> refs.tasks[t].def,
                                      enabled |-> refs.tasks[t].enabled]]
    /\ UNCHANGED <<jobs, sure>>

(* The form's fields follow the keyboard; it is valid when a handler is chosen, *)
(* among those that have been loaded.                                          *)
FillTaskForm(typed, on) == [refs.form EXCEPT !.def = typed, !.enabled = on]

SaveTask(typed, on) ==
    /\ refs.showForm /\ ~refs.saving
    /\ refs.handlers \/ refs.editingId # None
    /\ refs' = [refs EXCEPT !.saving = TRUE, !.form = FillTaskForm(typed, on)]
    /\ Begin("save", refs.editingId, FillTaskForm(typed, on),
             {IF refs.editingId # None THEN "updateScheduledTask" ELSE "createScheduledTask"})
    /\ UNCHANGED sure

CancelTaskForm ==
    /\ refs.showForm
    /\ refs' = [refs EXCEPT !.showForm = FALSE]
    /\ UNCHANGED <<jobs, sure>>

AskRemoveTask(t) ==
    /\ TaskRow(t)
    /\ refs' = [refs EXCEPT !.deletingTask = t]
    /\ UNCHANGED <<jobs, sure>>

(* The deletion dialog: 取消, or 删除 unless it shows the spinner. *)
CancelRemoveTask ==
    /\ refs.deletingTask # None
    /\ refs' = [refs EXCEPT !.deletingTask = None]
    /\ UNCHANGED <<jobs, sure>>

DeleteTask ==
    /\ refs.deletingTask # None /\ ~refs.saving
    /\ refs' = [refs EXCEPT !.saving = TRUE]
    /\ Begin("delete", refs.deletingTask, None, {"deleteScheduledTask"})
    /\ UNCHANGED sure

RunTaskNow(t) ==
    /\ TaskRow(t)
    /\ Begin("run", t, None, {"runScheduledTask"})
    /\ UNCHANGED <<refs, sure>>

(* The switch of a row sends the definition the row shows. *)
ToggleTask(t) ==
    /\ TaskRow(t) /\ refs.togglingId # t
    /\ refs' = [refs EXCEPT !.togglingId = t]
    /\ Begin("toggle", t, [of |-> t, def |-> refs.tasks[t].def, enabled |-> ~refs.tasks[t].enabled],
             {"updateScheduledTask"})
    /\ UNCHANGED sure

ShowTaskHistory(t) ==
    /\ TaskRow(t)
    /\ Begin("history", t, None, {"scheduledTaskRuns"})
    /\ UNCHANGED <<refs, sure>>

CloseTaskHistory ==
    /\ refs.showRuns
    /\ refs' = [refs EXCEPT !.showRuns = FALSE]
    /\ UNCHANGED <<jobs, sure>>

ReloadTasks ==
    /\ NoTaskDialog /\ ~refs.loading
    /\ refs' = TasksAreLoading(refs)
    /\ Begin("load", None, None, TaskList)
    /\ sure' = (Reading(TaskList) = {})

(* What the user does that asks the server, and what only opens or closes. *)
TasksAsk ==
    \/ \E typed \in Typed, on \in BOOLEAN : SaveTask(typed, on)
    \/ DeleteTask
    \/ \E t \in Rows : RunTaskNow(t) \/ ToggleTask(t) \/ ShowTaskHistory(t)
    \/ ReloadTasks

TasksOpenOrClose ==
    \/ OpenCreateTask
    \/ \E t \in Rows : OpenEditTask(t) \/ AskRemoveTask(t)
    \/ CancelTaskForm \/ CancelRemoveTask \/ CloseTaskHistory

(* Mutant: deleteTask() leaves the spinner of its dialog on. *)
TaskHandlerEndsBusy(op, r) ==
    [r EXCEPT !.saving = IF op = "save" THEN FALSE ELSE @,
              !.togglingId = IF op = "toggle" THEN None ELSE @]

(* The flags a handler's finally clears. *)
TaskHandlerEnds(op, r) ==
    [r EXCEPT !.saving = IF op \in {"save", "delete"} THEN FALSE ELSE @,
              !.togglingId = IF op = "toggle" THEN None ELSE @]

(* Mutant: the switch changes the row that is shown, and loads nothing. *)
TaskChangedInPlace(n) ==
    LET op == jobs[n].op
        closed == [refs EXCEPT !.showForm = IF op = "save" THEN FALSE ELSE @,
                               !.deletingTask = IF op = "delete" THEN None ELSE @]
    IN  /\ op \in {"save", "delete", "run", "toggle"} /\ ~AsksFor(n, TaskList)
        /\ AllAnswered(n)
        /\ IF op = "toggle"
           THEN /\ Show(n, [closed EXCEPT !.togglingId = None])
                /\ End(n)
                /\ UNCHANGED sure
           ELSE /\ Show(n, TasksAreLoading(closed))
                /\ Reload(n, TaskList)

(* After the await of a change: the dialog closes and the lists are loaded. *)
TaskChanged(n) ==
    LET op == jobs[n].op
        closed == [refs EXCEPT !.showForm = IF op = "save" THEN FALSE ELSE @,
                               !.deletingTask = IF op = "delete" THEN None ELSE @]
    IN  /\ op \in {"save", "delete", "run", "toggle"} /\ ~AsksFor(n, TaskList)
        /\ AllAnswered(n)
        /\ Show(n, TasksAreLoading(closed))
        /\ Reload(n, TaskList)

TaskRefused(n) ==
    /\ jobs[n].op \in {"save", "delete", "run", "toggle", "history"} /\ ~AsksFor(n, TaskList)
    /\ SomeFailed(n)
    /\ Show(n, TaskHandlerEnds(jobs[n].op, refs))
    /\ End(n)
    /\ UNCHANGED sure

TasksLoaded(n) ==
    LET shown == IF SomeFailed(n) THEN refs
                 ELSE [refs EXCEPT !.tasks = Value(n, "scheduledTasks"),
                                   !.handlers = Value(n, "scheduledTaskHandlers")]
    IN  /\ AsksFor(n, TaskList)
        /\ AllAnswered(n) \/ SomeFailed(n)
        /\ Show(n, TaskHandlerEnds(jobs[n].op, [shown EXCEPT !.loading = FALSE]))
        /\ End(n)
        /\ UNCHANGED sure

TaskHistoryLoaded(n) ==
    /\ jobs[n].op = "history" /\ AllAnswered(n)
    /\ Show(n, [refs EXCEPT !.runs = Value(n, "scheduledTaskRuns"), !.showRuns = TRUE])
    /\ End(n)
    /\ UNCHANGED sure

TasksResume(n) == TaskChanged(n) \/ TaskRefused(n) \/ TasksLoaded(n) \/ TaskHistoryLoaded(n)

(* The table shows the tasks the server has. *)
TasksShown == TaskTable = server.tasks

TasksBusy ==
    LET mine(ops) == \E n \in Running : jobs[n].visit = visit /\ jobs[n].op \in ops
    IN  /\ refs.loading => \E n \in Running : jobs[n].visit = visit /\ AsksFor(n, TaskList)
        /\ refs.saving => mine({"save", "delete"})
        /\ refs.togglingId # None => \E n \in Running : /\ jobs[n].visit = visit
                                                       /\ jobs[n].op = "toggle"
                                                       /\ jobs[n].id = refs.togglingId
==============================================================================
