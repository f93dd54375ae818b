---------------------------- MODULE TaskScheduler ----------------------------
(***************************************************************************)
(* SchedulerRuntime (scheduling/runtime.py) and TaskStore                  *)
(* (scheduling/store.py): tasks kept in SQLite, their jobs in APScheduler, *)
(* and the executions that the schedule and run_now start.                 *)
(*                                                                         *)
(* All statements go through one aiosqlite connection, which answers them  *)
(* in the order they were submitted.  A statement therefore takes effect   *)
(* in the step that submits it, and its result is used in a later step, in *)
(* which the task may be another one.  Each action is the code between two *)
(* such waits.                                                             *)
(*                                                                         *)
(* APScheduler is external: a job has the id of its task; a job of a once  *)
(* task is gone when it has fired; a job is skipped while an execution     *)
(* that it started is in flight (max_instances=1) or when it comes more    *)
(* than misfire_grace_time late.                                           *)
(***************************************************************************)
EXTENDS Naturals, Sequences, SequencesExt, FiniteSets

CONSTANTS
    Tasks,          \* task ids; uuid4 never returns one twice
    Handlers,       \* handler names
    Executions,     \* calls of _execute that may be in flight together
    Savers,         \* calls of create and update that may be in flight together
    Saved,          \* what users save, a subset of Definition
    Results,        \* how handlers may end, a subset of {"completed", "failed"}
    None,
    MaxConcurrency,
    MaxLocks,       \* bound: lock objects in use at one time
    MaxSaves,       \* bound: tasks created and updated
    MaxStops,       \* bound: restarts of the process
    Budgets         \* bounds, one record per scenario: see budget

\* Identities of the locks in self._locks.
Locks == 1..MaxLocks

ASSUME ResultsAssumption == Results \subseteq {"completed", "failed"}
ASSUME NoneAssumption == None \notin Locks /\ None \notin Tasks /\ None \notin Results
ASSUME ExecutionsAssumption == IsFiniteSet(Executions)
ASSUME BoundsAssumption ==
    /\ MaxConcurrency \in Nat \ {0}
    /\ MaxLocks \in Nat /\ MaxSaves \in Nat /\ MaxStops \in Nat
    /\ Budgets \subseteq [executions : Nat, savers : Nat, saves : 0..MaxSaves, stops : 0..MaxStops]

Status == {"scheduled", "running", "completed", "failed", "disabled", "unavailable"}

\* A definition.  Cron and interval tasks repeat; nothing else tells them apart here.
Definition == [kind : {"once", "repeat"}, handler : Handlers, enabled : BOOLEAN]

ASSUME SavedAssumption == Saved \subseteq Definition

\* A row of scheduled_tasks; rev tells the definitions of a task apart.
Row == [def : Definition, status : Status, rev : 1..MaxSaves]

Execution ==
    [pc : {"idle", "asked", "called", "waiting", "queued", "reading", "adding", "marking",
           "handling", "recording", "leaving"},
     task : Tasks \union {None}, seen : Row \union {None}, scheduled : BOOLEAN,
     lock : Locks \union {None}, result : Results \union {None}]

Saver ==
    [pc : {"idle", "found", "written", "reread"}, task : Tasks \union {None},
     def : Definition \union {None}, seen : Row \union {None}]

VARIABLES
    \* durable
    rows,       \* scheduled_tasks: task -> Row, or None
    openRuns,   \* task_runs: how many records of the task say RUNNING
    doneRuns,   \* task_runs: what the finished records of the task say
    \* in memory
    registered, \* the handler names of TaskHandlerRegistry
    jobs,       \* the job of each task: the kind and rev of its trigger, or None
    locks,      \* self._locks
    held,       \* the locks that are locked
    permits,    \* the value of self._global_semaphore
    exec,       \* the executions
    saver,      \* the calls of create and update
    order,      \* the savers whose row is written, in that order
    \* history
    created,    \* task ids given out
    saves,      \* how often create or update wrote a row
    stops,      \* restarts
    passed,     \* the revs whose job has fired or was skipped
    starts,     \* how often the schedule started the once task of this rev
    cut,        \* how often a restart interrupted such an execution
    lost,       \* executions of the task whose RUNNING record no one will close
    interrupted, \* tasks that a restart interrupted while they said RUNNING
    budget      \* bounds: [executions, savers, saves, stops] of this behaviour

durable == <<rows, openRuns, doneRuns>>
memory == <<registered, jobs, locks, held, permits, exec, saver, order>>
history == <<created, saves, stops, passed, starts, cut, lost, interrupted, budget>>
vars == <<durable, memory, history>>

Job == [kind : {"once", "repeat"}, rev : 1..MaxSaves]

ASSUME NotNoneAssumption == None \notin Definition /\ None \notin Row /\ None \notin Job

TypeOK ==
    /\ rows \in [Tasks -> Row \union {None}]
    /\ openRuns \in [Tasks -> Nat]
    /\ doneRuns \in [Tasks -> SUBSET Results]
    /\ registered \subseteq Handlers
    /\ jobs \in [Tasks -> Job \union {None}]
    /\ locks \in [Tasks -> Locks \union {None}]
    /\ held \subseteq Locks
    /\ permits \in 0..MaxConcurrency
    /\ exec \in [Executions -> Execution]
    /\ saver \in [Savers -> Saver]
    /\ order \in Seq(Savers)
    /\ created \subseteq Tasks
    /\ saves \in 0..MaxSaves
    /\ stops \in 0..MaxStops
    /\ passed \subseteq 1..MaxSaves
    /\ starts \in [1..MaxSaves -> Nat]
    /\ cut \in [1..MaxSaves -> Nat]
    /\ lost \in [Tasks -> Nat]
    /\ interrupted \subseteq Tasks
    /\ budget \in Budgets

MayExecute == Cardinality({x \in Executions : exec[x].pc # "idle"}) < budget.executions
MaySave == Cardinality({u \in Savers : saver[u].pc # "idle"}) < budget.savers

IdleExecution ==
    [pc |-> "idle", task |-> None, seen |-> None, scheduled |-> FALSE, lock |-> None,
     result |-> None]
IdleSaver == [pc |-> "idle", task |-> None, def |-> None, seen |-> None]

Init ==
    /\ rows = [t \in Tasks |-> None]
    /\ openRuns = [t \in Tasks |-> 0]
    /\ doneRuns = [t \in Tasks |-> {}]
    /\ registered = Handlers
    /\ jobs = [t \in Tasks |-> None]
    /\ locks = [t \in Tasks |-> None]
    /\ held = {}
    /\ permits = MaxConcurrency
    /\ exec = [x \in Executions |-> IdleExecution]
    /\ saver = [u \in Savers |-> IdleSaver]
    /\ order = <<>>
    /\ created = {}
    /\ saves = 0
    /\ stops = 0
    /\ passed = {}
    /\ starts = [r \in 1..MaxSaves |-> 0]
    /\ cut = [r \in 1..MaxSaves |-> 0]
    /\ lost = [t \in Tasks |-> 0]
    /\ interrupted = {}
    /\ budget \in Budgets

------------------------------------------------------------------------------
(* Statements of TaskStore *)

\* update_runtime, which changes nothing if the row is gone.
SetStatus(t, status) ==
    rows' = IF rows[t] = None THEN rows ELSE [rows EXCEPT ![t] = [@ EXCEPT !.status = status]]

\* The INSERT of add_run fails on its foreign key if the task is gone.
Unrecorded == UNCHANGED <<openRuns, doneRuns>>

StatusOf(def) == IF def.enabled THEN "scheduled" ELSE "disabled"

WriteRow(t, def) ==
    /\ saves < budget.saves
    /\ saves' = saves + 1
    /\ rows' = [rows EXCEPT ![t] = [def |-> def, status |-> StatusOf(def), rev |-> saves']]

------------------------------------------------------------------------------
(* create() and update() *)

Before(u, v) ==
    \E i, j \in DOMAIN order : i < j /\ order[i] = u /\ order[j] = v

SaverBecomes(u, s) == saver' = [saver EXCEPT ![u] = s]

\* _validate, _require_handler and _build_trigger have passed: only then is anything written.
Create(u, t, def) ==
    /\ saver[u].pc = "idle" /\ MaySave
    /\ def.handler \in registered
    /\ t \notin created
    /\ WriteRow(t, def)
    /\ created' = created \union {t}
    /\ SaverBecomes(u, [pc |-> "written", task |-> t, def |-> None, seen |-> None])
    /\ order' = Append(order, u)
    /\ UNCHANGED <<openRuns, doneRuns, registered, jobs, locks, held, permits, exec,
                   stops, passed, starts, cut, lost, interrupted, budget>>

BeginUpdate(u, t, def) ==
    /\ saver[u].pc = "idle" /\ MaySave
    /\ saves < budget.saves
    /\ def.handler \in registered
    /\ rows[t] # None
    /\ SaverBecomes(u, [pc |-> "found", task |-> t, def |-> def, seen |-> None])
    /\ UNCHANGED <<durable, registered, jobs, locks, held, permits, exec, order, history>>

\* The job is removed and the UPDATE submitted; the assertion fails if the row is gone.
Write(u) ==
    /\ saver[u].pc = "found"
    /\ LET t == saver[u].task IN
        /\ jobs' = [jobs EXCEPT ![t] = None]
        /\ \/ /\ rows[t] # None
              /\ WriteRow(t, saver[u].def)
              /\ SaverBecomes(u, [saver[u] EXCEPT !.pc = "written", !.def = None])
              /\ order' = Append(order, u)
           \/ /\ rows[t] = None
              /\ SaverBecomes(u, IdleSaver)
              /\ UNCHANGED <<rows, saves, order>>
    /\ UNCHANGED <<openRuns, doneRuns, registered, locks, held, permits, exec,
                   created, stops, passed, starts, cut, lost, interrupted, budget>>

\* The SELECT that follows; savers advance in the order of their writes.
Reread(u) ==
    /\ saver[u].pc = "written"
    /\ \A v \in Savers : Before(v, u) => saver[v].pc = "reread"
    /\ SaverBecomes(u, [saver[u] EXCEPT !.pc = "reread", !.seen = rows[saver[u].task]])
    /\ UNCHANGED <<durable, registered, jobs, locks, held, permits, exec, order, history>>

\* _schedule and _refresh_next_run; nothing if the row was gone or is disabled.
Reschedule(u) ==
    /\ saver[u].pc = "reread"
    /\ Head(order) = u
    /\ LET t == saver[u].task
           s == saver[u].seen
       IN  IF s # None /\ s.def.enabled
           THEN /\ jobs' = [jobs EXCEPT ![t] = [kind |-> s.def.kind, rev |-> s.rev]]
                /\ SetStatus(t, "scheduled")
           ELSE UNCHANGED <<jobs, rows>>
    /\ SaverBecomes(u, IdleSaver)
    /\ order' = Tail(order)
    /\ UNCHANGED <<openRuns, doneRuns, registered, locks, held, permits, exec, history>>

\* delete(): job, lock, row and history go in one step.
Delete(t) ==
    /\ t \in created
    /\ jobs' = [jobs EXCEPT ![t] = None]
    /\ locks' = [locks EXCEPT ![t] = None]
    /\ rows' = [rows EXCEPT ![t] = None]
    /\ openRuns' = [openRuns EXCEPT ![t] = 0]
    /\ doneRuns' = [doneRuns EXCEPT ![t] = {}]
    /\ UNCHANGED <<registered, held, permits, exec, saver, order, history>>

------------------------------------------------------------------------------
(* The schedule *)

\* The time of a job has come; a once job has no other.
JobPasses(t) ==
    IF jobs[t].kind = "once"
    THEN /\ jobs' = [jobs EXCEPT ![t] = None]
         /\ passed' = passed \union {jobs[t].rev}
    ELSE UNCHANGED <<jobs, passed>>

ExecBecomes(x, e) == exec' = [exec EXCEPT ![x] = e]

\* x has nothing left to do but to release what it holds.
Abandon(x) == ExecBecomes(x, [exec[x] EXCEPT !.pc = "leaving", !.seen = None,
                                            !.result = None])

Call(t, scheduled, pc) ==
    [IdleExecution EXCEPT !.pc = pc, !.task = t, !.seen = rows[t], !.scheduled = scheduled]

\* The job starts _execute, which submits its first SELECT.
Fire(x, t) ==
    /\ jobs[t] # None
    /\ exec[x].pc = "idle" /\ MayExecute
    /\ \A y \in Executions : exec[y].task = t => ~exec[y].scheduled
    /\ JobPasses(t)
    /\ ExecBecomes(x, Call(t, TRUE, "called"))
    /\ UNCHANGED <<durable, registered, locks, held, permits, saver, order,
                   created, saves, stops, starts, cut, lost, interrupted, budget>>

\* max_instances or misfire_grace_time: the job passes and nothing is started.
Skip(t) ==
    /\ jobs[t] # None
    /\ JobPasses(t)
    /\ UNCHANGED <<durable, registered, locks, held, permits, exec, saver, order,
                   created, saves, stops, starts, cut, lost, interrupted, budget>>

------------------------------------------------------------------------------
(* run_now(), _execute() and _execute_locked() *)

RunNow(x, t) ==
    /\ exec[x].pc = "idle" /\ MayExecute
    /\ t \in created
    /\ ExecBecomes(x, Call(t, FALSE, "asked"))
    /\ UNCHANGED <<durable, registered, jobs, locks, held, permits, saver, order, history>>

\* run_now found the task, or raises.
Asked(x) ==
    /\ exec[x].pc = "asked"
    /\ ExecBecomes(x, IF exec[x].seen = None THEN IdleExecution
                      ELSE Call(exec[x].task, FALSE, "called"))
    /\ UNCHANGED <<durable, registered, jobs, locks, held, permits, saver, order, history>>

\* The row that was read lets the execution go on.
MayRun(e) == e.seen # None /\ (e.scheduled => e.seen.def.enabled)

\* Locks that nobody knows, and the one that asyncio.Lock() returns.
FreeLocks == {l \in Locks : /\ \A t \in Tasks : locks[t] # l
                            /\ \A x \in Executions : exec[x].lock # l}
NewLock == {l \in FreeLocks : \A k \in FreeLocks : l <= k}

\* setdefault(task_id, asyncio.Lock())
LockFor(t) == IF locks[t] # None THEN {locks[t]} ELSE NewLock

\* Mutant: each execution brings a lock of its own.
EnterAlone(x) ==
    /\ exec[x].pc = "called"
    /\ MayRun(exec[x])
    /\ \E l \in NewLock :
        ExecBecomes(x, [exec[x] EXCEPT !.pc = "waiting", !.seen = None, !.lock = l])
    /\ UNCHANGED <<durable, registered, jobs, locks, held, permits, saver, order, history>>

\* _execute returns, or waits for the lock of its task.
Enter(x) ==
    /\ exec[x].pc = "called"
    /\ \/ /\ MayRun(exec[x])
          /\ \E l \in LockFor(exec[x].task) :
                /\ locks' = [locks EXCEPT ![exec[x].task] = l]
                /\ ExecBecomes(x, [exec[x] EXCEPT !.pc = "waiting", !.seen = None, !.lock = l])
       \/ /\ ~MayRun(exec[x])
          /\ ExecBecomes(x, IdleExecution)
          /\ UNCHANGED locks
    /\ UNCHANGED <<durable, registered, jobs, held, permits, saver, order, history>>

TakeLock(x) ==
    /\ exec[x].pc = "waiting"
    /\ exec[x].lock \notin held
    /\ held' = held \union {exec[x].lock}
    /\ ExecBecomes(x, [exec[x] EXCEPT !.pc = "queued"])
    /\ UNCHANGED <<durable, registered, jobs, locks, permits, saver, order, history>>

\* The semaphore, then the SELECT of _execute_locked.
TakePermit(x) ==
    /\ exec[x].pc = "queued"
    /\ permits > 0
    /\ permits' = permits - 1
    /\ ExecBecomes(x, [exec[x] EXCEPT !.pc = "reading", !.seen = rows[exec[x].task]])
    /\ UNCHANGED <<durable, registered, jobs, locks, held, saver, order, history>>

\* The task is gone or was disabled while the execution waited.
Withdraw(x) ==
    /\ exec[x].pc = "reading"
    /\ ~MayRun(exec[x])
    /\ Abandon(x)
    /\ UNCHANGED <<durable, registered, jobs, locks, held, permits, saver, order, history>>

Unavailable(x) ==
    /\ exec[x].pc = "reading"
    /\ MayRun(exec[x])
    /\ exec[x].seen.def.handler \notin registered
    /\ SetStatus(exec[x].task, "unavailable")
    /\ Abandon(x)
    /\ UNCHANGED <<openRuns, doneRuns, registered, jobs, locks, held, permits, saver, order,
                   history>>

\* Mutant: the foreign key is not enforced (PRAGMA foreign_keys).
RecordWithoutTask(x) ==
    /\ exec[x].pc = "reading"
    /\ MayRun(exec[x])
    /\ exec[x].seen.def.handler \in registered
    /\ openRuns' = [openRuns EXCEPT ![exec[x].task] = @ + 1]
    /\ ExecBecomes(x, [exec[x] EXCEPT !.pc = "adding"])
    /\ UNCHANGED <<rows, doneRuns, registered, jobs, locks, held, permits, saver, order, history>>

\* add_run with status RUNNING, or its IntegrityError.
RecordStart(x) ==
    /\ exec[x].pc = "reading"
    /\ MayRun(exec[x])
    /\ exec[x].seen.def.handler \in registered
    /\ \/ /\ rows[exec[x].task] # None
          /\ openRuns' = [openRuns EXCEPT ![exec[x].task] = @ + 1]
          /\ ExecBecomes(x, [exec[x] EXCEPT !.pc = "adding"])
       \/ /\ rows[exec[x].task] = None
          /\ Abandon(x)
          /\ UNCHANGED openRuns
    /\ UNCHANGED <<rows, doneRuns, registered, jobs, locks, held, permits, saver, order, history>>

\* update_runtime with status RUNNING.
MarkRunning(x) ==
    /\ exec[x].pc = "adding"
    /\ SetStatus(exec[x].task, "running")
    /\ ExecBecomes(x, [exec[x] EXCEPT !.pc = "marking"])
    /\ UNCHANGED <<openRuns, doneRuns, registered, jobs, locks, held, permits, saver, order,
                   history>>

\* The executions that will consume a once task.
Consumes(e) == e.scheduled /\ e.seen.def.kind = "once"

StartHandler(x) ==
    /\ exec[x].pc = "marking"
    /\ ExecBecomes(x, [exec[x] EXCEPT !.pc = "handling"])
    /\ starts' = IF Consumes(exec[x])
                 THEN [starts EXCEPT ![exec[x].seen.rev] = @ + 1]
                 ELSE starts
    /\ UNCHANGED <<durable, registered, jobs, locks, held, permits, saver, order,
                   created, saves, stops, passed, cut, lost, interrupted, budget>>

\* Mutant: an exception of the handler leaves _execute_locked.
EndHandlerRaises(x, result) ==
    /\ exec[x].pc = "handling"
    /\ exec[x].task # None
    /\ IF result = "failed"
       THEN /\ Abandon(x)
            /\ UNCHANGED <<openRuns, doneRuns>>
       ELSE /\ rows[exec[x].task] # None
            /\ openRuns' = [openRuns EXCEPT ![exec[x].task] = @ - 1]
            /\ doneRuns' = [doneRuns EXCEPT ![exec[x].task] = @ \union {result}]
            /\ ExecBecomes(x, [exec[x] EXCEPT !.pc = "recording", !.result = result])
    /\ UNCHANGED <<rows, registered, jobs, locks, held, permits, saver, order, history>>

\* The handler returns or raises; add_run replaces the record, or fails.
EndHandler(x, result) ==
    /\ exec[x].pc = "handling"
    /\ LET t == exec[x].task IN
        \/ /\ rows[t] # None
           /\ openRuns' = [openRuns EXCEPT ![t] = @ - 1]
           /\ doneRuns' = [doneRuns EXCEPT ![t] = @ \union {result}]
           /\ ExecBecomes(x, [exec[x] EXCEPT !.pc = "recording", !.result = result])
        \/ /\ rows[t] = None
           /\ Abandon(x)
           /\ Unrecorded
    /\ UNCHANGED <<rows, registered, jobs, locks, held, permits, saver, order, history>>

\* Mutants: a once task stays enabled; run_now removes the job of a once task.
FinishEnabled(x) ==
    /\ exec[x].pc = "recording"
    /\ jobs' = IF Consumes(exec[x]) THEN [jobs EXCEPT ![exec[x].task] = None] ELSE jobs
    /\ SetStatus(exec[x].task, exec[x].result)
    /\ Abandon(x)
    /\ UNCHANGED <<openRuns, doneRuns, registered, locks, held, permits, saver, order, history>>
FinishUnscheduled(x) ==
    /\ exec[x].pc = "recording"
    /\ jobs' = IF exec[x].seen.def.kind = "once"
               THEN [jobs EXCEPT ![exec[x].task] = None] ELSE jobs
    /\ SetStatus(exec[x].task, exec[x].result)
    /\ Abandon(x)
    /\ UNCHANGED <<openRuns, doneRuns, registered, locks, held, permits, saver, order, history>>

\* The last part of _execute_locked: a once task that the schedule started, as it was
\* read before the handler, is unscheduled and disabled, whatever it is by now.
Finish(x) ==
    /\ exec[x].pc = "recording"
    /\ LET t == exec[x].task
           done(row) == [row EXCEPT !.status = exec[x].result,
                                    !.def.enabled = @ /\ ~Consumes(exec[x])]
       IN  /\ jobs' = IF Consumes(exec[x]) THEN [jobs EXCEPT ![t] = None] ELSE jobs
           /\ rows' = IF rows[t] = None THEN rows ELSE [rows EXCEPT ![t] = done(@)]
    /\ Abandon(x)
    /\ UNCHANGED <<openRuns, doneRuns, registered, locks, held, permits, saver, order, history>>

\* Mutant: only an execution that recorded its end releases the permit.
LeaveHolding(x) ==
    /\ exec[x].pc = "leaving"
    /\ held' = held \ {exec[x].lock}
    /\ permits' = IF rows[exec[x].task] = None THEN permits ELSE permits + 1
    /\ ExecBecomes(x, IdleExecution)
    /\ UNCHANGED <<durable, registered, jobs, locks, saver, order, history>>

\* Normally or with an exception: semaphore and lock are released.
Leave(x) ==
    /\ exec[x].pc = "leaving"
    /\ held' = held \ {exec[x].lock}
    /\ permits' = permits + 1
    /\ ExecBecomes(x, IdleExecution)
    /\ UNCHANGED <<durable, registered, jobs, locks, saver, order, history>>

------------------------------------------------------------------------------
(* The process *)

\* The process stops, by a crash or by shutdown(), which cancels its executions, and
\* starts again with the handler names of H: start() schedules the enabled tasks.
Restart(H) ==
    /\ stops < budget.stops
    /\ stops' = stops + 1
    /\ registered' = H
    /\ LET Due(t) == rows[t] # None /\ rows[t].def.enabled
           Known(t) == rows[t].def.handler \in H
       IN  /\ rows' = [t \in Tasks |->
                IF ~Due(t) THEN rows[t]
                ELSE [rows[t] EXCEPT !.status = IF Known(t) THEN "scheduled" ELSE "unavailable"]]
           /\ jobs' = [t \in Tasks |->
                IF Due(t) /\ Known(t) THEN [kind |-> rows[t].def.kind, rev |-> rows[t].rev]
                ELSE None]
    /\ locks' = [t \in Tasks |-> None]
    /\ held' = {}
    /\ permits' = MaxConcurrency
    /\ exec' = [x \in Executions |-> IdleExecution]
    /\ saver' = [u \in Savers |-> IdleSaver]
    /\ order' = <<>>
    /\ LET Interrupted(r) == {x \in Executions :
                /\ exec[x].pc \in {"handling", "recording"}
                /\ Consumes(exec[x])
                /\ exec[x].seen.rev = r}
           Unclosed(t) == {x \in Executions :
                exec[x].pc \in {"adding", "marking", "handling"} /\ exec[x].task = t}
           Running == {exec[x].task : x \in {y \in Executions :
                exec[y].pc \in {"marking", "handling", "recording"}}}
       IN  /\ cut' = [r \in 1..MaxSaves |-> cut[r] + Cardinality(Interrupted(r))]
           /\ lost' = [t \in Tasks |-> lost[t] + Cardinality(Unclosed(t))]
           /\ interrupted' = interrupted \union Running
    /\ UNCHANGED <<openRuns, doneRuns, created, saves, passed, starts, budget>>

------------------------------------------------------------------------------
SaveStep(u) == Write(u) \/ Reread(u) \/ Reschedule(u)

\* What an execution does by itself.
Proceed(x) ==
    \/ Asked(x) \/ Enter(x) \/ TakeLock(x) \/ TakePermit(x)
    \/ Withdraw(x) \/ Unavailable(x) \/ RecordStart(x) \/ MarkRunning(x) \/ StartHandler(x)
    \/ \E result \in Results : EndHandler(x, result)
    \/ Finish(x) \/ Leave(x)

Next ==
    \/ \E u \in Savers :
        \/ \E t \in Tasks, def \in Saved : Create(u, t, def) \/ BeginUpdate(u, t, def)
        \/ SaveStep(u)
    \/ \E t \in Tasks : Delete(t) \/ Skip(t)
    \/ \E x \in Executions :
        \/ \E t \in Tasks : Fire(x, t) \/ RunNow(x, t)
        \/ Proceed(x)
    \/ \E H \in SUBSET Handlers : Restart(H)

Spec == Init /\ [][Next]_vars

\* The event loop runs what is ready, the database answers, and handlers end (their HTTP
\* and action calls have timeouts).  Strong fairness stands for the queues of asyncio.Lock
\* and asyncio.Semaphore, which pass nobody over.
FairSpec == Spec /\ \A x \in Executions : SF_vars(Proceed(x))

------------------------------------------------------------------------------
(* Properties *)

Handling == {x \in Executions : exec[x].pc = "handling"}

\* The handler of a task never runs twice at a time, though delete() forgets the lock of
\* an execution in flight (tests/test_scheduling.py: same task runs do not overlap).
NoOverlap ==
    \A x, y \in Handling : exec[x].task = exec[y].task => x = y

\* The schedule starts a once task once: again only if a restart cut it short.
OnceStartsOnce == \A r \in 1..MaxSaves : starts[r] <= 1 + cut[r]

\* An enabled task that nobody is saving has a job, and the job has the trigger that was
\* saved last; only a once task may be without, and only because its time has passed.
EnabledIsScheduled ==
    \A t \in Tasks :
        /\ rows[t] # None
        /\ rows[t].def.enabled
        /\ rows[t].def.handler \in registered
        /\ \A u \in Savers : saver[u].task = t => saver[u].pc \notin {"written", "reread"}
        => \/ jobs[t] = [kind |-> rows[t].def.kind, rev |-> rows[t].rev]
           \/ rows[t].def.kind = "once" /\ rows[t].rev \in passed

\* RUNNING tells the truth: in the history for each record, and in the list of tasks in
\* one direction (update() hides it), but for what a restart cut short.
RunningTellsTheTruth ==
    \A t \in Tasks : rows[t] # None =>
        LET In(pcs) == {x \in Executions : exec[x].task = t /\ exec[x].pc \in pcs}
        IN  /\ openRuns[t] = Cardinality(In({"adding", "marking", "handling"})) + lost[t]
            /\ rows[t].status = "running" =>
                In({"marking", "handling", "recording"}) # {} \/ t \in interrupted

\* Nothing of a deleted task comes back: no row, and no record of an execution that
\* outlived it.
DeletedLeavesNothing ==
    \A t \in Tasks : rows[t] = None => openRuns[t] = 0 /\ doneRuns[t] = {}

\* Every execution gets through the lock and the semaphore and releases both.
ExecutionsEnd == \A x \in Executions : exec[x].pc # "idle" ~> exec[x].pc = "idle"
==============================================================================
