------------------------- MODULE TaskSchedulerProofs -------------------------
(***************************************************************************)
(* TypeOK, NoOverlap, DeletedLeavesNothing, RunningTellsTheTruth,          *)
(* OnceStartsOnce and EnabledIsScheduled for any number of tasks,          *)
(* executions and savers.                                                  *)
(***************************************************************************)
EXTENDS TaskScheduler, LineLemmas, FiniteSetTheorems, TLAPS

\* The places of an execution that holds its lock, that holds a permit, and whose
\* record says RUNNING.
Holding == {"queued", "reading", "adding", "marking", "handling", "recording", "leaving"}
Permitted == Holding \ {"queued"}
Opened == {"adding", "marking", "handling"}

\* TypeOK but for what has to be counted.
RestTyped ==
    /\ rows \in [Tasks -> Row \union {None}]
    /\ openRuns \in [Tasks -> Int]
    /\ doneRuns \in [Tasks -> SUBSET Results]
    /\ registered \subseteq Handlers
    /\ jobs \in [Tasks -> Job \union {None}]
    /\ locks \in [Tasks -> Locks \union {None}]
    /\ held \subseteq Locks
    /\ permits \in Int
    /\ exec \in [Executions -> Execution]
    /\ saver \in [Savers -> Saver]
    /\ order \in Seq(Savers)
    /\ created \subseteq Tasks
    /\ saves \in 0..MaxSaves
    /\ stops \in 0..MaxStops
    /\ passed \subseteq 1..MaxSaves
    /\ starts \in [1..MaxSaves -> Nat]
    /\ cut \in [1..MaxSaves -> Nat]
    /\ lost \in [Tasks -> Nat]
    /\ interrupted \subseteq Tasks
    /\ budget \in Budgets

\* What an execution has at each of its places, and that its task was created.
ExecutionOK(x) ==
    /\ exec[x].pc = "idle" => exec[x] = IdleExecution
    /\ exec[x].pc # "idle" => exec[x].task \in created
    /\ exec[x].lock # None <=> exec[x].pc \in Holding \union {"waiting"}
    /\ exec[x].pc \in Opened \union {"recording"} => exec[x].seen # None
    /\ exec[x].pc = "recording" => exec[x].result # None
    /\ exec[x].pc \in {"waiting", "queued", "leaving"} => exec[x].seen = None
ExecutionsOK == \A x \in Executions : ExecutionOK(x)

\* What a saver has, and that it is in the order of the answers once it has written.
SaversOK ==
    \A u \in Savers :
        /\ saver[u].pc # "idle" => saver[u].task \in created
        /\ saver[u].pc = "found" => saver[u].def # None
        /\ saver[u].pc \in {"written", "reread"} => \E i \in 1..Len(order) : order[i] = u

\* Only a task that was created has a row, a job, or executions without a record.
RowsOK == \A t \in Tasks : rows[t] # None \/ jobs[t] # None \/ lost[t] # 0 => t \in created

Shape == RestTyped /\ ExecutionsOK /\ SaversOK /\ RowsOK

------------------------------------------------------------------------------
\* Only the execution x moves.
Moves(x) ==
    /\ exec' = [exec EXCEPT ![x] = exec'[x]]
    /\ exec'[x] \in Execution
    /\ ExecutionOK(x)'
    /\ UNCHANGED created

\* It is at another place with what it had.
To(x, place) ==
    /\ exec'[x].pc = place
    /\ exec'[x].task = exec[x].task
    /\ exec'[x].lock = exec[x].lock
    /\ exec'[x].scheduled = exec[x].scheduled

LEMMA OthersStay ==
    ASSUME RestTyped, ExecutionsOK, NEW x \in Executions, Moves(x)
    PROVE  exec' \in [Executions -> Execution] /\ ExecutionsOK'
  BY DEF RestTyped, ExecutionsOK, ExecutionOK, Moves, Holding, Opened, IdleExecution

\* What the execution x changes beside itself keeps its shape.
RestStays ==
    /\ UNCHANGED <<registered, saver, order, created, saves, stops, cut, lost, interrupted, budget>>
    /\ rows' \in [Tasks -> Row \union {None}]
    /\ \A t \in Tasks : rows'[t] # None => rows[t] # None
    /\ openRuns' \in [Tasks -> Int]
    /\ doneRuns' \in [Tasks -> SUBSET Results]
    /\ jobs' \in [Tasks -> Job \union {None}]
    /\ \A t \in Tasks : jobs'[t] # None => jobs[t] # None
    /\ locks' \in [Tasks -> Locks \union {None}]
    /\ held' \subseteq Locks
    /\ permits' \in Int
    /\ passed' \subseteq 1..MaxSaves
    /\ starts' \in [1..MaxSaves -> Nat]

LEMMA ShapeStays ==
    ASSUME Shape, NEW x \in Executions, Moves(x), RestStays
    PROVE  Shape'
<1>1. exec' \in [Executions -> Execution] /\ ExecutionsOK'
  BY OthersStay DEF Shape
<1>2. RestTyped'
  BY <1>1 DEF Shape, RestTyped, RestStays
<1>3. SaversOK'
  BY DEF Shape, SaversOK, RestStays
<1>4. RowsOK'
  BY DEF Shape, RowsOK, RestStays
<1> QED
  BY <1>1, <1>2, <1>3, <1>4 DEF Shape

LEMMA Becoming ==
    ASSUME Shape, NEW x \in Executions, NEW e, ExecBecomes(x, e)
    PROVE  exec'[x] = e /\ exec' = [exec EXCEPT ![x] = exec'[x]]
  BY DEF Shape, RestTyped, ExecBecomes

\* An execution that ends, and one that has only its lock and permit to release.
LEMMA Ending ==
    ASSUME Shape, NEW x \in Executions, ExecBecomes(x, IdleExecution), UNCHANGED created
    PROVE  Moves(x) /\ exec'[x] = IdleExecution
<1>1. exec'[x] = IdleExecution /\ exec' = [exec EXCEPT ![x] = exec'[x]]
  BY DEF Shape, RestTyped, ExecBecomes
<1>2. IdleExecution \in Execution
  BY DEF IdleExecution, Execution
<1>3. ExecutionOK(x)'
  BY <1>1 DEF ExecutionOK, IdleExecution, Holding, Opened
<1> QED
  BY <1>1, <1>2, <1>3 DEF Moves

LEMMA Abandoning ==
    ASSUME Shape, NEW x \in Executions, exec[x].pc \in Holding, Abandon(x), UNCHANGED created
    PROVE  Moves(x) /\ To(x, "leaving") /\ exec'[x].seen = None
<1>1. exec[x] \in Execution /\ ExecutionOK(x)
  BY DEF Shape, RestTyped, ExecutionsOK
<1>2. /\ exec'[x] = [exec[x] EXCEPT !.pc = "leaving", !.seen = None, !.result = None]
      /\ exec' = [exec EXCEPT ![x] = exec'[x]]
  BY DEF Shape, RestTyped, Abandon, ExecBecomes
<1>3. exec'[x] \in Execution
  BY <1>1, <1>2 DEF Execution
<1>4. ExecutionOK(x)'
  BY <1>1, <1>2 DEF ExecutionOK, Execution, Holding, Opened
<1>5. To(x, "leaving") /\ exec'[x].seen = None
  BY <1>1, <1>2 DEF To, Execution
<1> QED
  BY <1>1, <1>2, <1>3, <1>4, <1>5 DEF Moves

LEMMA SettingStatus ==
    ASSUME Shape, NEW t \in Tasks, NEW status \in Status, SetStatus(t, status)
    PROVE  /\ rows' \in [Tasks -> Row \union {None}]
           /\ \A s \in Tasks : rows'[s] = None <=> rows[s] = None
           /\ \A s \in Tasks : rows'[s] # None =>
                rows'[s].def = rows[s].def /\ rows'[s].rev = rows[s].rev
           /\ \A s \in Tasks \ {t} : rows'[s] = rows[s]
           /\ rows[t] # None => rows'[t].status = status
  BY NotNoneAssumption DEF Shape, RestTyped, SetStatus, Row

------------------------------------------------------------------------------
(* Executions keep the shape. *)

LEMMA EnterKeeps ==
    ASSUME Shape, NEW x \in Executions, Enter(x)
    PROVE  /\ Shape' /\ Moves(x)
           /\ \/ exec'[x] = IdleExecution /\ locks' = locks
              \/ \E l \in LockFor(exec[x].task) :
                    /\ locks' = [locks EXCEPT ![exec[x].task] = l]
                    /\ exec'[x] = [exec[x] EXCEPT !.pc = "waiting", !.seen = None, !.lock = l]
<1> DEFINE e == exec[x]
<1>1. e \in Execution /\ ExecutionOK(x) /\ created' = created
  BY DEF Shape, RestTyped, ExecutionsOK, Enter, history
<1>2. e.pc = "called" /\ e.task \in Tasks /\ e.lock = None
  BY <1>1 DEF Enter, Shape, RestTyped, ExecutionOK, Holding
<1>3. CASE ~MayRun(e)
  <2>1. ExecBecomes(x, IdleExecution) /\ locks' = locks
    BY <1>3 DEF Enter
  <2>2. RestStays
    BY <2>1 DEF Shape, RestTyped, RestStays, Enter, durable, history
  <2> QED
    BY <1>1, <2>1, <2>2, Ending, ShapeStays
<1>4. ASSUME NEW l \in LockFor(e.task), MayRun(e),
             locks' = [locks EXCEPT ![exec[x].task] = l],
             ExecBecomes(x, [exec[x] EXCEPT !.pc = "waiting", !.seen = None, !.lock = l])
      PROVE  /\ Shape' /\ Moves(x)
             /\ exec'[x] = [exec[x] EXCEPT !.pc = "waiting", !.seen = None, !.lock = l]
  <2>1. l \in Locks
    BY <1>2, <1>4 DEF Shape, RestTyped, LockFor, NewLock, FreeLocks
  <2>2. exec'[x] = [e EXCEPT !.pc = "waiting", !.seen = None, !.lock = l]
        /\ exec' = [exec EXCEPT ![x] = exec'[x]]
    BY <1>4, Becoming
  <2>3. exec'[x] \in Execution
    BY <1>1, <2>1, <2>2 DEF Execution
  <2>4. ExecutionOK(x)'
    BY <1>1, <1>2, <2>1, <2>2, NoneAssumption DEF ExecutionOK, Holding, Opened, IdleExecution, Execution
  <2>5. Moves(x)
    BY <1>1, <2>2, <2>3, <2>4 DEF Moves
  <2>6. RestStays
    BY <1>4, <2>1, <1>2 DEF Shape, RestTyped, RestStays, Enter, durable, history
  <2> QED
    BY <2>2, <2>5, <2>6, ShapeStays
<1> QED
  BY <1>3, <1>4 DEF Enter

LEMMA TakeLockKeeps ==
    ASSUME Shape, NEW x \in Executions, TakeLock(x)
    PROVE  Shape' /\ Moves(x) /\ To(x, "queued") /\ exec'[x].seen = exec[x].seen
<1>1. exec[x] \in Execution /\ ExecutionOK(x) /\ created' = created
  BY DEF Shape, RestTyped, ExecutionsOK, TakeLock, history
<1>2. /\ exec'[x] = [exec[x] EXCEPT !.pc = "queued"]
      /\ exec' = [exec EXCEPT ![x] = exec'[x]]
  BY Becoming DEF TakeLock
<1>3. exec'[x] \in Execution
  BY <1>1, <1>2 DEF Shape, RestTyped, ExecutionOK, Holding, Execution, TakeLock
<1>4. ExecutionOK(x)'
  BY <1>1, <1>2, NoneAssumption DEF TakeLock, ExecutionOK, Holding, Opened, IdleExecution, Execution
<1>5. RestStays
  BY <1>1 DEF Shape, RestTyped, RestStays, ExecutionOK, Holding, Execution, TakeLock, durable, history
<1>6. To(x, "queued") /\ exec'[x].seen = exec[x].seen
  BY <1>1, <1>2 DEF To, Execution
<1> QED
  BY <1>1, <1>2, <1>3, <1>4, <1>5, <1>6, ShapeStays DEF Moves

LEMMA TakePermitKeeps ==
    ASSUME Shape, NEW x \in Executions, TakePermit(x)
    PROVE  Shape' /\ Moves(x) /\ To(x, "reading") /\ exec'[x].seen = rows[exec[x].task]
<1>1. exec[x] \in Execution /\ ExecutionOK(x) /\ created' = created
  BY DEF Shape, RestTyped, ExecutionsOK, TakePermit, history
<1>2. /\ exec'[x] = [exec[x] EXCEPT !.pc = "reading", !.seen = rows[exec[x].task]]
      /\ exec' = [exec EXCEPT ![x] = exec'[x]]
  BY Becoming DEF TakePermit
<1>3. exec'[x] \in Execution
  BY <1>1, <1>2 DEF Shape, RestTyped, ExecutionOK, Holding, Execution, TakePermit
<1>4. ExecutionOK(x)'
  BY <1>1, <1>2, NoneAssumption DEF TakePermit, ExecutionOK, Holding, Opened, IdleExecution, Execution
<1>5. RestStays
  BY <1>1 DEF Shape, RestTyped, RestStays, ExecutionOK, Holding, Execution, TakePermit, durable, history
<1>6. To(x, "reading") /\ exec'[x].seen = rows[exec[x].task]
  BY <1>1, <1>2 DEF To, Execution
<1> QED
  BY <1>1, <1>2, <1>3, <1>4, <1>5, <1>6, ShapeStays DEF Moves

LEMMA StartHandlerKeeps ==
    ASSUME Shape, NEW x \in Executions, StartHandler(x)
    PROVE  Shape' /\ Moves(x) /\ To(x, "handling") /\ exec'[x].seen = exec[x].seen
<1>1. exec[x] \in Execution /\ ExecutionOK(x) /\ created' = created
  BY DEF Shape, RestTyped, ExecutionsOK, StartHandler, history
<1>2. /\ exec'[x] = [exec[x] EXCEPT !.pc = "handling"]
      /\ exec' = [exec EXCEPT ![x] = exec'[x]]
  BY Becoming DEF StartHandler
<1>3. exec'[x] \in Execution
  BY <1>1, <1>2 DEF Shape, RestTyped, ExecutionOK, Holding, Execution, StartHandler
<1>4. ExecutionOK(x)'
  BY <1>1, <1>2, NoneAssumption DEF StartHandler, ExecutionOK, Holding, Opened, IdleExecution, Execution
<1>5. RestStays
  BY <1>1, NotNoneAssumption DEF Shape, RestTyped, RestStays, ExecutionOK, Holding, Execution, StartHandler, durable, history, Opened, Row, Consumes
<1>6. To(x, "handling") /\ exec'[x].seen = exec[x].seen
  BY <1>1, <1>2 DEF To, Execution
<1> QED
  BY <1>1, <1>2, <1>3, <1>4, <1>5, <1>6, ShapeStays DEF Moves

LEMMA WithdrawKeeps ==
    ASSUME Shape, NEW x \in Executions, Withdraw(x)
    PROVE  Shape' /\ Moves(x) /\ To(x, "leaving") /\ exec'[x].seen = None
<1>1. exec[x] \in Execution /\ ExecutionOK(x) /\ created' = created
  BY DEF Shape, RestTyped, ExecutionsOK, Withdraw, history
<1>2. Moves(x) /\ To(x, "leaving") /\ exec'[x].seen = None
  BY <1>1, Abandoning DEF Withdraw, Holding
<1>3. RestStays
  BY DEF Shape, RestTyped, RestStays, Withdraw, durable, history
<1> QED
  BY <1>2, <1>3, ShapeStays

LEMMA UnavailableKeeps ==
    ASSUME Shape, NEW x \in Executions, Unavailable(x)
    PROVE  Shape' /\ Moves(x) /\ To(x, "leaving") /\ exec'[x].seen = None
<1>1. exec[x] \in Execution /\ ExecutionOK(x) /\ created' = created
  BY DEF Shape, RestTyped, ExecutionsOK, Unavailable, history
<1>2. Moves(x) /\ To(x, "leaving") /\ exec'[x].seen = None
  BY <1>1, Abandoning DEF Unavailable, Holding
<1>3. exec[x].task \in Tasks
  BY <1>1 DEF Shape, RestTyped, ExecutionOK, Unavailable
<1>4. RestStays
  BY <1>3, SettingStatus DEF Shape, RestTyped, RestStays, Unavailable, Status, history
<1> QED
  BY <1>2, <1>4, ShapeStays

LEMMA RecordStartKeeps ==
    ASSUME Shape, NEW x \in Executions, RecordStart(x)
    PROVE  /\ Shape' /\ Moves(x)
           /\ IF rows[exec[x].task] # None
              THEN To(x, "adding") /\ exec'[x].seen = exec[x].seen
              ELSE To(x, "leaving") /\ exec'[x].seen = None
<1>1. exec[x] \in Execution /\ ExecutionOK(x) /\ created' = created
  BY DEF Shape, RestTyped, ExecutionsOK, RecordStart, history
<1>2. exec[x].task \in Tasks /\ exec[x].pc = "reading" /\ exec[x].seen # None
  BY <1>1 DEF Shape, RestTyped, ExecutionOK, RecordStart, MayRun
<1>3. CASE rows[exec[x].task] # None
  <2>1. /\ exec'[x] = [exec[x] EXCEPT !.pc = "adding"]
        /\ exec' = [exec EXCEPT ![x] = exec'[x]]
    BY <1>3, Becoming DEF RecordStart
  <2>2. exec'[x] \in Execution
    BY <1>1, <2>1 DEF Execution
  <2>3. ExecutionOK(x)'
    BY <1>1, <1>2, <2>1 DEF ExecutionOK, Holding, Opened, IdleExecution, Execution
  <2>4. RestStays
    BY <1>2, <1>3 DEF Shape, RestTyped, RestStays, RecordStart, history
  <2>5. To(x, "adding") /\ exec'[x].seen = exec[x].seen
    BY <1>1, <2>1 DEF To, Execution
  <2> QED
    BY <1>1, <1>3, <2>1, <2>2, <2>3, <2>4, <2>5, ShapeStays DEF Moves
<1>4. CASE rows[exec[x].task] = None
  <2>1. Moves(x) /\ To(x, "leaving") /\ exec'[x].seen = None
    BY <1>1, <1>4, Abandoning DEF RecordStart, Holding
  <2>2. RestStays
    BY <1>4 DEF Shape, RestTyped, RestStays, RecordStart, history
  <2> QED
    BY <1>4, <2>1, <2>2, ShapeStays
<1> QED
  BY <1>3, <1>4

LEMMA MarkRunningKeeps ==
    ASSUME Shape, NEW x \in Executions, MarkRunning(x)
    PROVE  Shape' /\ Moves(x) /\ To(x, "marking") /\ exec'[x].seen = exec[x].seen
<1>1. exec[x] \in Execution /\ ExecutionOK(x) /\ created' = created
  BY DEF Shape, RestTyped, ExecutionsOK, MarkRunning, history
<1>2. exec[x].task \in Tasks /\ exec[x].pc = "adding"
  BY <1>1 DEF Shape, RestTyped, ExecutionOK, MarkRunning
<1>3. /\ exec'[x] = [exec[x] EXCEPT !.pc = "marking"]
      /\ exec' = [exec EXCEPT ![x] = exec'[x]]
  BY Becoming DEF MarkRunning
<1>4. exec'[x] \in Execution
  BY <1>1, <1>3 DEF Execution
<1>5. ExecutionOK(x)'
  BY <1>1, <1>2, <1>3 DEF ExecutionOK, Holding, Opened, IdleExecution, Execution
<1>6. RestStays
  BY <1>2, SettingStatus DEF Shape, RestTyped, RestStays, MarkRunning, Status, history
<1>7. To(x, "marking") /\ exec'[x].seen = exec[x].seen
  BY <1>1, <1>3 DEF To, Execution
<1> QED
  BY <1>1, <1>3, <1>7, <1>4, <1>5, <1>6, ShapeStays DEF Moves

LEMMA EndHandlerKeeps ==
    ASSUME Shape, NEW x \in Executions, NEW result \in Results, EndHandler(x, result)
    PROVE  /\ Shape' /\ Moves(x)
           /\ IF rows[exec[x].task] # None
              THEN To(x, "recording") /\ exec'[x].seen = exec[x].seen
              ELSE To(x, "leaving") /\ exec'[x].seen = None
<1>1. exec[x] \in Execution /\ ExecutionOK(x) /\ created' = created
  BY DEF Shape, RestTyped, ExecutionsOK, EndHandler, history
<1>2. exec[x].task \in Tasks /\ exec[x].pc = "handling" /\ exec[x].seen # None
  BY <1>1 DEF Shape, RestTyped, ExecutionOK, EndHandler, Opened
<1>3. CASE rows[exec[x].task] # None
  <2>1. /\ exec'[x] = [exec[x] EXCEPT !.pc = "recording", !.result = result]
        /\ exec' = [exec EXCEPT ![x] = exec'[x]]
    BY <1>3, Becoming DEF EndHandler
  <2>2. exec'[x] \in Execution
    BY <1>1, <2>1 DEF Execution
  <2>3. ExecutionOK(x)'
    BY <1>1, <1>2, <2>1, NoneAssumption DEF ExecutionOK, Holding, Opened, IdleExecution, Execution
  <2>4. RestStays
    <3>1. /\ openRuns' = [openRuns EXCEPT ![exec[x].task] = @ - 1]
          /\ doneRuns' = [doneRuns EXCEPT ![exec[x].task] = @ \union {result}]
      BY <1>3 DEF EndHandler
    <3>2. openRuns' \in [Tasks -> Int] /\ doneRuns' \in [Tasks -> SUBSET Results]
      BY <1>2, <3>1 DEF Shape, RestTyped
    <3> QED
      BY <3>2 DEF Shape, RestTyped, RestStays, EndHandler, history
  <2>5. To(x, "recording") /\ exec'[x].seen = exec[x].seen
    BY <1>1, <2>1 DEF To, Execution
  <2> QED
    BY <1>1, <1>3, <2>1, <2>2, <2>3, <2>4, <2>5, ShapeStays DEF Moves
<1>4. CASE rows[exec[x].task] = None
  <2>1. Moves(x) /\ To(x, "leaving") /\ exec'[x].seen = None
    BY <1>1, <1>4, Abandoning DEF EndHandler, Holding
  <2>2. RestStays
    BY <1>4 DEF Shape, RestTyped, RestStays, EndHandler, Unrecorded, history
  <2> QED
    BY <1>4, <2>1, <2>2, ShapeStays
<1> QED
  BY <1>3, <1>4

\* What the end of an execution leaves of its task's row.
LEMMA FinishedRow ==
    ASSUME Shape, NEW x \in Executions, Finish(x)
    PROVE  LET t == exec[x].task IN
           /\ rows' \in [Tasks -> Row \union {None}]
           /\ \A s \in Tasks : rows'[s] = None <=> rows[s] = None
           /\ \A s \in Tasks \ {t} : rows'[s] = rows[s]
           /\ rows[t] # None =>
                /\ rows'[t].status = exec[x].result
                /\ rows'[t].rev = rows[t].rev
                /\ rows'[t].def.kind = rows[t].def.kind
                /\ rows'[t].def.handler = rows[t].def.handler
                /\ rows'[t].def.enabled <=> rows[t].def.enabled /\ ~Consumes(exec[x])
<1> DEFINE t == exec[x].task
           on == rows[t].def.enabled /\ ~Consumes(exec[x])
           new == [rows[t] EXCEPT !.status = exec[x].result, !.def.enabled = on]
<1>1. t \in Tasks /\ exec[x].result \in Status
  BY ResultsAssumption DEF Shape, RestTyped, ExecutionsOK, ExecutionOK, Execution, Finish, Status
<1>2. rows' = IF rows[t] = None THEN rows ELSE [rows EXCEPT ![t] = new]
  BY DEF Finish
<1>3. on \in BOOLEAN
  OBVIOUS
<1>4. ASSUME rows[t] # None
      PROVE  /\ new \in Row
             /\ new.status = exec[x].result /\ new.rev = rows[t].rev
             /\ new.def.kind = rows[t].def.kind /\ new.def.handler = rows[t].def.handler
             /\ new.def.enabled = on
  <2>1. rows[t] \in Row
    BY <1>1, <1>4 DEF Shape, RestTyped
  <2> HIDE DEF on
  <2> QED
    BY <1>1, <1>3, <2>1 DEF Row, Definition
<1>5. rows[t] # None => new # None
  BY <1>4, NotNoneAssumption
<1> HIDE DEF new, on
<1>6. /\ rows' \in [Tasks -> Row \union {None}]
      /\ \A s \in Tasks : rows'[s] = None <=> rows[s] = None
      /\ \A s \in Tasks \ {t} : rows'[s] = rows[s]
      /\ rows[t] # None => rows'[t] = new
  BY <1>1, <1>2, <1>4, <1>5 DEF Shape, RestTyped
<1>7. on <=> rows[t].def.enabled /\ ~Consumes(exec[x])
  BY DEF on
<1> QED
  BY <1>4, <1>6, <1>7

LEMMA FinishKeeps ==
    ASSUME Shape, NEW x \in Executions, Finish(x)
    PROVE  Shape' /\ Moves(x) /\ To(x, "leaving") /\ exec'[x].seen = None
<1>1. exec[x] \in Execution /\ ExecutionOK(x) /\ created' = created
  BY DEF Shape, RestTyped, ExecutionsOK, Finish, history
<1>2. exec[x].task \in Tasks /\ exec[x].pc = "recording" /\ exec[x].result \in Status
  BY <1>1, ResultsAssumption DEF Shape, RestTyped, ExecutionOK, Execution, Finish, Status
<1>3. Moves(x) /\ To(x, "leaving") /\ exec'[x].seen = None
  BY <1>1, <1>2, Abandoning DEF Finish, Holding
<1>4. /\ rows' \in [Tasks -> Row \union {None}]
      /\ \A t \in Tasks : rows'[t] # None => rows[t] # None
  BY FinishedRow
<1>5. RestStays
  BY <1>2, <1>4 DEF Shape, RestTyped, RestStays, Finish, history
<1> QED
  BY <1>3, <1>5, ShapeStays

LEMMA LeaveKeeps ==
    ASSUME Shape, NEW x \in Executions, Leave(x)
    PROVE  Shape' /\ Moves(x) /\ exec'[x] = IdleExecution
<1>1. exec[x] \in Execution /\ ExecutionOK(x) /\ created' = created
  BY DEF Shape, RestTyped, ExecutionsOK, Leave, history
<1>2. Moves(x) /\ exec'[x] = IdleExecution
  BY <1>1, Ending DEF Leave
<1>3. RestStays
  BY DEF Shape, RestTyped, RestStays, Leave, durable, history
<1> QED
  BY <1>2, <1>3, ShapeStays

LEMMA FireKeeps ==
    ASSUME Shape, NEW x \in Executions, NEW t \in Tasks, Fire(x, t)
    PROVE  Shape' /\ Moves(x) /\ exec'[x] = Call(t, TRUE, "called")
<1>1. exec[x] \in Execution /\ created' = created /\ t \in created
  BY DEF Shape, RestTyped, RowsOK, Fire
<1>2. exec'[x] = Call(t, TRUE, "called") /\ exec' = [exec EXCEPT ![x] = exec'[x]]
  BY Becoming DEF Fire
<1>3. exec'[x] \in Execution
  BY <1>2 DEF Shape, RestTyped, Call, IdleExecution, Execution
<1>4. ExecutionOK(x)'
  BY <1>1, <1>2 DEF ExecutionOK, Call, IdleExecution, Holding, Opened
<1>5. jobs[t] \in Job /\ jobs[t].rev \in 1..MaxSaves
  BY DEF Shape, RestTyped, Fire, Job
<1>6. RestStays
  BY <1>5 DEF Shape, RestTyped, RestStays, Fire, JobPasses, durable
<1> QED
  BY <1>1, <1>2, <1>3, <1>4, <1>6, ShapeStays DEF Moves

LEMMA RunNowKeeps ==
    ASSUME Shape, NEW x \in Executions, NEW t \in Tasks, RunNow(x, t)
    PROVE  Shape' /\ Moves(x) /\ exec'[x] = Call(t, FALSE, "asked")
<1>1. exec[x] \in Execution /\ created' = created /\ t \in created
  BY DEF Shape, RestTyped, RunNow, history
<1>2. exec'[x] = Call(t, FALSE, "asked") /\ exec' = [exec EXCEPT ![x] = exec'[x]]
  BY Becoming DEF RunNow
<1>3. exec'[x] \in Execution
  BY <1>2 DEF Shape, RestTyped, Call, IdleExecution, Execution
<1>4. ExecutionOK(x)'
  BY <1>1, <1>2 DEF ExecutionOK, Call, IdleExecution, Holding, Opened
<1>5. RestStays
  BY DEF Shape, RestTyped, RestStays, RunNow, durable, history
<1> QED
  BY <1>1, <1>2, <1>3, <1>4, <1>5, ShapeStays DEF Moves

LEMMA AskedKeeps ==
    ASSUME Shape, NEW x \in Executions, Asked(x)
    PROVE  /\ Shape' /\ Moves(x)
           /\ exec'[x] = IdleExecution \/ exec'[x] = Call(exec[x].task, FALSE, "called")
<1>1. exec[x] \in Execution /\ ExecutionOK(x) /\ created' = created
  BY DEF Shape, RestTyped, ExecutionsOK, Asked, history
<1>2. exec[x].task \in Tasks /\ exec[x].task \in created
  BY <1>1 DEF Shape, RestTyped, ExecutionOK, Asked
<1>3. RestStays
  BY DEF Shape, RestTyped, RestStays, Asked, durable, history
<1>4. CASE exec[x].seen = None
  BY <1>1, <1>3, <1>4, Ending, ShapeStays DEF Asked
<1>5. CASE exec[x].seen # None
  <2>1. /\ exec'[x] = Call(exec[x].task, FALSE, "called")
        /\ exec' = [exec EXCEPT ![x] = exec'[x]]
    BY <1>5, Becoming DEF Asked
  <2>2. exec'[x] \in Execution
    BY <1>2, <2>1 DEF Shape, RestTyped, Call, IdleExecution, Execution
  <2>3. ExecutionOK(x)'
    BY <1>1, <1>2, <2>1 DEF ExecutionOK, Call, IdleExecution, Holding, Opened
  <2> QED
    BY <1>1, <1>3, <2>1, <2>2, <2>3, ShapeStays DEF Moves
<1> QED
  BY <1>4, <1>5

------------------------------------------------------------------------------
(* Savers, deletions, the schedule and restarts keep the shape. *)

\* A saver that joins the order of the answers.
LEMMA Joining ==
    ASSUME order \in Seq(Savers), NEW u \in Savers, order' = Append(order, u)
    PROVE  /\ order' \in Seq(Savers)
           /\ \E i \in 1..Len(order') : order'[i] = u
           /\ \A v \in Savers : (\E i \in 1..Len(order) : order[i] = v) =>
                                 \E i \in 1..Len(order') : order'[i] = v
<1>1. /\ order' \in Seq(Savers) /\ Len(order') = Len(order) + 1 /\ Len(order) \in Nat
      /\ order'[Len(order) + 1] = u
      /\ \A i \in 1..Len(order) : order'[i] = order[i] /\ i \in 1..Len(order')
  OBVIOUS
<1> QED
  BY <1>1

LEMMA CreateKeeps ==
    ASSUME Shape, NEW u \in Savers, NEW t \in Tasks, NEW def \in Saved, Create(u, t, def)
    PROVE  Shape'
<1>1. exec' = exec /\ created \subseteq created' /\ t \in created' /\ saves' \in 1..MaxSaves
  BY BoundsAssumption DEF Shape, RestTyped, Create, WriteRow
<1>2. [def |-> def, status |-> StatusOf(def), rev |-> saves'] \in Row
  BY <1>1, SavedAssumption DEF Row, StatusOf, Status
<1>3. saver'[u] \in Saver /\ saver' = [saver EXCEPT ![u] = saver'[u]]
      /\ saver'[u].pc = "written" /\ saver'[u].task = t
  BY DEF Shape, RestTyped, Create, SaverBecomes, Saver
<1>4. /\ order' \in Seq(Savers)
      /\ \E i \in 1..Len(order') : order'[i] = u
      /\ \A v \in Savers : (\E i \in 1..Len(order) : order[i] = v) =>
                            \E i \in 1..Len(order') : order'[i] = v
  BY Joining DEF Shape, RestTyped, Create
<1>5. RestTyped'
  <2>1. rows' \in [Tasks -> Row \union {None}]
    BY <1>2 DEF Shape, RestTyped, Create, WriteRow
  <2>2. saver' \in [Savers -> Saver]
    BY <1>3 DEF Shape, RestTyped
  <2>3. created' \subseteq Tasks
    BY DEF Shape, RestTyped, Create
  <2> QED
    BY <1>1, <1>4, <2>1, <2>2, <2>3 DEF Shape, RestTyped, Create
<1>6. ExecutionsOK'
  BY <1>1 DEF Shape, ExecutionsOK, ExecutionOK, Holding, Opened, IdleExecution
<1>7. SaversOK'
  <2>1. \A v \in Savers \ {u} : saver'[v] = saver[v]
    BY <1>3 DEF Shape, RestTyped
  <2> QED
    BY <1>1, <1>3, <1>4, <2>1 DEF Shape, SaversOK
<1>8. RowsOK'
  BY <1>1 DEF Shape, RestTyped, RowsOK, Create, WriteRow
<1> QED
  BY <1>5, <1>6, <1>7, <1>8 DEF Shape

LEMMA BeginUpdateKeeps ==
    ASSUME Shape, NEW u \in Savers, NEW t \in Tasks, NEW def \in Saved, BeginUpdate(u, t, def)
    PROVE  Shape'
<1>1. saver' = [saver EXCEPT ![u] = [pc |-> "found", task |-> t, def |-> def, seen |-> None]]
  BY DEF BeginUpdate, SaverBecomes
<1>2. def \in Definition /\ def # None /\ t \in created
  BY SavedAssumption, NotNoneAssumption DEF Shape, RowsOK, BeginUpdate
<1>3. RestTyped'
  BY <1>1, <1>2 DEF Shape, RestTyped, BeginUpdate, Saver, durable, history
<1>4. SaversOK'
  BY <1>1, <1>2 DEF Shape, RestTyped, SaversOK, BeginUpdate, durable, history
<1>5. ExecutionsOK' /\ RowsOK'
  BY DEF Shape, ExecutionsOK, ExecutionOK, RowsOK, BeginUpdate, durable, history, Holding, Opened, IdleExecution
<1> QED
  BY <1>3, <1>4, <1>5 DEF Shape

LEMMA WriteKeeps ==
    ASSUME Shape, NEW u \in Savers, Write(u)
    PROVE  Shape'
<1> DEFINE t == saver[u].task
<1>1. t \in Tasks /\ t \in created /\ saver[u] \in Saver /\ saver[u].def \in Definition
  BY DEF Shape, RestTyped, SaversOK, Write, Saver
<1>2. /\ exec' = exec /\ created' = created /\ lost' = lost
      /\ jobs' = [jobs EXCEPT ![t] = None]
      /\ UNCHANGED <<openRuns, doneRuns, registered, locks, held, permits,
                     stops, passed, starts, cut, interrupted, budget>>
  BY DEF Write
<1>3. ExecutionsOK'
  BY <1>2 DEF Shape, ExecutionsOK, ExecutionOK, Holding, Opened, IdleExecution
<1>4. CASE rows[t] # None
  <2>1. /\ saves < budget.saves /\ saves' = saves + 1
        /\ rows' = [rows EXCEPT ![t] = [def |-> saver[u].def, status |-> StatusOf(saver[u].def), rev |-> saves']]
        /\ saver' = [saver EXCEPT ![u] = [saver[u] EXCEPT !.pc = "written", !.def = None]]
        /\ order' = Append(order, u)
    BY <1>4 DEF Write, WriteRow, SaverBecomes
  <2>2. saves' \in 1..MaxSaves
    BY <2>1, BoundsAssumption DEF Shape, RestTyped
  <2>3. [def |-> saver[u].def, status |-> StatusOf(saver[u].def), rev |-> saves'] \in Row
    BY <1>1, <2>2 DEF Row, StatusOf, Status
  <2>4. [saver[u] EXCEPT !.pc = "written", !.def = None] \in Saver
    BY <1>1 DEF Saver
  <2>8. /\ order' \in Seq(Savers)
        /\ \E i \in 1..Len(order') : order'[i] = u
        /\ \A v \in Savers : (\E i \in 1..Len(order) : order[i] = v) =>
                              \E i \in 1..Len(order') : order'[i] = v
    BY <2>1, Joining DEF Shape, RestTyped
  <2>5. RestTyped'
    BY <1>1, <1>2, <2>1, <2>2, <2>3, <2>4, <2>8 DEF Shape, RestTyped
  <2>6. SaversOK'
    <3>1. saver'[u].pc = "written" /\ saver'[u].task = t
          /\ \A v \in Savers \ {u} : saver'[v] = saver[v]
      BY <1>1, <2>1 DEF Shape, RestTyped, Saver
    <3> QED
      BY <1>1, <1>2, <2>8, <3>1 DEF Shape, SaversOK
  <2>7. RowsOK'
    BY <1>1, <1>2, <2>1 DEF Shape, RestTyped, RowsOK
  <2> QED
    BY <1>3, <2>5, <2>6, <2>7 DEF Shape
<1>5. CASE rows[t] = None
  <2>1. saver' = [saver EXCEPT ![u] = IdleSaver] /\ UNCHANGED <<rows, saves, order>>
    BY <1>5 DEF Write, SaverBecomes
  <2>2. RestTyped'
    BY <1>1, <1>2, <2>1 DEF Shape, RestTyped, IdleSaver, Saver
  <2>3. SaversOK' /\ RowsOK'
    BY <1>1, <1>2, <2>1 DEF Shape, RestTyped, SaversOK, RowsOK, IdleSaver
  <2> QED
    BY <1>3, <2>2, <2>3 DEF Shape
<1> QED
  BY <1>4, <1>5

LEMMA RereadKeeps ==
    ASSUME Shape, NEW u \in Savers, Reread(u)
    PROVE  Shape'
<1>1. saver[u] \in Saver /\ saver[u].task \in Tasks /\ saver[u].pc = "written"
  BY DEF Shape, RestTyped, SaversOK, Reread, Saver
<1>2. saver' = [saver EXCEPT ![u] = [saver[u] EXCEPT !.pc = "reread", !.seen = rows[saver[u].task]]]
  BY DEF Reread, SaverBecomes
<1>3. [saver[u] EXCEPT !.pc = "reread", !.seen = rows[saver[u].task]] \in Saver
  BY <1>1 DEF Shape, RestTyped, Saver
<1>4. RestTyped'
  BY <1>2, <1>3 DEF Shape, RestTyped, Reread, durable, history
<1>5. SaversOK'
  BY <1>1, <1>2 DEF Shape, RestTyped, SaversOK, Saver, Reread, durable, history
<1>6. ExecutionsOK' /\ RowsOK'
  BY DEF Shape, ExecutionsOK, ExecutionOK, RowsOK, Reread, durable, history, Holding, Opened, IdleExecution
<1> QED
  BY <1>4, <1>5, <1>6 DEF Shape

\* The first of the order leaves it.
LEMMA Leaving ==
    ASSUME order \in Seq(Savers), NEW u \in Savers, order # <<>>, Head(order) = u,
           order' = Tail(order)
    PROVE  /\ order' \in Seq(Savers)
           /\ \A v \in Savers \ {u} : (\E i \in 1..Len(order) : order[i] = v) =>
                                       \E i \in 1..Len(order') : order'[i] = v
<1>1. /\ order' \in Seq(Savers) /\ Len(order') = Len(order) - 1 /\ Len(order) \in Nat
      /\ order[1] = u
      /\ \A i \in 1..Len(order') : order'[i] = order[i + 1]
  OBVIOUS
<1>2. ASSUME NEW v \in Savers \ {u}, NEW i \in 1..Len(order), order[i] = v
      PROVE  \E j \in 1..Len(order') : order'[j] = v
  <2>1. i - 1 \in 1..Len(order') /\ order'[i - 1] = order[i - 1 + 1] /\ i - 1 + 1 = i
    BY <1>1, <1>2
  <2> QED
    BY <1>2, <2>1
<1> QED
  BY <1>1, <1>2

LEMMA RescheduleKeeps ==
    ASSUME Shape, NEW u \in Savers, Reschedule(u)
    PROVE  Shape'
<1> DEFINE t == saver[u].task
           s == saver[u].seen
<1>1. t \in Tasks /\ t \in created /\ s \in Row \union {None}
  BY DEF Shape, RestTyped, SaversOK, Reschedule, Saver
<1>2. saver' = [saver EXCEPT ![u] = IdleSaver]
  BY DEF Reschedule, SaverBecomes
<1>3. /\ order' \in Seq(Savers)
      /\ \A v \in Savers \ {u} : (\E i \in 1..Len(order) : order[i] = v) =>
                                  \E i \in 1..Len(order') : order'[i] = v
  <2>1. order # <<>>
    BY DEF Shape, RestTyped, SaversOK, Reschedule
  <2> QED
    BY <2>1, Leaving DEF Shape, RestTyped, Reschedule
<1>4. /\ rows' \in [Tasks -> Row \union {None}]
      /\ jobs' \in [Tasks -> Job \union {None}]
      /\ \A r \in Tasks : rows'[r] # None => rows[r] # None
      /\ \A r \in Tasks : jobs'[r] # None => jobs[r] # None \/ r = t
  <2>1. CASE s # None /\ s.def.enabled
    <3>1. jobs' = [jobs EXCEPT ![t] = [kind |-> s.def.kind, rev |-> s.rev]]
          /\ SetStatus(t, "scheduled")
      BY <2>1 DEF Reschedule
    <3>2. [kind |-> s.def.kind, rev |-> s.rev] \in Job
      BY <1>1, <2>1 DEF Row, Definition, Job
    <3>3. /\ rows' \in [Tasks -> Row \union {None}]
          /\ \A r \in Tasks : rows'[r] # None => rows[r] # None
      BY <1>1, <3>1, SettingStatus DEF Status
    <3> QED
      BY <1>1, <3>1, <3>2, <3>3 DEF Shape, RestTyped
  <2>2. CASE ~(s # None /\ s.def.enabled)
    BY <2>2 DEF Reschedule, Shape, RestTyped
  <2> QED
    BY <2>1, <2>2
<1>5. RestTyped'
  BY <1>2, <1>3, <1>4 DEF Shape, RestTyped, Reschedule, IdleSaver, Saver, history
<1>6. SaversOK'
  BY <1>2, <1>3 DEF Shape, RestTyped, SaversOK, Reschedule, IdleSaver, history
<1>7. ExecutionsOK' /\ RowsOK'
  BY <1>1, <1>4 DEF Shape, RestTyped, ExecutionsOK, ExecutionOK, RowsOK, Reschedule, history, Holding, Opened, IdleExecution
<1> QED
  BY <1>5, <1>6, <1>7 DEF Shape

LEMMA DeleteKeeps ==
    ASSUME Shape, NEW t \in Tasks, Delete(t)
    PROVE  Shape'
<1>1. RestTyped'
  BY DEF Shape, RestTyped, Delete, history
<1>2. RowsOK'
  BY DEF Shape, RestTyped, RowsOK, Delete, history
<1>3. SaversOK' /\ ExecutionsOK'
  BY DEF Shape, ExecutionsOK, ExecutionOK, SaversOK, Delete, history, Holding, Opened, IdleExecution
<1> QED
  BY <1>1, <1>2, <1>3 DEF Shape

LEMMA SkipKeeps ==
    ASSUME Shape, NEW t \in Tasks, Skip(t)
    PROVE  Shape'
<1>1. jobs[t] \in Job /\ jobs[t].rev \in 1..MaxSaves
  BY DEF Shape, RestTyped, Skip, Job
<1>2. RestTyped'
  BY <1>1 DEF Shape, RestTyped, Skip, JobPasses, durable
<1>3. RowsOK'
  BY DEF Shape, RestTyped, RowsOK, Skip, JobPasses, durable
<1>4. SaversOK' /\ ExecutionsOK'
  BY DEF Shape, ExecutionsOK, ExecutionOK, SaversOK, Skip, durable, Holding, Opened, IdleExecution
<1> QED
  BY <1>2, <1>3, <1>4 DEF Shape

\* What a restart counts: executions of a finite set.
InterruptedOf(r) ==
    {x \in Executions : /\ exec[x].pc \in {"handling", "recording"}
                        /\ Consumes(exec[x])
                        /\ exec[x].seen.rev = r}
OpenOf(t) == {x \in Executions : exec[x].pc \in Opened /\ exec[x].task = t}

LEMMA CountedFinite ==
    /\ \A r \in 1..MaxSaves : IsFiniteSet(InterruptedOf(r)) /\ Cardinality(InterruptedOf(r)) \in Nat
    /\ \A t \in Tasks : IsFiniteSet(OpenOf(t)) /\ Cardinality(OpenOf(t)) \in Nat
<1>1. \A S \in SUBSET Executions : IsFiniteSet(S) /\ Cardinality(S) \in Nat
  BY ExecutionsAssumption, FS_Subset, FS_CardinalityType
<1>2. /\ \A r \in 1..MaxSaves : InterruptedOf(r) \in SUBSET Executions
      /\ \A t \in Tasks : OpenOf(t) \in SUBSET Executions
  BY DEF InterruptedOf, OpenOf
<1> QED
  BY <1>1, <1>2

LEMMA RestartCounts ==
    ASSUME NEW H \in SUBSET Handlers, Restart(H)
    PROVE  /\ cut' = [r \in 1..MaxSaves |-> cut[r] + Cardinality(InterruptedOf(r))]
           /\ lost' = [t \in Tasks |-> lost[t] + Cardinality(OpenOf(t))]
  BY DEF Restart, InterruptedOf, OpenOf, Opened

LEMMA RestartKeeps ==
    ASSUME Shape, NEW H \in SUBSET Handlers, Restart(H)
    PROVE  Shape'
<1>1. cut' \in [1..MaxSaves -> Nat] /\ lost' \in [Tasks -> Nat]
  <2>1. ASSUME NEW r \in 1..MaxSaves PROVE cut[r] + Cardinality(InterruptedOf(r)) \in Nat
    <3>1. cut[r] \in Nat /\ Cardinality(InterruptedOf(r)) \in Nat
      BY CountedFinite DEF Shape, RestTyped
    <3> QED
      BY <3>1
  <2>2. ASSUME NEW t \in Tasks PROVE lost[t] + Cardinality(OpenOf(t)) \in Nat
    <3>1. lost[t] \in Nat /\ Cardinality(OpenOf(t)) \in Nat
      BY CountedFinite DEF Shape, RestTyped
    <3> QED
      BY <3>1
  <2> QED
    BY <2>1, <2>2, RestartCounts
<1>2. rows' \in [Tasks -> Row \union {None}]
  <2>1. \A t \in Tasks : rows[t] # None =>
            /\ [rows[t] EXCEPT !.status = "scheduled"] \in Row
            /\ [rows[t] EXCEPT !.status = "unavailable"] \in Row
    BY DEF Shape, RestTyped, Row, Status
  <2> QED
    BY <2>1 DEF Shape, RestTyped, Restart
<1>3. jobs' \in [Tasks -> Job \union {None}]
  BY DEF Shape, RestTyped, Restart, Row, Definition, Job
<1>4. interrupted' \subseteq Tasks
  <2>1. \A x \in Executions : exec[x].pc \in {"marking", "handling", "recording"} => exec[x].task \in Tasks
    BY DEF Shape, RestTyped, ExecutionsOK, ExecutionOK
  <2> QED
    BY <2>1 DEF Shape, RestTyped, Restart
<1>5. stops' \in 0..MaxStops
  BY BoundsAssumption DEF Shape, RestTyped, Restart
<1>6. exec' \in [Executions -> Execution] /\ saver' \in [Savers -> Saver] /\ order' \in Seq(Savers)
  BY DEF Restart, IdleExecution, IdleSaver, Execution, Saver
<1>7. RestTyped'
  <2>1. /\ UNCHANGED <<openRuns, doneRuns, created, saves, passed, starts, budget>>
        /\ registered' = H /\ locks' = [t \in Tasks |-> None] /\ held' = {}
        /\ permits' = MaxConcurrency
    BY DEF Restart
  <2>2. permits' \in Int /\ locks' \in [Tasks -> Locks \union {None}]
    BY <2>1, BoundsAssumption
  <2> QED
    BY <1>1, <1>2, <1>3, <1>4, <1>5, <1>6, <2>1, <2>2 DEF Shape, RestTyped
<1>8. ExecutionsOK'
  BY DEF ExecutionsOK, ExecutionOK, Restart, IdleExecution, Holding, Opened
<1>9. SaversOK'
  BY DEF SaversOK, Restart, IdleSaver
<1>10. RowsOK'
  <2>1. \A t \in Tasks : rows'[t] # None \/ jobs'[t] # None => rows[t] # None
    BY DEF Restart
  <2>2. \A t \in Tasks : lost'[t] # 0 => lost[t] # 0 \/ OpenOf(t) # {}
    <3> SUFFICES ASSUME NEW t \in Tasks, lost[t] = 0, OpenOf(t) = {} PROVE lost'[t] = 0
      OBVIOUS
    <3>1. Cardinality(OpenOf(t)) = 0
      BY FS_EmptySet
    <3>2. lost'[t] = lost[t] + Cardinality(OpenOf(t))
      BY RestartCounts
    <3> QED
      BY <3>1, <3>2
  <2>3. \A t \in Tasks : OpenOf(t) # {} => t \in created
    BY DEF Shape, ExecutionsOK, ExecutionOK, OpenOf, Opened
  <2> QED
    BY <2>1, <2>2, <2>3 DEF Shape, RowsOK, Restart
<1> QED
  BY <1>7, <1>8, <1>9, <1>10 DEF Shape

LEMMA InitShape ==
    Init => Shape
<1> SUFFICES ASSUME Init PROVE Shape
  OBVIOUS
<1>1. RestTyped
  BY BoundsAssumption DEF Init, RestTyped, IdleExecution, IdleSaver, Execution, Saver
<1>2. ExecutionsOK /\ SaversOK /\ RowsOK
  BY DEF Init, ExecutionsOK, ExecutionOK, SaversOK, RowsOK, IdleExecution, IdleSaver, Holding, Opened
<1> QED
  BY <1>1, <1>2 DEF Shape

LEMMA AskedPlace ==
    ASSUME Shape, NEW x \in Executions, Asked(x)
    PROVE  /\ exec'[x].pc \in {"idle", "called"} /\ exec'[x].lock = None
           /\ ~exec'[x].scheduled
           /\ exec'[x].seen # None => /\ exec'[x].seen = rows[exec[x].task]
                                      /\ exec'[x].task = exec[x].task
<1>1. exec'[x] = IdleExecution \/ exec'[x] = Call(exec[x].task, FALSE, "called")
  BY AskedKeeps
<1>2. ASSUME exec'[x] = Call(exec[x].task, FALSE, "called")
      PROVE  /\ exec'[x].pc = "called" /\ exec'[x].lock = None /\ ~exec'[x].scheduled
             /\ exec'[x].seen = rows[exec[x].task] /\ exec'[x].task = exec[x].task
  <2> DEFINE t == exec[x].task
             c == exec'[x]
  <2>1. c = [IdleExecution EXCEPT !.pc = "called", !.task = t, !.seen = rows[t], !.scheduled = FALSE]
    BY <1>2 DEF Call
  <2> HIDE DEF t, c
  <2>2. c.pc = "called" /\ c.lock = None /\ ~c.scheduled /\ c.seen = rows[t] /\ c.task = t
    BY <2>1 DEF IdleExecution
  <2> QED
    BY <2>2 DEF t, c
<1>3. CASE exec'[x] = IdleExecution
  BY <1>3 DEF IdleExecution
<1>4. CASE exec'[x] = Call(exec[x].task, FALSE, "called")
  BY <1>2, <1>4
<1> QED
  BY <1>1, <1>3, <1>4

LEMMA EnterPlace ==
    ASSUME Shape, NEW x \in Executions, Enter(x)
    PROVE  /\ exec[x].pc = "called" /\ exec'[x].pc \in {"idle", "waiting"} /\ exec'[x].seen = None
           /\ exec'[x].task \in {None, exec[x].task}
           /\ exec'[x].scheduled => exec[x].scheduled /\ exec'[x].task = exec[x].task
<1>1. exec[x] \in Execution
  BY DEF Shape, RestTyped
<1>2. /\ IdleExecution.pc = "idle" /\ IdleExecution.seen = None /\ IdleExecution.task = None
      /\ ~IdleExecution.scheduled
  BY DEF IdleExecution
<1>3. ASSUME NEW l, exec'[x] = [exec[x] EXCEPT !.pc = "waiting", !.seen = None, !.lock = l]
      PROVE  /\ exec'[x].pc = "waiting" /\ exec'[x].seen = None /\ exec'[x].task = exec[x].task
             /\ exec'[x].scheduled = exec[x].scheduled
  BY <1>1, <1>3 DEF Execution
<1>4. exec'[x] = IdleExecution \/ \E l : exec'[x] = [exec[x] EXCEPT !.pc = "waiting", !.seen = None, !.lock = l]
  BY EnterKeeps
<1>5. exec[x].pc = "called"
  BY DEF Enter
<1> QED
  BY <1>2, <1>3, <1>4, <1>5

------------------------------------------------------------------------------
(* Locks: a deleted task loses its lock while executions of it still hold it, so two *)
(* executions of a task may hold different ones, but then its row is gone for good.   *)

\* Executions that have seen the row of their task since they took the lock.
Live(x) ==
    \/ exec[x].pc \in Opened \union {"recording"}
    \/ exec[x].pc = "reading" /\ exec[x].seen # None

Current ==
    \A x \in Executions, t \in Tasks :
        rows[t] # None /\ exec[x].task = t /\ exec[x].lock # None => exec[x].lock = locks[t]
Exclusive ==
    \A x, y \in Executions :
        /\ exec[x].pc \in Holding => exec[x].lock \in held
        /\ exec[x].pc \in Holding /\ exec[y].pc \in Holding /\ exec[x].lock = exec[y].lock => x = y
SameLock ==
    \A x, y \in Executions :
        Live(x) /\ Live(y) /\ exec[x].task = exec[y].task => exec[x].lock = exec[y].lock

Locking == Current /\ Exclusive /\ SameLock

\* The rows that are there were there before.
NoNewRow == \A t \in Tasks : rows'[t] # None => rows[t] # None

LEMMA OthersEqual ==
    ASSUME Shape, NEW x \in Executions, Moves(x)
    PROVE  \A y \in Executions \ {x} : exec'[y] = exec[y]
  BY DEF Shape, RestTyped, Moves

\* An execution that goes on with its lock.
LEMMA LockingCarries ==
    ASSUME Shape, Locking, NEW x \in Executions, Moves(x), NoNewRow, UNCHANGED <<locks, held>>,
           exec[x].pc \in Holding, exec'[x].pc \in Holding,
           exec'[x].task = exec[x].task, exec'[x].lock = exec[x].lock, Live(x)' => Live(x)
    PROVE  Locking'
<1>1. \A y \in Executions \ {x} : exec'[y] = exec[y]
  BY OthersEqual
<1>2. \A y \in Executions : Live(y)' => Live(y)
  BY <1>1 DEF Live
<1>3. \A y \in Executions : /\ exec'[y].task = exec[y].task /\ exec'[y].lock = exec[y].lock
                            /\ exec'[y].pc \in Holding <=> exec[y].pc \in Holding
  BY <1>1
<1>4. Current' /\ Exclusive'
  BY <1>3 DEF Locking, Current, Exclusive, NoNewRow, Holding
<1>5. SameLock'
  BY <1>2, <1>3 DEF Locking, SameLock
<1> QED
  BY <1>4, <1>5 DEF Locking

\* An execution that has no lock before nor after.
LEMMA LockingWithout ==
    ASSUME Shape, Locking, NEW x \in Executions, Moves(x), NoNewRow, UNCHANGED <<locks, held>>,
           exec'[x].lock = None
    PROVE  Locking'
<1>1. \A y \in Executions \ {x} : exec'[y] = exec[y]
  BY OthersEqual
<1>2. exec'[x].pc \notin Holding
  BY DEF Moves, ExecutionOK, Holding
<1>3. ~Live(x)'
  BY <1>2 DEF Live, Holding, Opened
<1>4. \A y \in Executions \ {x} : Live(y)' => Live(y)
  BY <1>1 DEF Live
<1>5. Current'
  BY <1>1 DEF Locking, Current, NoNewRow
<1>6. Exclusive'
  BY <1>1, <1>2 DEF Locking, Exclusive, Holding
<1>7. SameLock'
  BY <1>1, <1>3, <1>4 DEF Locking, SameLock
<1> QED
  BY <1>5, <1>6, <1>7 DEF Locking

LEMMA LockingSame ==
    ASSUME Shape, Locking, NoNewRow, UNCHANGED <<exec, locks, held>>
    PROVE  Locking'
<1>1. \A y \in Executions : Live(y)' => Live(y)
  BY DEF Live
<1>2. Current'
  BY DEF Locking, Current, NoNewRow
<1>3. Exclusive' /\ SameLock'
  BY <1>1 DEF Locking, Exclusive, SameLock, Holding
<1> QED
  BY <1>2, <1>3 DEF Locking

LEMMA LockingEnter ==
    ASSUME Shape, Locking, NEW x \in Executions, Enter(x)
    PROVE  Locking'
<1>1. Moves(x) /\ UNCHANGED <<rows, held>> /\ NoNewRow
  BY EnterKeeps DEF Enter, durable, NoNewRow
<1>2. CASE exec'[x] = IdleExecution /\ locks' = locks
  BY <1>1, <1>2, LockingWithout DEF IdleExecution
<1>3. ASSUME NEW l \in LockFor(exec[x].task),
             locks' = [locks EXCEPT ![exec[x].task] = l],
             exec'[x] = [exec[x] EXCEPT !.pc = "waiting", !.seen = None, !.lock = l]
      PROVE  Locking'
  <2> DEFINE t == exec[x].task
  <2>1. exec[x] \in Execution /\ t \in Tasks
    BY DEF Shape, RestTyped, ExecutionsOK, ExecutionOK, Enter
  <2>2. exec'[x].pc = "waiting" /\ exec'[x].task = t /\ exec'[x].lock = l
    BY <1>3, <2>1 DEF Execution
  <2>3. \A y \in Executions \ {x} : exec'[y] = exec[y]
    BY <1>1, OthersEqual
  <2>4. locks[t] = None \/ locks'[t] = locks[t]
    BY <1>3, <2>1 DEF LockFor, Shape, RestTyped
  <2>5. \A s \in Tasks \ {t} : locks'[s] = locks[s]
    BY <1>3, <2>1 DEF Shape, RestTyped
  <2>6. locks'[t] = l
    BY <1>3, <2>1 DEF Shape, RestTyped
  <2>7. Current'
    BY <1>1, <2>1, <2>2, <2>3, <2>4, <2>5, <2>6 DEF Locking, Current
  <2>8. Exclusive'
    BY <1>1, <2>2, <2>3 DEF Locking, Exclusive, Holding
  <2>9. ~Live(x)' /\ \A y \in Executions \ {x} : Live(y)' => Live(y)
    BY <2>2, <2>3 DEF Live, Opened
  <2>10. SameLock'
    BY <2>3, <2>9 DEF Locking, SameLock
  <2> QED
    BY <2>7, <2>8, <2>10 DEF Locking
<1> QED
  BY <1>2, <1>3, EnterKeeps

LEMMA LockingTakeLock ==
    ASSUME Shape, Locking, NEW x \in Executions, TakeLock(x)
    PROVE  Locking'
<1>1. Moves(x) /\ To(x, "queued") /\ UNCHANGED <<rows, locks>>
      /\ held' = held \union {exec[x].lock} /\ exec[x].lock \notin held
  BY TakeLockKeeps DEF TakeLock, durable
<1>2. \A y \in Executions \ {x} : exec'[y] = exec[y]
  BY <1>1, OthersEqual
<1>3. \A y \in Executions : exec'[y].task = exec[y].task /\ exec'[y].lock = exec[y].lock
  BY <1>1, <1>2 DEF To
<1>4. Current'
  BY <1>1, <1>3 DEF Locking, Current
<1>5. Exclusive'
  <2>1. \A y \in Executions \ {x} : exec[y].pc \in Holding => exec[y].lock # exec[x].lock
    BY <1>1 DEF Locking, Exclusive
  <2>2. \A y \in Executions : exec'[y].pc \in Holding => exec[y].pc \in Holding \/ y = x
    BY <1>2
  <2>3. \A y \in Executions : exec'[y].pc \in Holding => exec'[y].lock \in held'
    BY <1>1, <1>3, <2>2 DEF Locking, Exclusive
  <2>4. \A y, z \in Executions :
            exec'[y].pc \in Holding /\ exec'[z].pc \in Holding /\ exec'[y].lock = exec'[z].lock => y = z
    BY <1>3, <2>1, <2>2 DEF Locking, Exclusive
  <2> QED
    BY <2>3, <2>4 DEF Exclusive, Holding
<1>6. \A y \in Executions : Live(y)' => Live(y)
  BY <1>1, <1>2 DEF To, Live, Opened
<1>7. SameLock'
  BY <1>3, <1>6 DEF Locking, SameLock
<1> QED
  BY <1>4, <1>5, <1>7 DEF Locking

LEMMA LockingTakePermit ==
    ASSUME Shape, Locking, NEW x \in Executions, TakePermit(x)
    PROVE  Locking'
<1>1. Moves(x) /\ To(x, "reading") /\ exec'[x].seen = rows[exec[x].task]
      /\ UNCHANGED <<rows, locks, held>> /\ exec[x].pc = "queued"
  BY TakePermitKeeps DEF TakePermit, durable
<1>2. \A y \in Executions \ {x} : exec'[y] = exec[y]
  BY <1>1, OthersEqual
<1>3. \A y \in Executions : /\ exec'[y].task = exec[y].task /\ exec'[y].lock = exec[y].lock
                            /\ exec'[y].pc \in Holding => exec[y].pc \in Holding
  BY <1>1, <1>2 DEF To, Holding
<1>4. Current' /\ Exclusive'
  BY <1>1, <1>3 DEF Locking, Current, Exclusive, Holding
<1>5. SameLock'
  <2>1. exec[x].task \in Tasks
    BY <1>1 DEF Shape, RestTyped, ExecutionsOK, ExecutionOK
  <2>2. \A y \in Executions : Live(y)' => exec[y].lock # None
    BY <1>1, <1>2 DEF Live, Opened, Holding, Shape, ExecutionsOK, ExecutionOK
  <2>3. Live(x)' => rows[exec[x].task] # None
    BY <1>1 DEF Live, To, Opened
  <2>4. \A y \in Executions \ {x} : Live(y)' => Live(y)
    BY <1>2 DEF Live
  <2>5. \A y \in Executions : Live(x)' /\ Live(y)' /\ exec[y].task = exec[x].task =>
                                exec[y].lock = exec[x].lock
    BY <2>1, <2>2, <2>3 DEF Locking, Current
  <2> QED
    BY <1>3, <2>4, <2>5 DEF Locking, SameLock
<1> QED
  BY <1>4, <1>5 DEF Locking

LEMMA LockingLeave ==
    ASSUME Shape, Locking, NEW x \in Executions, Leave(x)
    PROVE  Locking'
<1>1. Moves(x) /\ exec'[x] = IdleExecution /\ UNCHANGED <<rows, locks>>
      /\ held' = held \ {exec[x].lock} /\ exec[x].pc \in Holding
  BY LeaveKeeps DEF Leave, durable, Holding
<1>2. \A y \in Executions \ {x} : exec'[y] = exec[y]
  BY <1>1, OthersEqual
<1>3. exec'[x].pc \notin Holding /\ exec'[x].lock = None
  BY <1>1 DEF IdleExecution, Holding
<1>4. Current'
  BY <1>1, <1>2, <1>3 DEF Locking, Current
<1>5. Exclusive'
  <2>1. \A y \in Executions \ {x} : exec[y].pc \in Holding => exec[y].lock # exec[x].lock
    BY <1>1 DEF Locking, Exclusive
  <2> QED
    BY <1>1, <1>2, <1>3, <2>1 DEF Locking, Exclusive, Holding
<1>6. ~Live(x)' /\ \A y \in Executions \ {x} : Live(y)' => Live(y)
  BY <1>2, <1>3 DEF Live, Opened, Holding
<1>7. SameLock'
  BY <1>2, <1>6 DEF Locking, SameLock
<1> QED
  BY <1>4, <1>5, <1>7 DEF Locking

LEMMA LockingCreate ==
    ASSUME Shape, Locking, NEW u \in Savers, NEW t \in Tasks, NEW def \in Saved, Create(u, t, def)
    PROVE  Locking'
<1>1. t \notin created /\ UNCHANGED <<exec, locks, held>>
      /\ \A s \in Tasks \ {t} : rows'[s] = rows[s]
  BY DEF Create, WriteRow, Shape, RestTyped
<1>2. \A x \in Executions : exec[x].lock # None => exec[x].task # t
  BY <1>1 DEF Shape, ExecutionsOK, ExecutionOK, Holding
<1>3. Current'
  BY <1>1, <1>2 DEF Locking, Current
<1>4. \A y \in Executions : Live(y)' <=> Live(y)
  BY <1>1 DEF Live
<1>5. Exclusive' /\ SameLock'
  BY <1>1, <1>4 DEF Locking, Exclusive, SameLock, Holding
<1> QED
  BY <1>3, <1>5 DEF Locking

LEMMA LockingDelete ==
    ASSUME Shape, Locking, NEW t \in Tasks, Delete(t)
    PROVE  Locking'
<1>1. UNCHANGED <<exec, held>> /\ rows'[t] = None
      /\ \A s \in Tasks \ {t} : rows'[s] = rows[s] /\ locks'[s] = locks[s]
  BY DEF Delete, Shape, RestTyped
<1>2. Current'
  BY <1>1 DEF Locking, Current
<1>3. \A y \in Executions : Live(y)' <=> Live(y)
  BY <1>1 DEF Live
<1>4. Exclusive' /\ SameLock'
  BY <1>1, <1>3 DEF Locking, Exclusive, SameLock, Holding
<1> QED
  BY <1>2, <1>4 DEF Locking

LEMMA LockingRestart ==
    ASSUME NEW H \in SUBSET Handlers, Restart(H)
    PROVE  Locking'
<1>1. \A x \in Executions : exec'[x] = IdleExecution
  BY DEF Restart
<1>2. \A x \in Executions : /\ exec'[x].pc \notin Holding /\ exec'[x].lock = None
                            /\ ~Live(x)'
  BY <1>1 DEF IdleExecution, Holding, Live, Opened
<1> QED
  BY <1>2 DEF Locking, Current, Exclusive, SameLock, Holding

LEMMA LockingProceed ==
    ASSUME Shape, Locking, NEW x \in Executions, Proceed(x)
    PROVE  Locking'
<1>1. CASE Asked(x)
  <2>1. Moves(x) /\ exec'[x].lock = None
    BY <1>1, AskedKeeps, AskedPlace
  <2>2. UNCHANGED <<rows, locks, held>>
    BY <1>1 DEF Asked, durable
  <2> QED
    BY <2>1, <2>2, LockingWithout DEF NoNewRow
<1>2. CASE Enter(x)
  BY <1>2, LockingEnter
<1>3. CASE TakeLock(x)
  BY <1>3, LockingTakeLock
<1>4. CASE TakePermit(x)
  BY <1>4, LockingTakePermit
<1>5. CASE Withdraw(x)
  <2>1. Moves(x) /\ To(x, "leaving") /\ exec[x].pc \in Holding /\ UNCHANGED <<rows, locks, held>>
    BY <1>5, WithdrawKeeps DEF Withdraw, durable, Holding
  <2> QED
    BY <2>1, LockingCarries DEF NoNewRow, To, Live, Holding, Opened
<1>6. CASE Unavailable(x)
  <2>1. Moves(x) /\ To(x, "leaving") /\ exec[x].pc \in Holding /\ UNCHANGED <<locks, held>>
    BY <1>6, UnavailableKeeps DEF Unavailable, Holding
  <2>2. exec[x].task \in Tasks
    BY <1>6 DEF Unavailable, Shape, RestTyped, ExecutionsOK, ExecutionOK
  <2>3. NoNewRow
    BY <1>6, <2>2, SettingStatus DEF Unavailable, Status, NoNewRow
  <2> QED
    BY <2>1, <2>3, LockingCarries DEF To, Live, Holding, Opened
<1>7. CASE RecordStart(x)
  <2>1. Moves(x) /\ (To(x, "adding") \/ To(x, "leaving")) /\ exec[x].pc \in Holding
        /\ Live(x) /\ UNCHANGED <<rows, locks, held>>
    BY <1>7, RecordStartKeeps DEF RecordStart, MayRun, Holding, Live
  <2> QED
    BY <2>1, LockingCarries DEF NoNewRow, To, Holding
<1>8. CASE MarkRunning(x)
  <2>1. Moves(x) /\ To(x, "marking") /\ exec[x].pc \in Opened /\ UNCHANGED <<locks, held>>
    BY <1>8, MarkRunningKeeps DEF MarkRunning, Opened
  <2>2. exec[x].task \in Tasks
    BY <1>8 DEF MarkRunning, Shape, RestTyped, ExecutionsOK, ExecutionOK
  <2>3. NoNewRow
    BY <1>8, <2>2, SettingStatus DEF MarkRunning, Status, NoNewRow
  <2> QED
    BY <2>1, <2>3, LockingCarries DEF To, Live, Holding, Opened
<1>9. CASE StartHandler(x)
  <2>1. Moves(x) /\ To(x, "handling") /\ exec[x].pc \in Opened /\ UNCHANGED <<rows, locks, held>>
    BY <1>9, StartHandlerKeeps DEF StartHandler, durable, Opened
  <2> QED
    BY <2>1, LockingCarries DEF NoNewRow, To, Live, Holding, Opened
<1>10. ASSUME NEW result \in Results, EndHandler(x, result)
       PROVE  Locking'
  <2>1. Moves(x) /\ (To(x, "recording") \/ To(x, "leaving")) /\ exec[x].pc \in Opened
        /\ UNCHANGED <<rows, locks, held>>
    BY <1>10, EndHandlerKeeps DEF EndHandler, Opened
  <2> QED
    BY <2>1, LockingCarries DEF NoNewRow, To, Live, Holding, Opened
<1>11. CASE Finish(x)
  <2>1. Moves(x) /\ To(x, "leaving") /\ exec[x].pc = "recording" /\ UNCHANGED <<locks, held>>
    BY <1>11, FinishKeeps DEF Finish
  <2>2. NoNewRow
    BY <1>11, FinishedRow DEF NoNewRow
  <2> QED
    BY <2>1, <2>2, LockingCarries DEF To, Live, Holding
<1>12. CASE Leave(x)
  BY <1>12, LockingLeave
<1> QED
  BY <1>1, <1>2, <1>3, <1>4, <1>5, <1>6, <1>7, <1>8, <1>9, <1>10, <1>11, <1>12 DEF Proceed

LEMMA LockingSaves ==
    ASSUME Shape, Locking, NEW u \in Savers, SaveStep(u)
    PROVE  Locking'
<1>1. CASE Write(u)
  <2>1. saver[u].task \in Tasks
    BY <1>1 DEF Write, Shape, RestTyped, SaversOK
  <2>2. UNCHANGED <<exec, locks, held>>
    BY <1>1 DEF Write
  <2>3. NoNewRow
    <3>1. CASE rows[saver[u].task] # None
      <4>1. \A t \in Tasks \ {saver[u].task} : rows'[t] = rows[t]
        BY <1>1, <2>1, <3>1 DEF Write, WriteRow, Shape, RestTyped
      <4> QED
        BY <3>1, <4>1 DEF NoNewRow
    <3>2. CASE rows[saver[u].task] = None
      BY <1>1, <3>2 DEF Write, NoNewRow
    <3> QED
      BY <3>1, <3>2
  <2> QED
    BY <2>2, <2>3, LockingSame
<1>2. CASE Reread(u)
  BY <1>2, LockingSame DEF Reread, durable, NoNewRow
<1>3. CASE Reschedule(u)
  <2>1. saver[u].task \in Tasks
    BY <1>3 DEF Reschedule, Shape, RestTyped, SaversOK
  <2>2. UNCHANGED <<exec, locks, held>>
    BY <1>3 DEF Reschedule
  <2>3. NoNewRow
    <3>1. CASE SetStatus(saver[u].task, "scheduled")
      BY <2>1, <3>1, SettingStatus DEF Status, NoNewRow
    <3>2. CASE UNCHANGED rows
      BY <3>2 DEF NoNewRow
    <3> QED
      BY <1>3, <3>1, <3>2 DEF Reschedule
  <2> QED
    BY <2>2, <2>3, LockingSame
<1> QED
  BY <1>1, <1>2, <1>3 DEF SaveStep

LEMMA LockingNext ==
    ASSUME Shape, Locking, Next
    PROVE  Locking'
<1>1. ASSUME NEW u \in Savers, NEW t \in Tasks, NEW def \in Saved, BeginUpdate(u, t, def)
      PROVE  Locking'
  BY <1>1, LockingSame DEF BeginUpdate, durable, NoNewRow
<1>2. ASSUME NEW t \in Tasks, Skip(t)
      PROVE  Locking'
  BY <1>2, LockingSame DEF Skip, durable, NoNewRow
<1>3. ASSUME NEW x \in Executions, NEW t \in Tasks, Fire(x, t)
      PROVE  Locking'
  <2>1. Moves(x) /\ exec'[x].lock = None /\ UNCHANGED <<rows, locks, held>>
    BY <1>3, FireKeeps DEF Fire, durable, Call, IdleExecution
  <2> QED
    BY <2>1, LockingWithout DEF NoNewRow
<1>4. ASSUME NEW x \in Executions, NEW t \in Tasks, RunNow(x, t)
      PROVE  Locking'
  <2>1. Moves(x) /\ exec'[x].lock = None /\ UNCHANGED <<rows, locks, held>>
    BY <1>4, RunNowKeeps DEF RunNow, durable, Call, IdleExecution
  <2> QED
    BY <2>1, LockingWithout DEF NoNewRow
<1> QED
  BY <1>1, <1>2, <1>3, <1>4, LockingCreate, LockingDelete, LockingProceed, LockingSaves,
     LockingRestart DEF Next

------------------------------------------------------------------------------
(* Permits and records are counted by executions. *)

PermitOf == {x \in Executions : exec[x].pc \in Permitted}

PermitsOK == permits \in Nat /\ permits + Cardinality(PermitOf) = MaxConcurrency

RecordsOK ==
    \A t \in Tasks :
        /\ rows[t] = None => openRuns[t] = 0 /\ doneRuns[t] = {}
        /\ rows[t] # None => openRuns[t] = Cardinality(OpenOf(t)) + lost[t]

LEMMA OneMore ==
    ASSUME NEW S \in SUBSET Executions, NEW x \in Executions \ S
    PROVE  Cardinality(S) \in Nat /\ Cardinality(S \union {x}) = Cardinality(S) + 1
  BY ExecutionsAssumption, FS_Subset, FS_CardinalityType, FS_AddElement

LEMMA OneLess ==
    ASSUME NEW S \in SUBSET Executions, NEW x \in S
    PROVE  Cardinality(S) \in Nat /\ Cardinality(S \ {x}) = Cardinality(S) - 1
  BY ExecutionsAssumption, FS_Subset, FS_CardinalityType, FS_RemoveElement

\* An execution that keeps its permit, or remains without.
LEMMA PermitsKept ==
    ASSUME Shape, PermitsOK, NEW x \in Executions, Moves(x), UNCHANGED permits,
           exec'[x].pc \in Permitted <=> exec[x].pc \in Permitted
    PROVE  PermitsOK'
<1>1. PermitOf' = PermitOf
  BY OthersEqual DEF PermitOf, Permitted, Holding
<1> QED
  BY <1>1 DEF PermitsOK

LEMMA PermitsSame ==
    ASSUME PermitsOK, UNCHANGED <<exec, permits>>
    PROVE  PermitsOK'
<1>1. PermitOf' = PermitOf
  BY DEF PermitOf, Permitted, Holding
<1> QED
  BY <1>1 DEF PermitsOK

LEMMA PermitsTaken ==
    ASSUME Shape, PermitsOK, NEW x \in Executions, TakePermit(x)
    PROVE  PermitsOK'
<1>1. Moves(x) /\ To(x, "reading") /\ exec[x].pc = "queued" /\ permits > 0 /\ permits' = permits - 1
  BY TakePermitKeeps DEF TakePermit
<1>2. x \notin PermitOf /\ PermitOf' = PermitOf \union {x}
  BY <1>1, OthersEqual DEF PermitOf, Permitted, Holding, To
<1>3. Cardinality(PermitOf) \in Nat /\ Cardinality(PermitOf') = Cardinality(PermitOf) + 1
  BY <1>2, OneMore DEF PermitOf
<1> QED
  BY <1>1, <1>3, BoundsAssumption DEF PermitsOK

LEMMA PermitsReleased ==
    ASSUME Shape, PermitsOK, NEW x \in Executions, Leave(x)
    PROVE  PermitsOK'
<1>1. Moves(x) /\ exec'[x] = IdleExecution /\ exec[x].pc = "leaving" /\ permits' = permits + 1
  BY LeaveKeeps DEF Leave
<1>2. x \in PermitOf /\ PermitOf' = PermitOf \ {x}
  BY <1>1, OthersEqual DEF PermitOf, Permitted, Holding, IdleExecution
<1>3. Cardinality(PermitOf) \in Nat /\ Cardinality(PermitOf') = Cardinality(PermitOf) - 1
  BY <1>2, OneLess DEF PermitOf
<1> QED
  BY <1>1, <1>3, BoundsAssumption DEF PermitsOK

LEMMA PermitsRestart ==
    ASSUME NEW H \in SUBSET Handlers, Restart(H)
    PROVE  PermitsOK'
<1>1. PermitOf' = {}
  BY DEF PermitOf, Restart, IdleExecution, Permitted, Holding
<1>2. permits' = MaxConcurrency
  BY DEF Restart
<1> QED
  BY <1>1, <1>2, BoundsAssumption, FS_EmptySet DEF PermitsOK

LEMMA PermitsProceed ==
    ASSUME Shape, PermitsOK, NEW x \in Executions, Proceed(x)
    PROVE  PermitsOK'
<1>1. CASE Asked(x)
  <2>1. Moves(x) /\ exec'[x].pc \in {"idle", "called"}
    BY <1>1, AskedKeeps, AskedPlace
  <2>2. exec[x].pc = "asked" /\ UNCHANGED permits
    BY <1>1 DEF Asked
  <2> QED
    BY <2>1, <2>2, PermitsKept DEF Permitted, Holding
<1>2. CASE Enter(x)
  BY <1>2, EnterKeeps, EnterPlace, PermitsKept DEF Enter, Permitted, Holding
<1>3. CASE TakeLock(x)
  BY <1>3, TakeLockKeeps, PermitsKept DEF TakeLock, To, Permitted, Holding
<1>4. CASE TakePermit(x)
  BY <1>4, PermitsTaken
<1>5. CASE Withdraw(x)
  BY <1>5, WithdrawKeeps, PermitsKept DEF Withdraw, To, Permitted, Holding
<1>6. CASE Unavailable(x)
  BY <1>6, UnavailableKeeps, PermitsKept DEF Unavailable, To, Permitted, Holding
<1>7. CASE RecordStart(x)
  <2>1. Moves(x) /\ (To(x, "adding") \/ To(x, "leaving")) /\ exec[x].pc = "reading" /\ UNCHANGED permits
    BY <1>7, RecordStartKeeps DEF RecordStart
  <2> QED
    BY <2>1, PermitsKept DEF To, Permitted, Holding
<1>8. CASE MarkRunning(x)
  BY <1>8, MarkRunningKeeps, PermitsKept DEF MarkRunning, To, Permitted, Holding
<1>9. CASE StartHandler(x)
  BY <1>9, StartHandlerKeeps, PermitsKept DEF StartHandler, To, Permitted, Holding
<1>10. ASSUME NEW result \in Results, EndHandler(x, result)
       PROVE  PermitsOK'
  <2>1. Moves(x) /\ (To(x, "recording") \/ To(x, "leaving")) /\ exec[x].pc = "handling" /\ UNCHANGED permits
    BY <1>10, EndHandlerKeeps DEF EndHandler
  <2> QED
    BY <2>1, PermitsKept DEF To, Permitted, Holding
<1>11. CASE Finish(x)
  BY <1>11, FinishKeeps, PermitsKept DEF Finish, To, Permitted, Holding
<1>12. CASE Leave(x)
  BY <1>12, PermitsReleased
<1> QED
  BY <1>1, <1>2, <1>3, <1>4, <1>5, <1>6, <1>7, <1>8, <1>9, <1>10, <1>11, <1>12 DEF Proceed

LEMMA PermitsNext ==
    ASSUME Shape, PermitsOK, Next
    PROVE  PermitsOK'
<1>1. ASSUME NEW u \in Savers, NEW t \in Tasks, NEW def \in Saved,
             Create(u, t, def) \/ BeginUpdate(u, t, def)
      PROVE  PermitsOK'
  BY <1>1, PermitsSame DEF Create, BeginUpdate
<1>2. ASSUME NEW u \in Savers, SaveStep(u)
      PROVE  PermitsOK'
  BY <1>2, PermitsSame DEF SaveStep, Write, Reread, Reschedule
<1>3. ASSUME NEW t \in Tasks, Delete(t) \/ Skip(t)
      PROVE  PermitsOK'
  BY <1>3, PermitsSame DEF Delete, Skip
<1>4. ASSUME NEW x \in Executions, NEW t \in Tasks, Fire(x, t)
      PROVE  PermitsOK'
  BY <1>4, FireKeeps, PermitsKept DEF Fire, Call, IdleExecution, Permitted, Holding
<1>5. ASSUME NEW x \in Executions, NEW t \in Tasks, RunNow(x, t)
      PROVE  PermitsOK'
  BY <1>5, RunNowKeeps, PermitsKept DEF RunNow, Call, IdleExecution, Permitted, Holding
<1> QED
  BY <1>1, <1>2, <1>3, <1>4, <1>5, PermitsProceed, PermitsRestart DEF Next

\* An execution that is at none of the places before and after, or stays at them.
LEMMA OpenKept ==
    ASSUME Shape, NEW x \in Executions, Moves(x), exec'[x].pc \in Opened <=> exec[x].pc \in Opened,
           exec[x].pc \in Opened => exec'[x].task = exec[x].task
    PROVE  \A t \in Tasks : OpenOf(t)' = OpenOf(t)
  BY OthersEqual DEF OpenOf, Opened

LEMMA RecordsSame ==
    ASSUME RecordsOK, UNCHANGED <<openRuns, doneRuns, lost>>,
           \A t \in Tasks : OpenOf(t)' = OpenOf(t),
           \A t \in Tasks : rows'[t] = None <=> rows[t] = None
    PROVE  RecordsOK'
  BY DEF RecordsOK

LEMMA RecordsKept ==
    ASSUME RecordsOK, UNCHANGED <<openRuns, doneRuns, lost, exec>>,
           \A t \in Tasks : rows'[t] = None <=> rows[t] = None
    PROVE  RecordsOK'
<1>1. \A t \in Tasks : OpenOf(t)' = OpenOf(t)
  BY DEF OpenOf, Opened
<1> QED
  BY <1>1, RecordsSame

LEMMA RecordsOpened ==
    ASSUME Shape, RecordsOK, NEW x \in Executions, RecordStart(x)
    PROVE  RecordsOK'
<1> DEFINE t == exec[x].task
<1>1. Moves(x) /\ t \in Tasks /\ exec[x].pc = "reading" /\ UNCHANGED <<rows, doneRuns, lost>>
  BY RecordStartKeeps DEF RecordStart, history, Shape, RestTyped, ExecutionsOK, ExecutionOK
<1>2. CASE rows[t] # None
  <2>1. To(x, "adding") /\ openRuns' = [openRuns EXCEPT ![t] = @ + 1]
    BY <1>2, RecordStartKeeps DEF RecordStart
  <2>2. x \in Executions \ OpenOf(t) /\ OpenOf(t) \in SUBSET Executions
        /\ OpenOf(t)' = OpenOf(t) \union {x}
        /\ \A s \in Tasks \ {t} : OpenOf(s)' = OpenOf(s)
    BY <1>1, <2>1, OthersEqual DEF OpenOf, Opened, To
  <2>3. Cardinality(OpenOf(t)) \in Nat /\ Cardinality(OpenOf(t)') = Cardinality(OpenOf(t)) + 1
    BY <2>2, OneMore
  <2>4. openRuns'[t] = openRuns[t] + 1 /\ openRuns[t] = Cardinality(OpenOf(t)) + lost[t]
        /\ lost[t] \in Nat /\ \A s \in Tasks \ {t} : openRuns'[s] = openRuns[s]
    BY <1>1, <1>2, <2>1 DEF RecordsOK, Shape, RestTyped
  <2>5. openRuns'[t] = Cardinality(OpenOf(t)') + lost'[t]
    BY <1>1, <2>3, <2>4
  <2> QED
    BY <1>1, <1>2, <2>1, <2>2, <2>4, <2>5 DEF RecordsOK, To
<1>3. CASE rows[t] = None
  <2>1. To(x, "leaving") /\ UNCHANGED openRuns
    BY <1>3, RecordStartKeeps DEF RecordStart
  <2>2. \A s \in Tasks : OpenOf(s)' = OpenOf(s)
    BY <1>1, <2>1, OpenKept DEF To, Opened
  <2> QED
    BY <1>1, <2>1, <2>2, RecordsSame
<1> QED
  BY <1>2, <1>3

LEMMA RecordsClosed ==
    ASSUME Shape, RecordsOK, NEW x \in Executions, NEW result \in Results, EndHandler(x, result)
    PROVE  RecordsOK'
<1> DEFINE t == exec[x].task
<1>1. Moves(x) /\ t \in Tasks /\ exec[x].pc = "handling" /\ UNCHANGED <<rows, lost>>
  BY EndHandlerKeeps DEF EndHandler, history, Shape, RestTyped, ExecutionsOK, ExecutionOK
<1>2. exec'[x].pc \notin Opened /\ exec'[x].task = t
  BY EndHandlerKeeps DEF To, Opened
<1>3. x \in OpenOf(t) /\ OpenOf(t) \in SUBSET Executions
      /\ OpenOf(t)' = OpenOf(t) \ {x}
      /\ \A s \in Tasks \ {t} : OpenOf(s)' = OpenOf(s)
  BY <1>1, <1>2, OthersEqual DEF OpenOf, Opened
<1>4. Cardinality(OpenOf(t)) \in Nat /\ Cardinality(OpenOf(t)') = Cardinality(OpenOf(t)) - 1
  BY <1>3, OneLess
<1>5. CASE rows[t] # None
  <2>1. openRuns' = [openRuns EXCEPT ![t] = @ - 1]
        /\ doneRuns' = [doneRuns EXCEPT ![t] = @ \union {result}]
    BY <1>5 DEF EndHandler
  <2>2. openRuns'[t] = openRuns[t] - 1 /\ openRuns[t] = Cardinality(OpenOf(t)) + lost[t]
        /\ lost[t] \in Nat
        /\ \A s \in Tasks \ {t} : openRuns'[s] = openRuns[s] /\ doneRuns'[s] = doneRuns[s]
    BY <1>1, <1>5, <2>1 DEF RecordsOK, Shape, RestTyped
  <2>3. openRuns'[t] = Cardinality(OpenOf(t)') + lost'[t]
    BY <1>1, <1>4, <2>2
  <2>4. \A s \in Tasks \ {t} :
            /\ rows[s] = None => openRuns'[s] = 0 /\ doneRuns'[s] = {}
            /\ rows[s] # None => openRuns'[s] = Cardinality(OpenOf(s)') + lost[s]
    BY <1>3, <2>2 DEF RecordsOK
  <2> QED
    BY <1>1, <1>2, <1>5, <2>3, <2>4 DEF RecordsOK
<1>6. CASE rows[t] = None
  <2>1. UNCHANGED <<openRuns, doneRuns>>
    BY <1>6 DEF EndHandler, Unrecorded
  <2> QED
    BY <1>1, <1>3, <1>6, <2>1 DEF RecordsOK
<1> QED
  BY <1>5, <1>6

LEMMA RecordsCreate ==
    ASSUME Shape, RecordsOK, NEW u \in Savers, NEW t \in Tasks, NEW def \in Saved, Create(u, t, def)
    PROVE  RecordsOK'
<1>1. t \notin created /\ UNCHANGED <<exec, openRuns, doneRuns, lost>>
      /\ \A s \in Tasks \ {t} : rows'[s] = rows[s]
  BY DEF Create, WriteRow, Shape, RestTyped
<1>2. \A s \in Tasks : OpenOf(s)' = OpenOf(s)
  BY <1>1 DEF OpenOf, Opened
<1>3. OpenOf(t) = {}
  BY <1>1 DEF OpenOf, Opened, Shape, ExecutionsOK, ExecutionOK
<1>4. rows[t] = None /\ lost[t] = 0
  BY <1>1 DEF Shape, RowsOK
<1>5. openRuns[t] = 0 /\ doneRuns[t] = {} /\ Cardinality(OpenOf(t)) = 0
  BY <1>3, <1>4, FS_EmptySet DEF RecordsOK
<1>6. openRuns'[t] = Cardinality(OpenOf(t)') + lost'[t]
  BY <1>1, <1>2, <1>4, <1>5
<1> QED
  BY <1>1, <1>2, <1>5, <1>6 DEF RecordsOK

LEMMA RecordsDelete ==
    ASSUME Shape, RecordsOK, NEW t \in Tasks, Delete(t)
    PROVE  RecordsOK'
<1>1. UNCHANGED <<exec, lost>> /\ rows'[t] = None /\ openRuns'[t] = 0 /\ doneRuns'[t] = {}
      /\ \A s \in Tasks \ {t} : rows'[s] = rows[s] /\ openRuns'[s] = openRuns[s]
                                /\ doneRuns'[s] = doneRuns[s]
  BY DEF Delete, history, Shape, RestTyped
<1>2. \A s \in Tasks : OpenOf(s)' = OpenOf(s)
  BY <1>1 DEF OpenOf, Opened
<1> QED
  BY <1>1, <1>2 DEF RecordsOK

LEMMA RestartedRows ==
    ASSUME Shape, NEW H \in SUBSET Handlers, Restart(H)
    PROVE  \A t \in Tasks :
            /\ rows'[t] = None <=> rows[t] = None
            /\ rows[t] # None => /\ rows'[t].rev = rows[t].rev /\ rows'[t].def = rows[t].def
                                 /\ rows'[t].status \in {rows[t].status, "scheduled", "unavailable"}
<1> SUFFICES ASSUME NEW t \in Tasks
             PROVE  /\ rows'[t] = None <=> rows[t] = None
                    /\ rows[t] # None => /\ rows'[t].rev = rows[t].rev /\ rows'[t].def = rows[t].def
                                         /\ rows'[t].status \in {rows[t].status, "scheduled", "unavailable"}
  OBVIOUS
<1>1. \/ rows'[t] = rows[t]
      \/ /\ rows[t] # None
         /\ \E s \in {"scheduled", "unavailable"} : rows'[t] = [rows[t] EXCEPT !.status = s]
  BY DEF Restart
<1>2. rows[t] # None => rows[t] \in Row
  BY DEF Shape, RestTyped
<1>3. \A s \in {"scheduled", "unavailable"} : rows[t] # None =>
        /\ [rows[t] EXCEPT !.status = s] \in Row
        /\ [rows[t] EXCEPT !.status = s].rev = rows[t].rev
        /\ [rows[t] EXCEPT !.status = s].def = rows[t].def
        /\ [rows[t] EXCEPT !.status = s].status = s
  BY <1>2 DEF Row, Status
<1> QED
  BY <1>1, <1>2, <1>3, NotNoneAssumption

LEMMA RecordsRestart ==
    ASSUME Shape, RecordsOK, NEW H \in SUBSET Handlers, Restart(H)
    PROVE  RecordsOK'
<1>1. \A t \in Tasks : OpenOf(t)' = {}
  BY DEF OpenOf, Restart, IdleExecution, Opened
<1>2. UNCHANGED <<openRuns, doneRuns>> /\ lost' = [t \in Tasks |-> lost[t] + Cardinality(OpenOf(t))]
  BY RestartCounts DEF Restart
<1>3. ASSUME NEW t \in Tasks, rows[t] # None
      PROVE  openRuns'[t] = Cardinality(OpenOf(t)') + lost'[t]
  <2>1. openRuns[t] = Cardinality(OpenOf(t)) + lost[t] /\ lost[t] \in Nat
        /\ Cardinality(OpenOf(t)) \in Nat
    BY <1>3, CountedFinite DEF RecordsOK, Shape, RestTyped
  <2>2. lost'[t] = lost[t] + Cardinality(OpenOf(t)) /\ Cardinality(OpenOf(t)') = 0
    BY <1>1, <1>2, FS_EmptySet
  <2> QED
    BY <1>2, <2>1, <2>2
<1>4. \A t \in Tasks : rows'[t] = None <=> rows[t] = None
  BY RestartedRows
<1> QED
  BY <1>2, <1>3, <1>4 DEF RecordsOK

LEMMA RecordsProceed ==
    ASSUME Shape, RecordsOK, NEW x \in Executions, Proceed(x)
    PROVE  RecordsOK'
<1>1. CASE Asked(x)
  <2>1. Moves(x) /\ exec'[x].pc \in {"idle", "called"}
    BY <1>1, AskedKeeps, AskedPlace
  <2>2. exec[x].pc = "asked" /\ UNCHANGED <<rows, openRuns, doneRuns, lost>>
    BY <1>1 DEF Asked, durable, history
  <2> QED
    BY <2>1, <2>2, OpenKept, RecordsSame DEF Opened
<1>2. CASE Enter(x)
  <2>1. Moves(x) /\ UNCHANGED <<rows, openRuns, doneRuns, lost>>
    BY <1>2, EnterKeeps DEF Enter, durable, history
  <2> QED
    BY <1>2, <2>1, EnterPlace, OpenKept, RecordsSame DEF Opened
<1>3. CASE TakeLock(x)
  <2>1. exec[x].pc = "waiting" /\ UNCHANGED <<rows, openRuns, doneRuns, lost>>
    BY <1>3 DEF TakeLock, durable, history
  <2> QED
    BY <1>3, <2>1, TakeLockKeeps, OpenKept, RecordsSame DEF To, Opened
<1>4. CASE TakePermit(x)
  <2>1. exec[x].pc = "queued" /\ UNCHANGED <<rows, openRuns, doneRuns, lost>>
    BY <1>4 DEF TakePermit, durable, history
  <2> QED
    BY <1>4, <2>1, TakePermitKeeps, OpenKept, RecordsSame DEF To, Opened
<1>5. CASE Withdraw(x)
  <2>1. exec[x].pc = "reading" /\ UNCHANGED <<rows, openRuns, doneRuns, lost>>
    BY <1>5 DEF Withdraw, durable, history
  <2> QED
    BY <1>5, <2>1, WithdrawKeeps, OpenKept, RecordsSame DEF To, Opened
<1>6. CASE Unavailable(x)
  <2>1. exec[x].pc = "reading" /\ UNCHANGED <<openRuns, doneRuns, lost>>
    BY <1>6 DEF Unavailable, history
  <2>2. exec[x].task \in Tasks
    BY <2>1 DEF Shape, RestTyped, ExecutionsOK, ExecutionOK
  <2>3. \A t \in Tasks : rows'[t] = None <=> rows[t] = None
    BY <1>6, <2>2, SettingStatus DEF Unavailable, Status
  <2> QED
    BY <1>6, <2>1, <2>3, UnavailableKeeps, OpenKept, RecordsSame DEF To, Opened
<1>7. CASE RecordStart(x)
  BY <1>7, RecordsOpened
<1>8. CASE MarkRunning(x)
  <2>1. exec[x].pc = "adding" /\ UNCHANGED <<openRuns, doneRuns, lost>>
    BY <1>8 DEF MarkRunning, history
  <2>2. exec[x].task \in Tasks
    BY <2>1 DEF Shape, RestTyped, ExecutionsOK, ExecutionOK
  <2>3. \A t \in Tasks : rows'[t] = None <=> rows[t] = None
    BY <1>8, <2>2, SettingStatus DEF MarkRunning, Status
  <2> QED
    BY <1>8, <2>1, <2>3, MarkRunningKeeps, OpenKept, RecordsSame DEF To, Opened
<1>9. CASE StartHandler(x)
  <2>1. exec[x].pc = "marking" /\ UNCHANGED <<rows, openRuns, doneRuns, lost>>
    BY <1>9 DEF StartHandler, durable, history
  <2> QED
    BY <1>9, <2>1, StartHandlerKeeps, OpenKept, RecordsSame DEF To, Opened
<1>10. ASSUME NEW result \in Results, EndHandler(x, result)
       PROVE  RecordsOK'
  BY <1>10, RecordsClosed
<1>11. CASE Finish(x)
  <2>1. exec[x].pc = "recording" /\ UNCHANGED <<openRuns, doneRuns, lost>>
    BY <1>11 DEF Finish, history
  <2>2. \A t \in Tasks : rows'[t] = None <=> rows[t] = None
    BY <1>11, FinishedRow
  <2> QED
    BY <1>11, <2>1, <2>2, FinishKeeps, OpenKept, RecordsSame DEF To, Opened
<1>12. CASE Leave(x)
  <2>1. exec[x].pc = "leaving" /\ UNCHANGED <<rows, openRuns, doneRuns, lost>>
    BY <1>12 DEF Leave, durable, history
  <2>2. Moves(x) /\ exec'[x].pc = "idle"
    BY <1>12, LeaveKeeps DEF IdleExecution
  <2> QED
    BY <2>1, <2>2, OpenKept, RecordsSame DEF Opened
<1> QED
  BY <1>1, <1>2, <1>3, <1>4, <1>5, <1>6, <1>7, <1>8, <1>9, <1>10, <1>11, <1>12 DEF Proceed

\* What a saver leaves of the rows that exist.
LEMMA SavedRows ==
    ASSUME Shape, NEW u \in Savers, SaveStep(u)
    PROVE  /\ \A t \in Tasks : rows'[t] = None <=> rows[t] = None
           /\ \A t \in Tasks : rows'[t] # rows[t] => rows'[t].status # "running"
           /\ UNCHANGED <<exec, openRuns, doneRuns, lost, interrupted>>
<1> DEFINE t == saver[u].task
<1>1. CASE Write(u)
  <2>1. t \in Tasks /\ saver[u].def \in Definition
    BY <1>1 DEF Write, Shape, RestTyped, SaversOK, Saver
  <2>2. UNCHANGED <<exec, starts, cut, openRuns, doneRuns, lost, interrupted>>
    BY <1>1 DEF Write
  <2>3. CASE rows[t] = None
    BY <1>1, <2>2, <2>3 DEF Write
  <2>4. CASE rows[t] # None
    <3> DEFINE new == [def |-> saver[u].def, status |-> StatusOf(saver[u].def), rev |-> saves']
    <3>1. saves < budget.saves /\ saves' = saves + 1 /\ rows' = [rows EXCEPT ![t] = new]
      BY <1>1, <2>4 DEF Write, WriteRow
    <3>2. saves' \in 1..MaxSaves
      BY <3>1, BoundsAssumption DEF Shape, RestTyped
    <3>3. new \in Row /\ new.rev = saves + 1 /\ new.status # "running"
      BY <2>1, <3>1, <3>2 DEF Row, StatusOf, Status
    <3>4. new # None
      BY <3>3, NotNoneAssumption
    <3> HIDE DEF new
    <3>5. rows'[t] = new /\ \A s \in Tasks \ {t} : rows'[s] = rows[s]
      BY <2>1, <3>1 DEF Shape, RestTyped
    <3> QED
      BY <2>2, <2>4, <3>1, <3>3, <3>4, <3>5
  <2> QED
    BY <2>3, <2>4
<1>2. CASE Reread(u)
  BY <1>2 DEF Reread, durable, history
<1>3. CASE Reschedule(u)
  <2>1. t \in Tasks
    BY <1>3 DEF Reschedule, Shape, RestTyped, SaversOK
  <2>2. UNCHANGED <<exec, saves, starts, cut, openRuns, doneRuns, lost, interrupted>>
    BY <1>3 DEF Reschedule, history
  <2>3. CASE SetStatus(t, "scheduled")
    <3>1. /\ \A s \in Tasks : rows'[s] = None <=> rows[s] = None
          /\ \A s \in Tasks : rows'[s] # None =>
                rows'[s].def = rows[s].def /\ rows'[s].rev = rows[s].rev
          /\ \A s \in Tasks \ {t} : rows'[s] = rows[s]
          /\ rows[t] # None => rows'[t].status = "scheduled"
      BY <2>1, <2>3, SettingStatus DEF Status
    <3> QED
      BY <2>1, <2>2, <3>1
  <2>4. CASE UNCHANGED rows
    BY <2>2, <2>4
  <2> QED
    BY <1>3, <2>3, <2>4 DEF Reschedule
<1> QED
  BY <1>1, <1>2, <1>3 DEF SaveStep

LEMMA RecordsNext ==
    ASSUME Shape, RecordsOK, Next
    PROVE  RecordsOK'
<1>1. ASSUME NEW u \in Savers, NEW t \in Tasks, NEW def \in Saved, BeginUpdate(u, t, def)
      PROVE  RecordsOK'
  BY <1>1, RecordsKept DEF BeginUpdate, durable, history
<1>2. ASSUME NEW u \in Savers, SaveStep(u)
      PROVE  RecordsOK'
  BY <1>2, SavedRows, RecordsKept
<1>3. ASSUME NEW t \in Tasks, Skip(t)
      PROVE  RecordsOK'
  BY <1>3, RecordsKept DEF Skip, durable
<1>4. ASSUME NEW x \in Executions, NEW t \in Tasks, Fire(x, t)
      PROVE  RecordsOK'
  <2>1. exec[x].pc = "idle" /\ UNCHANGED <<rows, openRuns, doneRuns, lost>>
    BY <1>4 DEF Fire, durable
  <2>2. Moves(x) /\ exec'[x].pc = "called"
    BY <1>4, FireKeeps DEF Call, IdleExecution
  <2> QED
    BY <2>1, <2>2, OpenKept, RecordsSame DEF Opened
<1>5. ASSUME NEW x \in Executions, NEW t \in Tasks, RunNow(x, t)
      PROVE  RecordsOK'
  <2>1. exec[x].pc = "idle" /\ UNCHANGED <<rows, openRuns, doneRuns, lost>>
    BY <1>5 DEF RunNow, durable, history
  <2>2. Moves(x) /\ exec'[x].pc = "asked"
    BY <1>5, RunNowKeeps DEF Call, IdleExecution
  <2> QED
    BY <2>1, <2>2, OpenKept, RecordsSame DEF Opened
<1> QED
  BY <1>1, <1>2, <1>3, <1>4, <1>5, RecordsCreate, RecordsDelete, RecordsProceed, RecordsRestart
     DEF Next

------------------------------------------------------------------------------
(* A row says RUNNING while an execution of its task is past marking it. *)

Marked == {"marking", "handling", "recording"}

StatusOK ==
    \A t \in Tasks : rows[t] # None /\ rows[t].status = "running" =>
        t \in interrupted \/ \E x \in Executions : exec[x].task = t /\ exec[x].pc \in Marked

\* No row says RUNNING that did not before.
NoNewRunning ==
    \A t \in Tasks : rows'[t] # None /\ rows'[t].status = "running" =>
        rows[t] # None /\ rows[t].status = "running"

LEMMA StatusKept ==
    ASSUME Shape, StatusOK, NEW x \in Executions, Moves(x), NoNewRunning, UNCHANGED interrupted,
           exec[x].pc \in Marked => exec'[x].pc \in Marked /\ exec'[x].task = exec[x].task
    PROVE  StatusOK'
<1> SUFFICES ASSUME NEW t \in Tasks, rows'[t] # None, rows'[t].status = "running", t \notin interrupted'
             PROVE  \E y \in Executions : exec'[y].task = t /\ exec'[y].pc \in Marked
  BY DEF StatusOK, Marked
<1>1. PICK y \in Executions : exec[y].task = t /\ exec[y].pc \in Marked
  BY DEF StatusOK, NoNewRunning
<1> QED
  BY <1>1, OthersEqual

LEMMA StatusSame ==
    ASSUME StatusOK, NoNewRunning, UNCHANGED <<exec, interrupted>>
    PROVE  StatusOK'
  BY DEF StatusOK, NoNewRunning, Marked

LEMMA StatusMarked ==
    ASSUME Shape, StatusOK, NEW x \in Executions, MarkRunning(x)
    PROVE  StatusOK'
<1> DEFINE t == exec[x].task
<1>1. Moves(x) /\ exec'[x].pc = "marking" /\ exec'[x].task = t /\ t \in Tasks
      /\ exec[x].pc = "adding" /\ UNCHANGED interrupted
  BY MarkRunningKeeps DEF MarkRunning, To, history, Shape, RestTyped, ExecutionsOK, ExecutionOK
<1>2. \A s \in Tasks \ {t} : rows'[s] = rows[s]
  BY <1>1, SettingStatus DEF MarkRunning, Status
<1> SUFFICES ASSUME NEW s \in Tasks, rows'[s] # None, rows'[s].status = "running", s \notin interrupted'
             PROVE  \E y \in Executions : exec'[y].task = s /\ exec'[y].pc \in Marked
  BY DEF StatusOK, Marked
<1>3. CASE s = t
  BY <1>1, <1>3 DEF Marked
<1>4. CASE s # t
  <2>1. PICK y \in Executions : exec[y].task = s /\ exec[y].pc \in Marked
    BY <1>1, <1>2, <1>4 DEF StatusOK
  <2> QED
    BY <1>1, <2>1, OthersEqual DEF Marked
<1> QED
  BY <1>3, <1>4

\* The task of an execution that is no longer past marking has another status or no row.
LEMMA StatusUnmarked ==
    ASSUME Shape, StatusOK, NEW x \in Executions, Moves(x), UNCHANGED interrupted, NoNewRunning,
           ~(rows'[exec[x].task] # None /\ rows'[exec[x].task].status = "running")
    PROVE  StatusOK'
<1> SUFFICES ASSUME NEW s \in Tasks, rows'[s] # None, rows'[s].status = "running", s \notin interrupted'
             PROVE  \E y \in Executions : exec'[y].task = s /\ exec'[y].pc \in Marked
  BY DEF StatusOK, Marked
<1>1. PICK y \in Executions : exec[y].task = s /\ exec[y].pc \in Marked
  BY DEF StatusOK, NoNewRunning
<1>2. y # x
  BY <1>1
<1> QED
  BY <1>1, <1>2, OthersEqual

LEMMA StatusRestart ==
    ASSUME Shape, StatusOK, NEW H \in SUBSET Handlers, Restart(H)
    PROVE  StatusOK'
<1>1. interrupted' = interrupted \union {exec[x].task : x \in {y \in Executions : exec[y].pc \in Marked}}
  BY DEF Restart, Marked
<1>2. NoNewRunning
  BY RestartedRows DEF NoNewRunning
<1>3. \A t \in Tasks : rows'[t] # None /\ rows'[t].status = "running" => t \in interrupted'
  BY <1>1, <1>2 DEF StatusOK, NoNewRunning
<1> QED
  BY <1>3 DEF StatusOK

LEMMA StatusProceed ==
    ASSUME Shape, StatusOK, NEW x \in Executions, Proceed(x)
    PROVE  StatusOK'
<1>1. CASE Asked(x)
  BY <1>1, AskedKeeps, StatusKept DEF Asked, durable, history, NoNewRunning, Marked
<1>2. CASE Enter(x)
  BY <1>2, EnterKeeps, StatusKept DEF Enter, durable, history, NoNewRunning, Marked
<1>3. CASE TakeLock(x)
  BY <1>3, TakeLockKeeps, StatusKept DEF TakeLock, durable, history, NoNewRunning, Marked
<1>4. CASE TakePermit(x)
  BY <1>4, TakePermitKeeps, StatusKept DEF TakePermit, durable, history, NoNewRunning, Marked
<1>5. CASE Withdraw(x)
  BY <1>5, WithdrawKeeps, StatusKept DEF Withdraw, durable, history, NoNewRunning, Marked
<1>6. CASE Unavailable(x)
  <2>1. exec[x].pc = "reading" /\ UNCHANGED interrupted
    BY <1>6 DEF Unavailable, history
  <2>2. exec[x].task \in Tasks
    BY <2>1 DEF Shape, RestTyped, ExecutionsOK, ExecutionOK
  <2>3. NoNewRunning
    BY <1>6, <2>2, SettingStatus DEF Unavailable, Status, NoNewRunning
  <2> QED
    BY <1>6, <2>1, <2>3, UnavailableKeeps, StatusKept DEF Marked
<1>7. CASE RecordStart(x)
  BY <1>7, RecordStartKeeps, StatusKept DEF RecordStart, history, NoNewRunning, Marked
<1>8. CASE MarkRunning(x)
  BY <1>8, StatusMarked
<1>9. CASE StartHandler(x)
  BY <1>9, StartHandlerKeeps, StatusKept DEF StartHandler, durable, NoNewRunning, Marked, To
<1>10. ASSUME NEW result \in Results, EndHandler(x, result)
       PROVE  StatusOK'
  <2>1. Moves(x) /\ UNCHANGED <<rows, interrupted>> /\ NoNewRunning
    BY <1>10, EndHandlerKeeps DEF EndHandler, history, NoNewRunning
  <2>2. CASE rows[exec[x].task] # None
    <3>1. To(x, "recording")
      BY <1>10, <2>2, EndHandlerKeeps
    <3> QED
      BY <2>1, <3>1, StatusKept DEF To, Marked
  <2>3. CASE rows[exec[x].task] = None
    BY <2>1, <2>3, StatusUnmarked
  <2> QED
    BY <2>2, <2>3
<1>11. CASE Finish(x)
  <2>1. Moves(x) /\ UNCHANGED interrupted
    BY <1>11, FinishKeeps DEF Finish, history
  <2>2. exec[x].task \in Tasks /\ exec[x].result \in {"completed", "failed"}
    BY <1>11, ResultsAssumption DEF Finish, Shape, RestTyped, ExecutionsOK, ExecutionOK, Execution
  <2>3. NoNewRunning /\ ~(rows'[exec[x].task] # None /\ rows'[exec[x].task].status = "running")
    BY <1>11, <2>2, FinishedRow DEF NoNewRunning
  <2> QED
    BY <2>1, <2>3, StatusUnmarked
<1>12. CASE Leave(x)
  BY <1>12, LeaveKeeps, StatusKept DEF Leave, durable, history, NoNewRunning, Marked
<1> QED
  BY <1>1, <1>2, <1>3, <1>4, <1>5, <1>6, <1>7, <1>8, <1>9, <1>10, <1>11, <1>12 DEF Proceed

LEMMA StatusNext ==
    ASSUME Shape, StatusOK, Next
    PROVE  StatusOK'
<1>1. ASSUME NEW u \in Savers, NEW t \in Tasks, NEW def \in Saved, Create(u, t, def)
      PROVE  StatusOK'
  <2>1. /\ UNCHANGED <<exec, interrupted>> /\ t \notin created
        /\ rows' = [rows EXCEPT ![t] = [def |-> def, status |-> StatusOf(def), rev |-> saves']]
    BY <1>1 DEF Create, WriteRow
  <2>2. StatusOf(def) # "running"
    BY DEF StatusOf
  <2>3. NoNewRunning
    BY <2>1, <2>2 DEF NoNewRunning, Shape, RestTyped
  <2> QED
    BY <2>1, <2>3, StatusSame
<1>2. ASSUME NEW u \in Savers, NEW t \in Tasks, NEW def \in Saved, BeginUpdate(u, t, def)
      PROVE  StatusOK'
  BY <1>2, StatusSame DEF BeginUpdate, durable, history, NoNewRunning
<1>3. ASSUME NEW u \in Savers, SaveStep(u)
      PROVE  StatusOK'
  BY <1>3, SavedRows, StatusSame DEF NoNewRunning
<1>4. ASSUME NEW t \in Tasks, Delete(t)
      PROVE  StatusOK'
  <2>1. UNCHANGED <<exec, interrupted>> /\ NoNewRunning
    BY <1>4 DEF Delete, history, NoNewRunning, Shape, RestTyped
  <2> QED
    BY <2>1, StatusSame
<1>5. ASSUME NEW t \in Tasks, Skip(t)
      PROVE  StatusOK'
  BY <1>5, StatusSame DEF Skip, durable, NoNewRunning
<1>6. ASSUME NEW x \in Executions, NEW t \in Tasks, Fire(x, t)
      PROVE  StatusOK'
  BY <1>6, FireKeeps, StatusKept DEF Fire, durable, NoNewRunning, Marked
<1>7. ASSUME NEW x \in Executions, NEW t \in Tasks, RunNow(x, t)
      PROVE  StatusOK'
  BY <1>7, RunNowKeeps, StatusKept DEF RunNow, durable, history, NoNewRunning, Marked
<1> QED
  BY <1>1, <1>2, <1>3, <1>4, <1>5, <1>6, <1>7, StatusProceed, StatusRestart DEF Next

------------------------------------------------------------------------------
(* A once task: the schedule has one execution of a task at a time, and the row of a  *)
(* started one is enabled only while the execution that will disable it is in flight. *)

OneScheduled ==
    \A x, y \in Executions :
        exec[x].scheduled /\ exec[y].scheduled /\ exec[x].task = exec[y].task => x = y

LEMMA ScheduledKept ==
    ASSUME Shape, OneScheduled, NEW x \in Executions, Moves(x),
           exec'[x].scheduled => exec[x].scheduled /\ exec'[x].task = exec[x].task
    PROVE  OneScheduled'
  BY OthersEqual DEF OneScheduled

LEMMA ScheduledFire ==
    ASSUME Shape, OneScheduled, NEW x \in Executions, NEW t \in Tasks, Fire(x, t)
    PROVE  OneScheduled'
<1>1. Moves(x) /\ exec'[x].task = t
  <2>1. Moves(x) /\ exec'[x] = Call(t, TRUE, "called")
    BY FireKeeps
  <2> QED
    BY <2>1 DEF Call, IdleExecution
<1>2. \A y \in Executions : exec[y].task = t => ~exec[y].scheduled
  BY DEF Fire
<1> QED
  BY <1>1, <1>2, OthersEqual DEF OneScheduled

LEMMA ScheduledNext ==
    ASSUME Shape, OneScheduled, Next
    PROVE  OneScheduled'
<1>1. CASE UNCHANGED exec
  BY <1>1 DEF OneScheduled
<1>2. ASSUME NEW x \in Executions, NEW t \in Tasks, Fire(x, t)
      PROVE  OneScheduled'
  BY <1>2, ScheduledFire
<1>3. ASSUME NEW x \in Executions, NEW t \in Tasks, RunNow(x, t)
      PROVE  OneScheduled'
  BY <1>3, RunNowKeeps, ScheduledKept DEF Call, IdleExecution
<1>4. ASSUME NEW x \in Executions, Proceed(x)
      PROVE  OneScheduled'
  <2>1. CASE Asked(x)
    BY <2>1, AskedKeeps, AskedPlace, ScheduledKept
  <2>2. CASE Enter(x)
    BY <2>2, EnterKeeps, EnterPlace, ScheduledKept
  <2>3. CASE TakeLock(x) \/ TakePermit(x) \/ Withdraw(x) \/ Unavailable(x) \/ RecordStart(x)
             \/ MarkRunning(x) \/ StartHandler(x) \/ (\E result \in Results : EndHandler(x, result))
             \/ Finish(x)
    <3>1. Moves(x) /\ \E place : To(x, place)
      BY <2>3, TakeLockKeeps, TakePermitKeeps, WithdrawKeeps, UnavailableKeeps, RecordStartKeeps,
         MarkRunningKeeps, StartHandlerKeeps, EndHandlerKeeps, FinishKeeps
    <3> QED
      BY <3>1, ScheduledKept DEF To
  <2>4. CASE Leave(x)
    BY <2>4, LeaveKeeps, ScheduledKept DEF IdleExecution
  <2> QED
    BY <1>4, <2>1, <2>2, <2>3, <2>4 DEF Proceed
<1>5. ASSUME NEW H \in SUBSET Handlers, Restart(H)
      PROVE  OneScheduled'
  <2>1. \A x \in Executions : ~exec'[x].scheduled
    BY <1>5 DEF Restart, IdleExecution
  <2> QED
    BY <2>1 DEF OneScheduled
<1>6. ASSUME NEW u \in Savers, NEW t \in Tasks, NEW def \in Saved,
             Create(u, t, def) \/ BeginUpdate(u, t, def)
      PROVE  UNCHANGED exec
  BY <1>6 DEF Create, BeginUpdate
<1>7. ASSUME NEW u \in Savers, SaveStep(u)
      PROVE  UNCHANGED exec
  BY <1>7 DEF SaveStep, Write, Reread, Reschedule
<1>8. ASSUME NEW t \in Tasks, Delete(t) \/ Skip(t)
      PROVE  UNCHANGED exec
  BY <1>8 DEF Delete, Skip
<1> QED
  BY <1>1, <1>2, <1>3, <1>4, <1>5, <1>6, <1>7, <1>8 DEF Next

\* A rev belongs to one task, in its row and in what its executions have seen.
RevsOK ==
    /\ \A t \in Tasks : rows[t] # None => rows[t].rev <= saves
    /\ \A x \in Executions : exec[x].seen # None => exec[x].seen.rev <= saves
    /\ \A s, t \in Tasks : rows[s] # None /\ rows[t] # None /\ rows[s].rev = rows[t].rev => s = t
    /\ \A x \in Executions, t \in Tasks :
        exec[x].seen # None /\ rows[t] # None /\ exec[x].seen.rev = rows[t].rev => exec[x].task = t
    /\ \A x, y \in Executions :
        exec[x].seen # None /\ exec[y].seen # None /\ exec[x].seen.rev = exec[y].seen.rev =>
            exec[x].task = exec[y].task

\* No row is new, and none is enabled that was not.
RowsWane ==
    \A t \in Tasks : rows'[t] # None =>
        /\ rows[t] # None /\ rows'[t].rev = rows[t].rev
        /\ rows'[t].def.enabled => rows[t].def.enabled

\* The row of t is new.
RowWritten(t) ==
    /\ saves' = saves + 1
    /\ rows'[t] # None /\ rows'[t].rev = saves'
    /\ \A s \in Tasks \ {t} : rows'[s] = rows[s]

\* What x has seen is what it had seen, or the row of its task.
Sees(x) ==
    exec'[x].seen # None =>
        \/ exec'[x].seen = exec[x].seen /\ exec'[x].task = exec[x].task
        \/ exec'[x].task \in Tasks /\ exec'[x].seen = rows[exec'[x].task]

LEMMA RevsWane ==
    ASSUME RevsOK, RowsWane, UNCHANGED <<exec, saves>>
    PROVE  RevsOK'
  BY DEF RevsOK, RowsWane

LEMMA RevsWritten ==
    ASSUME Shape, RevsOK, NEW t \in Tasks, RowWritten(t), UNCHANGED exec
    PROVE  RevsOK'
<1>1. saves \in Nat /\ \A s \in Tasks : rows[s] # None => rows[s].rev \in Nat
  BY BoundsAssumption DEF Shape, RestTyped, Row
<1>2. \A x \in Executions : exec[x].seen # None => exec[x].seen.rev \in Nat
  BY BoundsAssumption DEF Shape, RestTyped, Execution, Row
<1>3. \A s \in Tasks \ {t} : rows'[s] # None => rows'[s].rev <= saves /\ rows'[s].rev # saves'
  BY <1>1 DEF RevsOK, RowWritten
<1>4. \A x \in Executions : exec[x].seen # None => exec[x].seen.rev <= saves /\ exec[x].seen.rev # saves'
  BY <1>1, <1>2 DEF RevsOK, RowWritten
<1>5. \A s \in Tasks : rows'[s] # None => rows'[s].rev <= saves'
  BY <1>1, <1>3 DEF RowWritten
<1>6. \A x \in Executions : exec'[x].seen # None => exec'[x].seen.rev <= saves'
  BY <1>1, <1>2, <1>4 DEF RowWritten
<1>7. \A r, s \in Tasks : rows'[r] # None /\ rows'[s] # None /\ rows'[r].rev = rows'[s].rev => r = s
  BY <1>3 DEF RevsOK, RowWritten
<1>8. \A x \in Executions, s \in Tasks :
        exec'[x].seen # None /\ rows'[s] # None /\ exec'[x].seen.rev = rows'[s].rev => exec'[x].task = s
  BY <1>4 DEF RevsOK, RowWritten
<1>9. \A x, y \in Executions :
        exec'[x].seen # None /\ exec'[y].seen # None /\ exec'[x].seen.rev = exec'[y].seen.rev =>
            exec'[x].task = exec'[y].task
  BY DEF RevsOK
<1> QED
  BY <1>5, <1>6, <1>7, <1>8, <1>9 DEF RevsOK

LEMMA RevsSeen ==
    ASSUME Shape, RevsOK, NEW x \in Executions, Moves(x), Sees(x), RowsWane, UNCHANGED saves
    PROVE  RevsOK'
<1>1. \A y \in Executions \ {x} : exec'[y] = exec[y]
  BY OthersEqual
<1>2. exec'[x].seen # None =>
        /\ exec'[x].seen.rev <= saves
        /\ \A t \in Tasks : rows[t] # None /\ exec'[x].seen.rev = rows[t].rev => exec'[x].task = t
        /\ \A y \in Executions : exec[y].seen # None /\ exec'[x].seen.rev = exec[y].seen.rev =>
                                    exec'[x].task = exec[y].task
  BY DEF RevsOK, Sees
<1>3. \A t \in Tasks : rows'[t] # None => rows'[t].rev <= saves
  BY DEF RevsOK, RowsWane
<1>4. \A y \in Executions : exec'[y].seen # None => exec'[y].seen.rev <= saves
  BY <1>1, <1>2 DEF RevsOK
<1>5. \A s, t \in Tasks : rows'[s] # None /\ rows'[t] # None /\ rows'[s].rev = rows'[t].rev => s = t
  BY DEF RevsOK, RowsWane
<1>6. \A y \in Executions, t \in Tasks :
        exec'[y].seen # None /\ rows'[t] # None /\ exec'[y].seen.rev = rows'[t].rev => exec'[y].task = t
  BY <1>1, <1>2 DEF RevsOK, RowsWane
<1>7. \A y, z \in Executions :
        exec'[y].seen # None /\ exec'[z].seen # None /\ exec'[y].seen.rev = exec'[z].seen.rev =>
            exec'[y].task = exec'[z].task
  BY <1>1, <1>2 DEF RevsOK
<1> QED
  BY <1>3, <1>4, <1>5, <1>6, <1>7 DEF RevsOK

LEMMA ProceedSees ==
    ASSUME Shape, NEW x \in Executions, Proceed(x)
    PROVE  Moves(x) /\ Sees(x) /\ RowsWane /\ UNCHANGED <<saves, cut>>
<1>1. exec[x].pc # "idle" => exec[x].task \in Tasks
  BY DEF Shape, RestTyped, ExecutionsOK, ExecutionOK
<1>2. CASE Asked(x)
  <2>1. UNCHANGED <<rows, saves, cut>> /\ exec[x].pc = "asked"
    BY <1>2 DEF Asked, durable, history
  <2> QED
    BY <1>1, <1>2, <2>1, AskedKeeps, AskedPlace DEF Sees, RowsWane
<1>3. CASE Enter(x)
  <2>1. UNCHANGED <<rows, saves, cut>>
    BY <1>3 DEF Enter, durable, history
  <2> QED
    BY <1>3, <2>1, EnterKeeps, EnterPlace DEF Sees, RowsWane
<1>4. CASE TakeLock(x)
  <2>1. UNCHANGED <<rows, saves, cut>>
    BY <1>4 DEF TakeLock, durable, history
  <2> QED
    BY <1>4, <2>1, TakeLockKeeps DEF Sees, RowsWane, To
<1>5. CASE TakePermit(x)
  <2>1. UNCHANGED <<rows, saves, cut>> /\ exec[x].pc = "queued"
    BY <1>5 DEF TakePermit, durable, history
  <2> QED
    BY <1>1, <1>5, <2>1, TakePermitKeeps DEF Sees, RowsWane, To
<1>6. CASE Withdraw(x)
  <2>1. UNCHANGED <<rows, saves, cut>>
    BY <1>6 DEF Withdraw, durable, history
  <2> QED
    BY <1>6, <2>1, WithdrawKeeps DEF Sees, RowsWane
<1>7. CASE Unavailable(x)
  <2>1. UNCHANGED <<saves, cut>> /\ exec[x].pc = "reading" /\ SetStatus(exec[x].task, "unavailable")
    BY <1>7 DEF Unavailable, history
  <2>2. RowsWane
    BY <1>1, <2>1, SettingStatus DEF Status, RowsWane
  <2> QED
    BY <1>7, <2>1, <2>2, UnavailableKeeps DEF Sees
<1>8. CASE RecordStart(x)
  <2>1. UNCHANGED <<rows, saves, cut>>
    BY <1>8 DEF RecordStart, history
  <2> QED
    BY <1>8, <2>1, RecordStartKeeps DEF Sees, RowsWane, To
<1>9. CASE MarkRunning(x)
  <2>1. UNCHANGED <<saves, cut>> /\ exec[x].pc = "adding" /\ SetStatus(exec[x].task, "running")
    BY <1>9 DEF MarkRunning, history
  <2>2. RowsWane
    BY <1>1, <2>1, SettingStatus DEF Status, RowsWane
  <2> QED
    BY <1>9, <2>1, <2>2, MarkRunningKeeps DEF Sees, To
<1>10. CASE StartHandler(x)
  <2>1. UNCHANGED <<rows, saves, cut>>
    BY <1>10 DEF StartHandler, durable
  <2> QED
    BY <1>10, <2>1, StartHandlerKeeps DEF Sees, RowsWane, To
<1>11. ASSUME NEW result \in Results, EndHandler(x, result)
       PROVE  Moves(x) /\ Sees(x) /\ RowsWane /\ UNCHANGED <<saves, cut>>
  <2>1. UNCHANGED <<rows, saves, cut>>
    BY <1>11 DEF EndHandler, history
  <2> QED
    BY <1>11, <2>1, EndHandlerKeeps DEF Sees, RowsWane, To
<1>12. CASE Finish(x)
  <2>1. UNCHANGED <<saves, cut>> /\ exec[x].pc = "recording"
    BY <1>12 DEF Finish, history
  <2>2. RowsWane
    BY <1>1, <1>12, <2>1, FinishedRow DEF RowsWane
  <2> QED
    BY <1>12, <2>1, <2>2, FinishKeeps DEF Sees
<1>13. CASE Leave(x)
  <2>1. UNCHANGED <<rows, saves, cut>>
    BY <1>13 DEF Leave, durable, history
  <2> QED
    BY <1>13, <2>1, LeaveKeeps DEF Sees, RowsWane, IdleExecution
<1> QED
  BY <1>2, <1>3, <1>4, <1>5, <1>6, <1>7, <1>8, <1>9, <1>10, <1>11, <1>12, <1>13 DEF Proceed

LEMMA CreateWrites ==
    ASSUME Shape, NEW u \in Savers, NEW t \in Tasks, NEW def \in Saved, Create(u, t, def)
    PROVE  RowWritten(t) /\ UNCHANGED <<exec, starts, cut>>
<1>1. /\ UNCHANGED <<exec, starts, cut>> /\ saves < budget.saves /\ saves' = saves + 1
      /\ rows' = [rows EXCEPT ![t] = [def |-> def, status |-> StatusOf(def), rev |-> saves']]
  BY DEF Create, WriteRow
<1>2. saves' \in 1..MaxSaves
  BY <1>1, BoundsAssumption DEF Shape, RestTyped
<1>3. [def |-> def, status |-> StatusOf(def), rev |-> saves'] \in Row
  BY <1>2, SavedAssumption DEF Row, StatusOf, Status
<1> QED
  BY <1>1, <1>3, NotNoneAssumption DEF RowWritten, Shape, RestTyped

LEMMA SaveWrites ==
    ASSUME Shape, NEW u \in Savers, SaveStep(u)
    PROVE  /\ UNCHANGED <<exec, starts, cut>>
           /\ \/ RowsWane /\ UNCHANGED saves
              \/ \E t \in Tasks : RowWritten(t)
<1> DEFINE t == saver[u].task
<1>1. CASE Write(u)
  <2>1. t \in Tasks /\ saver[u].def \in Definition
    BY <1>1 DEF Write, Shape, RestTyped, SaversOK, Saver
  <2>2. UNCHANGED <<exec, starts, cut>>
    BY <1>1 DEF Write
  <2>3. CASE rows[t] = None
    BY <1>1, <2>2, <2>3 DEF Write, RowsWane
  <2>4. CASE rows[t] # None
    <3> DEFINE new == [def |-> saver[u].def, status |-> StatusOf(saver[u].def), rev |-> saves']
    <3>1. saves < budget.saves /\ saves' = saves + 1 /\ rows' = [rows EXCEPT ![t] = new]
      BY <1>1, <2>4 DEF Write, WriteRow
    <3>2. saves' \in 1..MaxSaves
      BY <3>1, BoundsAssumption DEF Shape, RestTyped
    <3>3. new \in Row /\ new.rev = saves'
      BY <2>1, <3>2 DEF Row, StatusOf, Status
    <3>4. new # None
      BY <3>3, NotNoneAssumption
    <3> HIDE DEF new
    <3>5. rows'[t] = new /\ \A s \in Tasks \ {t} : rows'[s] = rows[s]
      BY <2>1, <3>1 DEF Shape, RestTyped
    <3>6. PICK s \in Tasks : s = t
      BY <2>1
    <3>7. RowWritten(s)
      BY <3>1, <3>3, <3>4, <3>5, <3>6 DEF RowWritten
    <3> QED
      BY <2>2, <3>7
  <2> QED
    BY <2>3, <2>4
<1>2. CASE Reread(u)
  BY <1>2 DEF Reread, durable, history, RowsWane
<1>3. CASE Reschedule(u)
  <2>1. t \in Tasks
    BY <1>3 DEF Reschedule, Shape, RestTyped, SaversOK
  <2>2. UNCHANGED <<exec, saves, starts, cut>>
    BY <1>3 DEF Reschedule, history
  <2>3. CASE SetStatus(t, "scheduled")
    BY <2>1, <2>2, <2>3, SettingStatus DEF Status, RowsWane
  <2>4. CASE UNCHANGED rows
    BY <2>2, <2>4 DEF RowsWane
  <2> QED
    BY <1>3, <2>3, <2>4 DEF Reschedule
<1> QED
  BY <1>1, <1>2, <1>3 DEF SaveStep

LEMMA RevsNext ==
    ASSUME Shape, RevsOK, Next
    PROVE  RevsOK'
<1>1. ASSUME NEW u \in Savers, NEW t \in Tasks, NEW def \in Saved, Create(u, t, def)
      PROVE  RevsOK'
  BY <1>1, CreateWrites, RevsWritten
<1>2. ASSUME NEW u \in Savers, NEW t \in Tasks, NEW def \in Saved, BeginUpdate(u, t, def)
      PROVE  RevsOK'
  BY <1>2, RevsWane DEF BeginUpdate, durable, history, RowsWane
<1>3. ASSUME NEW u \in Savers, SaveStep(u)
      PROVE  RevsOK'
  BY <1>3, SaveWrites, RevsWane, RevsWritten
<1>4. ASSUME NEW t \in Tasks, Delete(t)
      PROVE  RevsOK'
  <2>1. UNCHANGED <<exec, saves>> /\ RowsWane
    BY <1>4 DEF Delete, history, RowsWane, Shape, RestTyped
  <2> QED
    BY <2>1, RevsWane
<1>5. ASSUME NEW t \in Tasks, Skip(t)
      PROVE  RevsOK'
  BY <1>5, RevsWane DEF Skip, durable, RowsWane
<1>6. ASSUME NEW x \in Executions, NEW t \in Tasks, Fire(x, t)
      PROVE  RevsOK'
  <2>1. Moves(x) /\ exec'[x] = Call(t, TRUE, "called")
    BY <1>6, FireKeeps
  <2>2. exec'[x].seen = rows[t] /\ exec'[x].task = t
    BY <2>1 DEF Call, IdleExecution
  <2>3. UNCHANGED <<rows, saves>>
    BY <1>6 DEF Fire, durable
  <2> QED
    BY <2>1, <2>2, <2>3, RevsSeen DEF Sees, RowsWane
<1>7. ASSUME NEW x \in Executions, NEW t \in Tasks, RunNow(x, t)
      PROVE  RevsOK'
  <2>1. Moves(x) /\ exec'[x] = Call(t, FALSE, "asked")
    BY <1>7, RunNowKeeps
  <2>2. exec'[x].seen = rows[t] /\ exec'[x].task = t
    BY <2>1 DEF Call, IdleExecution
  <2>3. UNCHANGED <<rows, saves>>
    BY <1>7 DEF RunNow, durable, history
  <2> QED
    BY <2>1, <2>2, <2>3, RevsSeen DEF Sees, RowsWane
<1>8. ASSUME NEW x \in Executions, Proceed(x)
      PROVE  RevsOK'
  BY <1>8, ProceedSees, RevsSeen
<1>9. ASSUME NEW H \in SUBSET Handlers, Restart(H)
      PROVE  RevsOK'
  <2>1. \A x \in Executions : exec'[x].seen = None
    BY <1>9 DEF Restart, IdleExecution
  <2>2. UNCHANGED saves
    BY <1>9 DEF Restart
  <2>3. \A t \in Tasks : rows'[t] # None => rows[t] # None /\ rows'[t].rev = rows[t].rev
    BY <1>9, RestartedRows
  <2> QED
    BY <2>1, <2>2, <2>3 DEF RevsOK
<1> QED
  BY <1>1, <1>2, <1>3, <1>4, <1>5, <1>6, <1>7, <1>8, <1>9 DEF Next

\* x will start a once task for the schedule, or has started it and not yet disabled it.
Pending(x) ==
    /\ exec[x].seen # None /\ Consumes(exec[x])
    /\ \/ exec[x].pc = "reading" /\ MayRun(exec[x])
       \/ exec[x].pc \in {"adding", "marking"}
Spending(x) == exec[x].pc \in {"handling", "recording"} /\ Consumes(exec[x])

StartsBounded == \A r \in 1..MaxSaves : starts[r] <= 1 + cut[r] /\ (r > saves => starts[r] = 0)
PendingOK == \A x \in Executions : Pending(x) => starts[exec[x].seen.rev] <= cut[exec[x].seen.rev]
SpentOK ==
    \A t \in Tasks :
        /\ rows[t] # None /\ rows[t].def.enabled
        /\ starts[rows[t].rev] > cut[rows[t].rev]
        => \E x \in Executions : Spending(x) /\ exec[x].seen.rev = rows[t].rev

StartsOK == StartsBounded /\ PendingOK /\ SpentOK

\* Nothing is started, and nothing that was started goes unfinished.
LEMMA StartsKept ==
    ASSUME Shape, StartsOK, NEW x \in Executions, Moves(x), RowsWane, UNCHANGED <<saves, starts, cut>>,
           Pending(x)' => starts[exec'[x].seen.rev] <= cut[exec'[x].seen.rev],
           Spending(x) => Spending(x)' /\ exec'[x].seen = exec[x].seen
    PROVE  StartsOK'
<1>1. \A y \in Executions \ {x} : exec'[y] = exec[y]
  BY OthersEqual
<1>2. StartsBounded'
  BY DEF StartsOK, StartsBounded
<1>3. PendingOK'
  <2>1. \A y \in Executions \ {x} : Pending(y)' <=> Pending(y)
    BY <1>1 DEF Pending, Consumes, MayRun
  <2> QED
    BY <1>1, <2>1 DEF StartsOK, PendingOK
<1>4. SpentOK'
  <2>1. \A y \in Executions : Spending(y) => Spending(y)' /\ exec'[y].seen = exec[y].seen
    BY <1>1 DEF Spending, Consumes
  <2> QED
    BY <2>1 DEF StartsOK, SpentOK, RowsWane
<1> QED
  BY <1>2, <1>3, <1>4 DEF StartsOK

LEMMA StartsSame ==
    ASSUME StartsOK, RowsWane, UNCHANGED <<exec, saves, starts, cut>>
    PROVE  StartsOK'
<1>1. \A y \in Executions : (Pending(y)' <=> Pending(y)) /\ (Spending(y)' <=> Spending(y))
  BY DEF Pending, Spending, Consumes, MayRun
<1> QED
  BY <1>1 DEF StartsOK, StartsBounded, PendingOK, SpentOK, RowsWane

LEMMA StartsWritten ==
    ASSUME Shape, Shape', StartsOK, NEW t \in Tasks, RowWritten(t), UNCHANGED <<exec, starts, cut>>
    PROVE  StartsOK'
<1>1. \A y \in Executions : (Pending(y)' <=> Pending(y)) /\ (Spending(y)' <=> Spending(y))
  BY DEF Pending, Spending, Consumes, MayRun
<1>2. saves \in Nat /\ saves' \in 1..MaxSaves /\ saves' = saves + 1
  BY BoundsAssumption DEF Shape, RestTyped, RowWritten
<1>3. starts[saves'] = 0 /\ cut[saves'] \in Nat
  <2>1. saves' > saves
    BY <1>2
  <2>2. starts[saves'] = 0
    BY <1>2, <2>1 DEF StartsOK, StartsBounded
  <2> QED
    BY <1>2, <2>2 DEF Shape, RestTyped
<1>4. ~(starts'[rows'[t].rev] > cut'[rows'[t].rev])
  BY <1>3 DEF RowWritten
<1>5. SpentOK'
  BY <1>1, <1>4 DEF StartsOK, SpentOK, RowWritten
<1>6. StartsBounded' /\ PendingOK'
  BY <1>1, <1>2 DEF StartsOK, StartsBounded, PendingOK
<1> QED
  BY <1>5, <1>6 DEF StartsOK

\* The row is read: if its task had been started, an execution of the schedule would be
\* about to disable it, and x is the only one.
LEMMA StartsRead ==
    ASSUME Shape, OneScheduled, RevsOK, StartsOK, NEW x \in Executions, TakePermit(x)
    PROVE  StartsOK'
<1>1. /\ Moves(x) /\ To(x, "reading") /\ exec'[x].seen = rows[exec[x].task]
      /\ UNCHANGED <<rows, saves, starts, cut>> /\ exec[x].pc = "queued" /\ RowsWane
  BY TakePermitKeeps DEF TakePermit, durable, history, RowsWane
<1> DEFINE t == exec[x].task
<1>2. t \in Tasks
  BY <1>1 DEF Shape, RestTyped, ExecutionsOK, ExecutionOK
<1>3. ~Spending(x)
  BY <1>1 DEF Spending
<1>4. ASSUME Pending(x)', ~(starts[rows[t].rev] <= cut[rows[t].rev])
      PROVE  FALSE
  <2>1. rows[t] # None /\ rows[t].def.enabled /\ exec[x].scheduled
    BY <1>1, <1>4 DEF Pending, Consumes, MayRun, To
  <2>2. rows[t].rev \in 1..MaxSaves
    BY <1>2, <2>1 DEF Shape, RestTyped, Row
  <2>3. starts[rows[t].rev] > cut[rows[t].rev]
    BY <1>4, <2>2 DEF Shape, RestTyped
  <2>4. PICK y \in Executions : Spending(y) /\ exec[y].seen.rev = rows[t].rev
    BY <1>2, <2>1, <2>3 DEF StartsOK, SpentOK
  <2>5. exec[y].scheduled /\ exec[y].seen # None
    BY <2>4 DEF Spending, Consumes, Shape, ExecutionsOK, ExecutionOK, Opened
  <2>6. exec[y].task = t
    BY <1>2, <2>1, <2>4, <2>5 DEF RevsOK
  <2> QED
    BY <1>3, <2>1, <2>4, <2>5, <2>6 DEF OneScheduled
<1> QED
  BY <1>1, <1>3, <1>4, StartsKept

LEMMA StartsStart ==
    ASSUME Shape, OneScheduled, RevsOK, StartsOK, NEW x \in Executions, StartHandler(x)
    PROVE  StartsOK'
<1>1. /\ Moves(x) /\ To(x, "handling") /\ exec'[x].seen = exec[x].seen
      /\ UNCHANGED <<rows, saves, cut>> /\ exec[x].pc = "marking" /\ RowsWane
  BY StartHandlerKeeps DEF StartHandler, durable, RowsWane
<1>2. ~Pending(x)'
  BY <1>1 DEF Pending, To
<1>3. CASE ~Consumes(exec[x])
  <2>1. UNCHANGED starts
    BY <1>3 DEF StartHandler
  <2>2. ~Spending(x)
    BY <1>3 DEF Spending
  <2> QED
    BY <1>1, <1>2, <2>1, <2>2, StartsKept
<1>4. CASE Consumes(exec[x])
  <2> DEFINE r == exec[x].seen.rev
  <2>1. starts' = [starts EXCEPT ![r] = @ + 1]
    BY <1>4 DEF StartHandler
  <2>2. exec[x].seen \in Row /\ r \in 1..MaxSaves
    BY <1>1 DEF Shape, RestTyped, ExecutionsOK, ExecutionOK, Opened, Execution, Row
  <2>3. exec[x].seen # None /\ Pending(x)
    BY <1>1, <1>4, <2>2, NotNoneAssumption DEF Pending
  <2>4. starts[r] <= cut[r] /\ starts[r] \in Nat /\ cut[r] \in Nat /\ r <= saves
    BY <2>2, <2>3 DEF StartsOK, PendingOK, Shape, RestTyped, RevsOK
  <2>5. starts'[r] = starts[r] + 1 /\ \A q \in 1..MaxSaves \ {r} : starts'[q] = starts[q]
    BY <2>1, <2>2 DEF Shape, RestTyped
  <2>6. \A y \in Executions \ {x} : exec'[y] = exec[y]
    BY <1>1, OthersEqual
  <2>7. StartsBounded'
    <3> saves \in Nat /\ r \in Nat
      BY <2>2, BoundsAssumption DEF Shape, RestTyped
    <3>1. starts'[r] <= 1 + cut[r] /\ ~(r > saves)
      BY <2>4, <2>5
    <3> HIDE DEF r
    <3> QED
      BY <1>1, <2>5, <3>1 DEF StartsOK, StartsBounded
  <2>8. PendingOK'
    <3> SUFFICES ASSUME NEW y \in Executions, Pending(y)'
                 PROVE  starts'[exec'[y].seen.rev] <= cut[exec'[y].seen.rev]
      BY <1>1 DEF PendingOK
    <3>1. y # x /\ exec'[y] = exec[y]
      BY <1>2, <2>6
    <3>2. Pending(y) /\ exec[y].seen # None /\ exec[y].scheduled
      BY <3>1 DEF Pending, Consumes, MayRun
    <3>3. exec[y].seen.rev # r
      <4>1. exec[y].seen.rev = r => exec[y].task = exec[x].task
        BY <2>3, <3>2 DEF RevsOK
      <4> QED
        BY <1>4, <3>1, <3>2, <4>1 DEF OneScheduled, Consumes
    <3>4. exec[y].seen.rev \in 1..MaxSaves
      BY <3>2 DEF Shape, RestTyped, Execution, Row
    <3> QED
      BY <2>5, <3>1, <3>2, <3>3, <3>4 DEF StartsOK, PendingOK
  <2>9. SpentOK'
    <3> SUFFICES ASSUME NEW t \in Tasks, rows[t] # None, rows[t].def.enabled,
                        starts'[rows[t].rev] > cut[rows[t].rev]
                 PROVE  \E y \in Executions : Spending(y)' /\ exec'[y].seen.rev = rows[t].rev
      BY <1>1 DEF SpentOK
    <3>1. CASE rows[t].rev = r
      <4>1. Spending(x)'
        BY <1>1, <1>4 DEF Spending, Consumes, To
      <4> QED
        BY <1>1, <3>1, <4>1
    <3>2. CASE rows[t].rev # r
      <4>1. rows[t].rev \in 1..MaxSaves
        BY DEF Shape, RestTyped, Row
      <4>2. starts[rows[t].rev] > cut[rows[t].rev]
        BY <2>5, <3>2, <4>1
      <4>3. PICK y \in Executions : Spending(y) /\ exec[y].seen.rev = rows[t].rev
        BY <4>2 DEF StartsOK, SpentOK
      <4>4. y # x /\ exec'[y] = exec[y]
        BY <1>1, <2>6, <4>3 DEF Spending
      <4> QED
        BY <4>3, <4>4 DEF Spending, Consumes
    <3> QED
      BY <3>1, <3>2
  <2> QED
    BY <2>7, <2>8, <2>9 DEF StartsOK
<1> QED
  BY <1>3, <1>4

\* x is over: if it had started a once task, the row of that task is disabled or gone.
LEMMA StartsOver ==
    ASSUME Shape, RevsOK, StartsOK, NEW x \in Executions, Moves(x), RowsWane,
           UNCHANGED <<saves, starts, cut>>, ~Pending(x)',
           Spending(x) => ~(rows'[exec[x].task] # None /\ rows'[exec[x].task].def.enabled)
    PROVE  StartsOK'
<1>1. \A y \in Executions \ {x} : exec'[y] = exec[y]
  BY OthersEqual
<1>2. StartsBounded'
  BY DEF StartsOK, StartsBounded
<1>3. PendingOK'
  <2>1. \A y \in Executions \ {x} : Pending(y)' <=> Pending(y)
    BY <1>1 DEF Pending, Consumes, MayRun
  <2> QED
    BY <1>1, <2>1 DEF StartsOK, PendingOK
<1>4. SpentOK'
  <2> SUFFICES ASSUME NEW t \in Tasks, rows'[t] # None, rows'[t].def.enabled,
                      starts[rows'[t].rev] > cut[rows'[t].rev]
               PROVE  \E y \in Executions : Spending(y)' /\ exec'[y].seen.rev = rows'[t].rev
    BY DEF SpentOK
  <2>1. rows[t] # None /\ rows[t].def.enabled /\ rows'[t].rev = rows[t].rev
    BY DEF RowsWane
  <2>2. PICK y \in Executions : Spending(y) /\ exec[y].seen.rev = rows[t].rev
    BY <2>1 DEF StartsOK, SpentOK
  <2>3. exec[y].seen # None
    BY <2>2 DEF Spending, Shape, ExecutionsOK, ExecutionOK, Opened
  <2>4. exec[y].task = t
    BY <2>1, <2>2, <2>3 DEF RevsOK
  <2>5. y # x
    BY <2>2, <2>4
  <2> QED
    BY <1>1, <2>1, <2>2, <2>5 DEF Spending, Consumes
<1> QED
  BY <1>2, <1>3, <1>4 DEF StartsOK

LEMMA StartsRestart ==
    ASSUME Shape, StartsOK, NEW H \in SUBSET Handlers, Restart(H)
    PROVE  StartsOK'
<1>1. \A x \in Executions : exec'[x] = IdleExecution
  BY DEF Restart
<1>2. PendingOK'
  BY <1>1 DEF PendingOK, Pending, IdleExecution
<1>3. UNCHANGED <<starts, saves>>
  BY DEF Restart
<1>4. ASSUME NEW r \in 1..MaxSaves
      PROVE  /\ cut'[r] \in Nat /\ cut[r] \in Nat /\ starts[r] \in Nat /\ cut[r] <= cut'[r]
             /\ InterruptedOf(r) # {} => cut[r] + 1 <= cut'[r]
  <2>1. cut'[r] = cut[r] + Cardinality(InterruptedOf(r))
    BY RestartCounts
  <2>2. cut[r] \in Nat /\ starts[r] \in Nat /\ Cardinality(InterruptedOf(r)) \in Nat
    BY CountedFinite DEF Shape, RestTyped
  <2>3. InterruptedOf(r) # {} => Cardinality(InterruptedOf(r)) # 0
    BY CountedFinite, FS_EmptySet
  <2> QED
    BY <2>1, <2>2, <2>3
<1>5. StartsBounded'
  <2> SUFFICES ASSUME NEW r \in 1..MaxSaves
               PROVE  starts[r] <= 1 + cut'[r] /\ (r > saves => starts[r] = 0)
    BY <1>3 DEF StartsBounded
  <2>1. starts[r] <= 1 + cut[r] /\ (r > saves => starts[r] = 0)
    BY DEF StartsOK, StartsBounded
  <2> QED
    BY <1>4, <2>1
<1>6. SpentOK'
  <2> SUFFICES ASSUME NEW t \in Tasks, rows'[t] # None, rows'[t].def.enabled,
                      starts[rows'[t].rev] > cut'[rows'[t].rev]
               PROVE  FALSE
    BY <1>3 DEF SpentOK
  <2> DEFINE r == rows[t].rev
  <2>1. rows[t] # None /\ rows[t].def.enabled /\ rows'[t].rev = r
    BY RestartedRows
  <2>2. r \in 1..MaxSaves
    BY <2>1 DEF Shape, RestTyped, Row
  <2>3. starts[r] > cut[r]
    BY <1>4, <2>1, <2>2
  <2>4. PICK y \in Executions : Spending(y) /\ exec[y].seen.rev = r
    BY <2>1, <2>3 DEF StartsOK, SpentOK
  <2>5. y \in InterruptedOf(r)
    BY <2>4 DEF Spending, InterruptedOf
  <2>6. starts[r] <= 1 + cut[r]
    BY <2>2 DEF StartsOK, StartsBounded
  <2> HIDE DEF r
  <2> QED
    BY <1>4, <2>1, <2>2, <2>5, <2>6
<1> QED
  BY <1>2, <1>5, <1>6 DEF StartsOK

LEMMA StartsProceed ==
    ASSUME Shape, OneScheduled, RevsOK, StartsOK, NEW x \in Executions, Proceed(x)
    PROVE  StartsOK'
<1>1. Moves(x) /\ RowsWane /\ UNCHANGED <<saves, cut>>
  BY ProceedSees
<1>2. CASE Asked(x)
  <2>1. UNCHANGED starts /\ exec[x].pc = "asked"
    BY <1>2 DEF Asked, history
  <2> QED
    BY <1>1, <1>2, <2>1, AskedPlace, StartsKept DEF Pending, Spending
<1>3. CASE Enter(x)
  <2>1. UNCHANGED starts
    BY <1>3 DEF Enter, history
  <2> QED
    BY <1>1, <1>3, <2>1, EnterPlace, StartsKept DEF Pending, Spending
<1>4. CASE TakeLock(x)
  <2>1. UNCHANGED starts /\ exec[x].pc = "waiting"
    BY <1>4 DEF TakeLock, history
  <2> QED
    BY <1>1, <1>4, <2>1, TakeLockKeeps, StartsKept DEF Pending, Spending, To
<1>5. CASE TakePermit(x)
  BY <1>5, StartsRead
<1>6. CASE Withdraw(x)
  <2>1. UNCHANGED starts /\ exec[x].pc = "reading"
    BY <1>6 DEF Withdraw, history
  <2> QED
    BY <1>1, <1>6, <2>1, WithdrawKeeps, StartsKept DEF Pending, Spending
<1>7. CASE Unavailable(x)
  <2>1. UNCHANGED starts /\ exec[x].pc = "reading"
    BY <1>7 DEF Unavailable, history
  <2> QED
    BY <1>1, <1>7, <2>1, UnavailableKeeps, StartsKept DEF Pending, Spending
<1>8. CASE RecordStart(x)
  <2>1. UNCHANGED starts /\ exec[x].pc = "reading" /\ MayRun(exec[x])
    BY <1>8 DEF RecordStart, history
  <2>2. Moves(x) /\ \/ To(x, "adding") /\ exec'[x].seen = exec[x].seen
                    \/ exec'[x].seen = None
    BY <1>8, RecordStartKeeps
  <2>3. Pending(x)' => Pending(x) /\ exec'[x].seen = exec[x].seen
    BY <2>1, <2>2 DEF Pending, Consumes, To
  <2>4. ~Spending(x)
    BY <2>1 DEF Spending
  <2> QED
    BY <1>1, <2>1, <2>3, <2>4, StartsKept DEF StartsOK, PendingOK
<1>9. CASE MarkRunning(x)
  <2>1. UNCHANGED starts /\ exec[x].pc = "adding"
    BY <1>9 DEF MarkRunning, history
  <2>2. To(x, "marking") /\ exec'[x].seen = exec[x].seen
    BY <1>9, MarkRunningKeeps
  <2>3. Pending(x)' => Pending(x)
    BY <2>1, <2>2 DEF Pending, Consumes, To
  <2>4. ~Spending(x)
    BY <2>1 DEF Spending
  <2> QED
    BY <1>1, <2>1, <2>2, <2>3, <2>4, StartsKept DEF StartsOK, PendingOK
<1>10. CASE StartHandler(x)
  BY <1>10, StartsStart
<1>11. ASSUME NEW result \in Results, EndHandler(x, result)
       PROVE  StartsOK'
  <2>1. UNCHANGED <<rows, starts>> /\ exec[x].pc = "handling"
    BY <1>11 DEF EndHandler, history
  <2>2. CASE rows[exec[x].task] # None
    <3>1. To(x, "recording") /\ exec'[x].seen = exec[x].seen
      BY <1>11, <2>2, EndHandlerKeeps
    <3> QED
      BY <1>1, <2>1, <3>1, StartsKept DEF Pending, Spending, Consumes, To
  <2>3. CASE rows[exec[x].task] = None
    <3>1. exec'[x].seen = None
      BY <1>11, <2>3, EndHandlerKeeps
    <3> QED
      BY <1>1, <2>1, <2>3, <3>1, StartsOver DEF Pending
  <2> QED
    BY <2>2, <2>3
<1>12. CASE Finish(x)
  <2>1. UNCHANGED starts /\ exec[x].pc = "recording" /\ exec'[x].seen = None
    BY <1>12, FinishKeeps DEF Finish, history
  <2>2. exec[x].task \in Tasks
    BY <2>1 DEF Shape, RestTyped, ExecutionsOK, ExecutionOK
  <2>3. Spending(x) => ~(rows'[exec[x].task] # None /\ rows'[exec[x].task].def.enabled)
    BY <1>12, <2>2, FinishedRow DEF Spending
  <2> QED
    BY <1>1, <2>1, <2>3, StartsOver DEF Pending
<1>13. CASE Leave(x)
  <2>1. UNCHANGED starts /\ exec[x].pc = "leaving"
    BY <1>13 DEF Leave, history
  <2>2. exec'[x].seen = None
    BY <1>13, LeaveKeeps DEF IdleExecution
  <2> QED
    BY <1>1, <2>1, <2>2, StartsKept DEF Pending, Spending
<1> QED
  BY <1>2, <1>3, <1>4, <1>5, <1>6, <1>7, <1>8, <1>9, <1>10, <1>11, <1>12, <1>13 DEF Proceed

LEMMA StartsNext ==
    ASSUME Shape, Shape', OneScheduled, RevsOK, StartsOK, Next
    PROVE  StartsOK'
<1>1. ASSUME NEW u \in Savers, NEW t \in Tasks, NEW def \in Saved, Create(u, t, def)
      PROVE  StartsOK'
  BY <1>1, CreateWrites, StartsWritten
<1>2. ASSUME NEW u \in Savers, NEW t \in Tasks, NEW def \in Saved, BeginUpdate(u, t, def)
      PROVE  StartsOK'
  BY <1>2, StartsSame DEF BeginUpdate, durable, history, RowsWane
<1>3. ASSUME NEW u \in Savers, SaveStep(u)
      PROVE  StartsOK'
  BY <1>3, SaveWrites, StartsSame, StartsWritten
<1>4. ASSUME NEW t \in Tasks, Delete(t)
      PROVE  StartsOK'
  <2>1. UNCHANGED <<exec, saves, starts, cut>> /\ RowsWane
    BY <1>4 DEF Delete, history, RowsWane, Shape, RestTyped
  <2> QED
    BY <2>1, StartsSame
<1>5. ASSUME NEW t \in Tasks, Skip(t)
      PROVE  StartsOK'
  BY <1>5, StartsSame DEF Skip, durable, RowsWane
<1>6. ASSUME NEW x \in Executions, NEW t \in Tasks, Fire(x, t)
      PROVE  StartsOK'
  <2>1. Moves(x) /\ exec'[x].pc = "called"
    BY <1>6, FireKeeps DEF Call, IdleExecution
  <2>2. UNCHANGED <<rows, saves, starts, cut>> /\ exec[x].pc = "idle"
    BY <1>6 DEF Fire, durable
  <2> QED
    BY <2>1, <2>2, StartsKept DEF Pending, Spending, RowsWane
<1>7. ASSUME NEW x \in Executions, NEW t \in Tasks, RunNow(x, t)
      PROVE  StartsOK'
  <2>1. Moves(x) /\ exec'[x].pc = "asked"
    BY <1>7, RunNowKeeps DEF Call, IdleExecution
  <2>2. UNCHANGED <<rows, saves, starts, cut>> /\ exec[x].pc = "idle"
    BY <1>7 DEF RunNow, durable, history
  <2> QED
    BY <2>1, <2>2, StartsKept DEF Pending, Spending, RowsWane
<1> QED
  BY <1>1, <1>2, <1>3, <1>4, <1>5, <1>6, <1>7, StartsProceed, StartsRestart DEF Next

------------------------------------------------------------------------------
(* The inductive invariant *)

IInv ==
    /\ Shape
    /\ Locking
    /\ PermitsOK
    /\ RecordsOK
    /\ StatusOK
    /\ OneScheduled
    /\ RevsOK
    /\ StartsOK

LEMMA ShapeNext ==
    ASSUME Shape, Next
    PROVE  Shape'
<1>1. ASSUME NEW x \in Executions, Proceed(x)
      PROVE  Shape'
  BY <1>1, AskedKeeps, EnterKeeps, TakeLockKeeps, TakePermitKeeps, WithdrawKeeps, UnavailableKeeps,
     RecordStartKeeps, MarkRunningKeeps, StartHandlerKeeps, EndHandlerKeeps, FinishKeeps, LeaveKeeps
     DEF Proceed
<1>2. ASSUME NEW u \in Savers, SaveStep(u)
      PROVE  Shape'
  BY <1>2, WriteKeeps, RereadKeeps, RescheduleKeeps DEF SaveStep
<1> QED
  BY <1>1, <1>2, CreateKeeps, BeginUpdateKeeps, DeleteKeeps, SkipKeeps, FireKeeps, RunNowKeeps,
     RestartKeeps DEF Next

LEMMA InitInv ==
    Init => IInv
<1> SUFFICES ASSUME Init PROVE IInv
  OBVIOUS
<1>1. Shape
  BY InitShape
<1>2. \A x \in Executions : exec[x] = IdleExecution
  BY DEF Init
<1>3. /\ \A x \in Executions : /\ exec[x].pc = "idle" /\ exec[x].seen = None /\ exec[x].lock = None
                               /\ ~exec[x].scheduled
      /\ \A t \in Tasks : rows[t] = None
  BY <1>2 DEF Init, IdleExecution
<1>4. Locking /\ StatusOK /\ OneScheduled /\ RevsOK
  BY <1>3 DEF Locking, Current, Exclusive, SameLock, Live, Holding, Opened, StatusOK, OneScheduled, RevsOK
<1>5. PermitsOK
  <2>1. PermitOf = {}
    BY <1>3 DEF PermitOf, Permitted, Holding
  <2> QED
    BY <2>1, FS_EmptySet, BoundsAssumption DEF PermitsOK, Init
<1>6. RecordsOK
  BY <1>3 DEF RecordsOK, Init
<1>7. StartsOK
  <2>1. PendingOK /\ SpentOK
    BY <1>3 DEF PendingOK, SpentOK, Pending
  <2>2. StartsBounded
    BY DEF StartsBounded, Init
  <2> QED
    BY <2>1, <2>2 DEF StartsOK
<1> QED
  BY <1>1, <1>4, <1>5, <1>6, <1>7 DEF IInv

LEMMA StutterInv ==
    IInv /\ UNCHANGED vars => IInv'
<1> SUFFICES ASSUME IInv, UNCHANGED vars PROVE IInv'
  OBVIOUS
<1>1. UNCHANGED <<rows, openRuns, doneRuns, registered, jobs, locks, held, permits, exec, saver,
                  order, created, saves, stops, passed, starts, cut, lost, interrupted, budget>>
  BY DEF vars, durable, memory, history
<1>2. Shape'
  BY <1>1 DEF IInv, Shape, RestTyped, ExecutionsOK, ExecutionOK, SaversOK, RowsOK, Holding, Opened,
     IdleExecution
<1>3. Locking'
  BY <1>1, LockingSame DEF IInv, NoNewRow
<1>4. PermitsOK'
  BY <1>1, PermitsSame DEF IInv
<1>5. RecordsOK'
  BY <1>1, RecordsKept DEF IInv
<1>6. StatusOK'
  BY <1>1, StatusSame DEF IInv, NoNewRunning
<1>7. OneScheduled'
  BY <1>1 DEF IInv, OneScheduled
<1>8. RevsOK'
  BY <1>1, RevsWane DEF IInv, RowsWane
<1>9. StartsOK'
  BY <1>1, StartsSame DEF IInv, RowsWane
<1> QED
  BY <1>2, <1>3, <1>4, <1>5, <1>6, <1>7, <1>8, <1>9 DEF IInv

\* IInv holds from the start and every step of the scheduler keeps it.
THEOREM Inductive == Spec => []IInv
<1>1. Init => IInv
  BY InitInv
<1>2. IInv /\ [Next]_vars => IInv'
  <2> SUFFICES ASSUME IInv, [Next]_vars PROVE IInv'
    OBVIOUS
  <2>1. CASE Next
    <3>1. Shape'
      BY <2>1, ShapeNext DEF IInv
    <3>2. Locking' /\ PermitsOK' /\ RecordsOK' /\ StatusOK' /\ OneScheduled' /\ RevsOK'
      BY <2>1, LockingNext, PermitsNext, RecordsNext, StatusNext, ScheduledNext, RevsNext DEF IInv
    <3>3. StartsOK'
      BY <2>1, <3>1, StartsNext DEF IInv
    <3> QED
      BY <3>1, <3>2, <3>3 DEF IInv
  <2>2. CASE UNCHANGED vars
    BY <2>2, StutterInv
  <2> QED
    BY <2>1, <2>2
<1> QED
  BY <1>1, <1>2, PTL DEF Spec

\* Every variable keeps its type; in particular no permit is released that was not taken
\* and no record is closed that was not open.
THEOREM TypeCorrect == Spec => []TypeOK
<1>1. IInv => TypeOK
  <2> SUFFICES ASSUME IInv PROVE TypeOK
    OBVIOUS
  <2>1. permits \in 0..MaxConcurrency
    <3>1. PermitOf \in SUBSET Executions
      BY DEF PermitOf
    <3>2. Cardinality(PermitOf) \in Nat
      BY <3>1, ExecutionsAssumption, FS_Subset, FS_CardinalityType
    <3> QED
      BY <3>2, BoundsAssumption DEF IInv, PermitsOK
  <2>2. openRuns \in [Tasks -> Nat]
    <3>1. openRuns \in [Tasks -> Int] /\ lost \in [Tasks -> Nat]
      BY DEF IInv, Shape, RestTyped
    <3>2. ASSUME NEW t \in Tasks PROVE openRuns[t] \in Nat
      <4>1. lost[t] \in Nat /\ Cardinality(OpenOf(t)) \in Nat
        BY <3>1, CountedFinite
      <4>2. openRuns[t] = 0 \/ openRuns[t] = Cardinality(OpenOf(t)) + lost[t]
        BY DEF IInv, RecordsOK
      <4> QED
        BY <4>1, <4>2
    <3> QED
      BY <3>1, <3>2
  <2> QED
    BY <2>1, <2>2 DEF IInv, Shape, RestTyped, TypeOK
<1> QED
  BY <1>1, Inductive, PTL

\* The handler of a task never runs twice at a time (_execute, delete and restarts).
THEOREM NeverOverlaps == Spec => []NoOverlap
<1>1. IInv => NoOverlap
  <2> SUFFICES ASSUME IInv, NEW x \in Handling, NEW y \in Handling, exec[x].task = exec[y].task
               PROVE  x = y
    BY DEF NoOverlap
  <2>1. x \in Executions /\ y \in Executions /\ exec[x].pc = "handling" /\ exec[y].pc = "handling"
    BY DEF Handling
  <2>2. exec[x].lock = exec[y].lock
    BY <2>1 DEF IInv, Locking, SameLock, Live, Opened
  <2> QED
    BY <2>1, <2>2 DEF IInv, Locking, Exclusive, Holding
<1> QED
  BY <1>1, Inductive, PTL

\* No record of a deleted task is left or comes back (delete against _execute_locked).
THEOREM DeletionIsFinal == Spec => []DeletedLeavesNothing
<1>1. IInv => DeletedLeavesNothing
  BY DEF IInv, RecordsOK, DeletedLeavesNothing
<1> QED
  BY <1>1, Inductive, PTL

\* A record or a row that says RUNNING is backed by an execution, but for restarts.
THEOREM RunningIsTrue == Spec => []RunningTellsTheTruth
<1>1. IInv => RunningTellsTheTruth
  <2> SUFFICES ASSUME IInv, NEW t \in Tasks, rows[t] # None
               PROVE  LET In(pcs) == {x \in Executions : exec[x].task = t /\ exec[x].pc \in pcs}
                      IN  /\ openRuns[t] = Cardinality(In({"adding", "marking", "handling"})) + lost[t]
                          /\ rows[t].status = "running" =>
                                In({"marking", "handling", "recording"}) # {} \/ t \in interrupted
    BY DEF RunningTellsTheTruth
  <2> DEFINE In(pcs) == {x \in Executions : exec[x].task = t /\ exec[x].pc \in pcs}
  <2>1. In({"adding", "marking", "handling"}) = OpenOf(t)
    BY DEF OpenOf, Opened
  <2>2. openRuns[t] = Cardinality(In({"adding", "marking", "handling"})) + lost[t]
    BY <2>1 DEF IInv, RecordsOK
  <2>3. rows[t].status = "running" => In({"marking", "handling", "recording"}) # {} \/ t \in interrupted
    BY DEF IInv, StatusOK, Marked
  <2> QED
    BY <2>2, <2>3
<1> QED
  BY <1>1, Inductive, PTL

\* The schedule starts a once task once more only for each restart that cut a start short.
THEOREM OnceIsOnce == Spec => []OnceStartsOnce
<1>1. IInv => OnceStartsOnce
  BY DEF IInv, StartsOK, StartsBounded, OnceStartsOnce
<1> QED
  BY <1>1, Inductive, PTL

------------------------------------------------------------------------------
(***************************************************************************)
(* EnabledIsScheduled.                                                     *)
(*                                                                         *)
(* The argument: savers answer in the order of their writes, so that the   *)
(* last of those that wrote a task is the last to schedule it; and it      *)
(* schedules the row that it read again, which is the row of the task      *)
(* still, unless that was deleted or disabled since.                       *)
(***************************************************************************)

\* A saver that has written a row and not yet scheduled it.
Saving(u) == saver[u].pc \in {"written", "reread"}

\* The order has the savers at work, each of them once.
OrderOK ==
    /\ \A i \in 1..Len(order) : Saving(order[i])
    /\ \A i, j \in 1..Len(order) : order[i] = order[j] => i = j

\* No later saver of its task stands behind the one at i.
LastOf(i) ==
    \A j \in 1..Len(order) : i < j => saver[order[j]].task # saver[order[i]].task

\* The last saver of a task has seen what it is going to schedule.
SeesRow(u) ==
    LET row == rows[saver[u].task]
    IN  row # None /\ row.def.enabled =>
            saver[u].seen # None /\ saver[u].seen.def = row.def /\ saver[u].seen.rev = row.rev
LastSeesRow ==
    \A i \in 1..Len(order) :
        saver[order[i]].pc = "reread" /\ LastOf(i) => SeesRow(order[i])

JInv == OrderOK /\ LastSeesRow /\ EnabledIsScheduled

------------------------------------------------------------------------------
\* No row is new, and an enabled one is as it was, but for its status.
RowsStay ==
    \A t \in Tasks : rows'[t] # None /\ rows'[t].def.enabled =>
        rows[t] # None /\ rows'[t].def = rows[t].def /\ rows'[t].rev = rows[t].rev

\* The job of an enabled task stays, unless it was a once job and its time has come.
JobsStay ==
    \A t \in Tasks : rows'[t] # None /\ rows'[t].def.enabled =>
        \/ jobs'[t] = jobs[t]
        \/ jobs[t] # None /\ jobs[t].kind = "once" /\ jobs[t].rev \in passed'

LEMMA Ordered ==
    ASSUME Shape, OrderOK, NEW i \in 1..Len(order)
    PROVE  /\ order[i] \in Savers /\ Saving(order[i])
           /\ saver[order[i]].task \in Tasks
<1>1. order[i] \in Savers
  BY DEF Shape, RestTyped
<1>2. Saving(order[i])
  BY DEF OrderOK
<1>3. saver[order[i]].task \in created /\ created \subseteq Tasks
  BY <1>1, <1>2 DEF Shape, RestTyped, SaversOK, Saving
<1> QED
  BY <1>1, <1>2, <1>3

\* Nothing but the rows and the jobs changes, and those stay.
LEMMA JobsKept ==
    ASSUME Shape, JInv, RowsStay, JobsStay, UNCHANGED <<saver, order, registered>>,
           passed \subseteq passed'
    PROVE  JInv'
<1>1. OrderOK'
  BY DEF JInv, OrderOK, Saving
<1>2. LastSeesRow'
  <2> SUFFICES ASSUME NEW i \in 1..Len(order), saver[order[i]].pc = "reread", LastOf(i)'
               PROVE  SeesRow(order[i])'
    BY DEF LastSeesRow
  <2>1. SeesRow(order[i])
    BY DEF JInv, LastSeesRow, LastOf
  <2>2. saver[order[i]].task \in Tasks
    BY Ordered DEF JInv
  <2> QED
    BY <2>1, <2>2 DEF SeesRow, RowsStay
<1>3. EnabledIsScheduled'
  <2> SUFFICES ASSUME NEW t \in Tasks, rows'[t] # None, rows'[t].def.enabled,
                      rows'[t].def.handler \in registered,
                      \A u \in Savers : saver[u].task = t => saver[u].pc \notin {"written", "reread"}
               PROVE  \/ jobs'[t] = [kind |-> rows'[t].def.kind, rev |-> rows'[t].rev]
                      \/ rows'[t].def.kind = "once" /\ rows'[t].rev \in passed'
    BY DEF EnabledIsScheduled
  <2>1. rows[t] # None /\ rows'[t].def = rows[t].def /\ rows'[t].rev = rows[t].rev
    BY DEF RowsStay
  <2>2. \/ jobs[t] = [kind |-> rows[t].def.kind, rev |-> rows[t].rev]
        \/ rows[t].def.kind = "once" /\ rows[t].rev \in passed
    BY <2>1 DEF JInv, EnabledIsScheduled
  <2>3. \/ jobs'[t] = jobs[t]
        \/ jobs[t] # None /\ jobs[t].kind = "once" /\ jobs[t].rev \in passed'
    BY DEF JobsStay
  <2> QED
    BY <2>1, <2>2, <2>3
<1> QED
  BY <1>1, <1>2, <1>3 DEF JInv

\* A saver that has not written a row begins or gives up.
LEMMA JobsQuiet ==
    ASSUME Shape, JInv, NEW u \in Savers, ~Saving(u), NEW s,
           saver' = [saver EXCEPT ![u] = s], s.pc \notin {"written", "reread"},
           UNCHANGED <<rows, order, registered, passed>>,
           \A t \in Tasks : rows[t] # None => jobs'[t] = jobs[t]
    PROVE  JInv'
<1>1. \A v \in Savers : saver'[v] = IF v = u THEN s ELSE saver[v]
  BY DEF Shape, RestTyped
<1>2. \A i \in 1..Len(order) : order[i] \in Savers /\ order[i] # u
  BY Ordered DEF JInv
<1>3. \A i \in 1..Len(order) : saver'[order[i]] = saver[order[i]]
  BY <1>1, <1>2
<1>4. OrderOK'
  BY <1>3 DEF JInv, OrderOK, Saving
<1>5. LastSeesRow'
  BY <1>3 DEF JInv, LastSeesRow, LastOf, SeesRow
<1>6. \A v \in Savers : saver[v].pc \in {"written", "reread"} => saver'[v] = saver[v]
  BY <1>1 DEF Saving
<1>7. EnabledIsScheduled'
  BY <1>6 DEF JInv, EnabledIsScheduled
<1> QED
  BY <1>4, <1>5, <1>7 DEF JInv

\* A saver writes the row of t and joins the order.
LEMMA JobsWritten ==
    ASSUME Shape, JInv, NEW u \in Savers, ~Saving(u), NEW t \in Tasks, NEW s,
           saver' = [saver EXCEPT ![u] = s], s.pc = "written", s.task = t,
           order' = Append(order, u), UNCHANGED <<registered, passed>>,
           \A k \in Tasks \ {t} : rows'[k] = rows[k] /\ jobs'[k] = jobs[k]
    PROVE  JInv'
<1>1. \A v \in Savers : saver'[v] = IF v = u THEN s ELSE saver[v]
  BY DEF Shape, RestTyped
<1>2. \A i \in 1..Len(order) : /\ order[i] \in Savers /\ order[i] # u
                               /\ saver[order[i]].task \in Tasks
  BY Ordered DEF JInv
<1>3. /\ Len(order) \in Nat /\ Len(order') = Len(order) + 1
      /\ \A i \in 1..Len(order) : order'[i] = order[i]
      /\ order'[Len(order) + 1] = u
  BY DEF Shape, RestTyped
<1>4. \A i \in 1..Len(order') : i \in 1..Len(order) \/ i = Len(order) + 1
  BY <1>3
<1>5. \A i \in 1..Len(order) : i \in 1..Len(order') /\ saver'[order'[i]] = saver[order[i]]
  BY <1>1, <1>2, <1>3
<1>6. saver'[order'[Len(order) + 1]] = s
  BY <1>1, <1>3
<1>7. OrderOK'
  <2>1. \A i \in 1..Len(order') : Saving(order[i])'
    BY <1>4, <1>5, <1>6 DEF JInv, OrderOK, Saving
  <2>2. \A i, j \in 1..Len(order') : order'[i] = order'[j] => i = j
    BY <1>2, <1>3, <1>4 DEF JInv, OrderOK
  <2> QED
    BY <2>1, <2>2 DEF OrderOK, Saving
<1>8. LastSeesRow'
  <2> SUFFICES ASSUME NEW i \in 1..Len(order'), saver'[order'[i]].pc = "reread", LastOf(i)'
               PROVE  SeesRow(order[i])'
    BY DEF LastSeesRow
  <2>1. i \in 1..Len(order)
    BY <1>4, <1>6
  <2>2. Len(order) + 1 \in 1..Len(order') /\ i < Len(order) + 1
    BY <1>3, <2>1
  <2>3. saver[order[i]].task # t
    BY <1>5, <1>6, <2>1, <2>2 DEF LastOf
  <2>4. LastOf(i)
    BY <1>5, <2>1 DEF LastOf
  <2>5. SeesRow(order[i])
    BY <1>5, <2>1, <2>4 DEF JInv, LastSeesRow
  <2> QED
    BY <1>2, <1>5, <2>1, <2>3, <2>5 DEF SeesRow
<1>9. EnabledIsScheduled'
  <2> SUFFICES ASSUME NEW k \in Tasks, rows'[k] # None, rows'[k].def.enabled,
                      rows'[k].def.handler \in registered,
                      \A v \in Savers : saver'[v].task = k => saver'[v].pc \notin {"written", "reread"}
               PROVE  \/ jobs'[k] = [kind |-> rows'[k].def.kind, rev |-> rows'[k].rev]
                      \/ rows'[k].def.kind = "once" /\ rows'[k].rev \in passed
    BY DEF EnabledIsScheduled
  <2>1. k # t
    BY <1>1
  <2>2. \A v \in Savers : saver[v].task = k => saver[v].pc \notin {"written", "reread"}
    BY <1>1 DEF Saving
  <2> QED
    BY <2>1, <2>2 DEF JInv, EnabledIsScheduled
<1> QED
  BY <1>7, <1>8, <1>9 DEF JInv

LEMMA JobsCreate ==
    ASSUME Shape, JInv, NEW u \in Savers, NEW t \in Tasks, NEW def \in Saved, Create(u, t, def)
    PROVE  JInv'
<1> DEFINE s == [pc |-> "written", task |-> t, def |-> None, seen |-> None]
<1>1. /\ ~Saving(u) /\ saver' = [saver EXCEPT ![u] = s]
      /\ order' = Append(order, u) /\ UNCHANGED <<jobs, registered, passed>>
  BY DEF Create, SaverBecomes, Saving
<1>2. s.pc = "written" /\ s.task = t
  OBVIOUS
<1>3. \A k \in Tasks \ {t} : rows'[k] = rows[k]
  BY DEF Create, WriteRow, Shape, RestTyped
<1> HIDE DEF s
<1> QED
  BY <1>1, <1>2, <1>3, JobsWritten

LEMMA JobsBegin ==
    ASSUME Shape, JInv, NEW u \in Savers, NEW t \in Tasks, NEW def \in Saved, BeginUpdate(u, t, def)
    PROVE  JInv'
<1> DEFINE s == [pc |-> "found", task |-> t, def |-> def, seen |-> None]
<1>1. /\ ~Saving(u) /\ saver' = [saver EXCEPT ![u] = s]
      /\ UNCHANGED <<rows, jobs, order, registered, passed>>
  BY DEF BeginUpdate, SaverBecomes, Saving, durable, history
<1>2. s.pc \notin {"written", "reread"}
  OBVIOUS
<1> HIDE DEF s
<1> QED
  BY <1>1, <1>2, JobsQuiet

LEMMA JobsWrite ==
    ASSUME Shape, JInv, NEW u \in Savers, Write(u)
    PROVE  JInv'
<1> DEFINE t == saver[u].task
           s == [saver[u] EXCEPT !.pc = "written", !.def = None]
<1>1. /\ t \in Tasks /\ saver[u] \in Saver /\ ~Saving(u)
      /\ jobs' = [jobs EXCEPT ![t] = None]
      /\ UNCHANGED <<registered, passed>>
  BY DEF Write, Saving, Shape, RestTyped, SaversOK
<1>2. \A k \in Tasks \ {t} : jobs'[k] = jobs[k]
  BY <1>1 DEF Shape, RestTyped
<1>3. CASE rows[t] # None
  <2>1. s.pc = "written" /\ s.task = t
    BY <1>1 DEF Saver
  <2>2. saver' = [saver EXCEPT ![u] = s] /\ order' = Append(order, u)
    BY <1>3 DEF Write, SaverBecomes
  <2>3. \A k \in Tasks \ {t} : rows'[k] = rows[k]
    BY <1>1, <1>3 DEF Write, WriteRow, Shape, RestTyped
  <2> HIDE DEF s, t
  <2> QED
    BY <1>1, <1>2, <2>1, <2>2, <2>3, JobsWritten
<1>4. CASE rows[t] = None
  <2>1. /\ saver' = [saver EXCEPT ![u] = IdleSaver]
        /\ UNCHANGED <<rows, order>>
    BY <1>4 DEF Write, SaverBecomes
  <2>2. IdleSaver.pc \notin {"written", "reread"}
    BY DEF IdleSaver
  <2>3. \A k \in Tasks : rows[k] # None => jobs'[k] = jobs[k]
    BY <1>2, <1>4
  <2> QED
    BY <1>1, <2>1, <2>2, <2>3, JobsQuiet
<1> QED
  BY <1>3, <1>4

LEMMA JobsReread ==
    ASSUME Shape, JInv, NEW u \in Savers, Reread(u)
    PROVE  JInv'
<1> DEFINE s == [saver[u] EXCEPT !.pc = "reread", !.seen = rows[saver[u].task]]
<1>1. /\ saver[u].pc = "written" /\ saver' = [saver EXCEPT ![u] = s]
      /\ UNCHANGED <<rows, jobs, order, registered, passed>>
  BY DEF Reread, SaverBecomes, durable, history
<1>2. saver[u] \in Saver /\ saver \in [Savers -> Saver]
  BY DEF Shape, RestTyped
<1>3. s.pc = "reread" /\ s.task = saver[u].task /\ s.seen = rows[saver[u].task]
  BY <1>2 DEF Saver
<1> HIDE DEF s
<1>4. \A v \in Savers : saver'[v] = IF v = u THEN s ELSE saver[v]
  BY <1>1, <1>2
<1>5. \A v \in Savers : saver'[v].task = saver[v].task /\ (Saving(v)' <=> Saving(v))
  BY <1>1, <1>3, <1>4 DEF Saving
<1>6. \A i \in 1..Len(order) : order[i] \in Savers
  BY Ordered DEF JInv
<1>7. OrderOK'
  BY <1>1, <1>5, <1>6 DEF JInv, OrderOK, Saving
<1>8. LastSeesRow'
  <2> SUFFICES ASSUME NEW i \in 1..Len(order), saver'[order[i]].pc = "reread", LastOf(i)'
               PROVE  SeesRow(order[i])'
    BY <1>1 DEF LastSeesRow
  <2>1. CASE order[i] = u
    BY <1>1, <1>3, <1>4, <2>1 DEF SeesRow
  <2>2. CASE order[i] # u
    <3>1. saver'[order[i]] = saver[order[i]]
      BY <1>4, <1>6, <2>2
    <3>2. LastOf(i)
      BY <1>1, <1>5, <1>6 DEF LastOf
    <3>3. SeesRow(order[i])
      BY <3>1, <3>2 DEF JInv, LastSeesRow
    <3> QED
      BY <1>1, <3>1, <3>3 DEF SeesRow
  <2> QED
    BY <2>1, <2>2
<1>9. EnabledIsScheduled'
  BY <1>1, <1>5 DEF JInv, EnabledIsScheduled, Saving
<1> QED
  BY <1>7, <1>8, <1>9 DEF JInv

\* The first of the order schedules what it has seen, and leaves.
LEMMA JobsReschedule ==
    ASSUME Shape, JInv, NEW u \in Savers, Reschedule(u)
    PROVE  JInv'
<1> DEFINE t == saver[u].task
           s == saver[u].seen
<1>1. /\ t \in Tasks /\ Saving(u) /\ saver[u].pc = "reread"
      /\ saver' = [saver EXCEPT ![u] = IdleSaver]
      /\ order # <<>> /\ order' = Tail(order) /\ Head(order) = u
      /\ UNCHANGED <<registered, passed>>
  <2>1. \E i \in 1..Len(order) : order[i] = u
    BY DEF Shape, SaversOK, Reschedule
  <2>2. order # <<>>
    BY <2>1
  <2> QED
    BY <2>2 DEF Reschedule, SaverBecomes, Saving, history, Shape, RestTyped, SaversOK
<1>2. \A v \in Savers : saver'[v] = IF v = u THEN IdleSaver ELSE saver[v]
  BY <1>1 DEF Shape, RestTyped
<1>3. /\ Len(order) \in Nat /\ 1 \in 1..Len(order) /\ order[1] = u
      /\ Len(order') = Len(order) - 1
      /\ \A i \in 1..Len(order') : order'[i] = order[i + 1]
  BY <1>1 DEF Shape, RestTyped
<1>4. \A i \in 1..Len(order) : order[i] \in Savers /\ saver[order[i]].task \in Tasks
  BY Ordered DEF JInv
<1>5. \A i \in 1..Len(order) : i # 1 => order[i] # u
  BY <1>3 DEF JInv, OrderOK
<1>6. \A i \in 1..Len(order') : /\ i + 1 \in 1..Len(order) /\ i + 1 # 1
                                /\ order'[i] = order[i + 1]
                                /\ saver'[order'[i]] = saver[order[i + 1]]
  <2> SUFFICES ASSUME NEW i \in 1..Len(order')
               PROVE  /\ i + 1 \in 1..Len(order) /\ i + 1 # 1
                      /\ order'[i] = order[i + 1]
                      /\ saver'[order'[i]] = saver[order[i + 1]]
    OBVIOUS
  <2>1. i + 1 \in 1..Len(order) /\ i + 1 # 1 /\ order'[i] = order[i + 1]
    BY <1>3
  <2>2. order[i + 1] \in Savers \ {u}
    BY <1>4, <1>5, <2>1
  <2> QED
    BY <1>2, <2>1, <2>2
<1>7. \A j \in 1..Len(order) : j # 1 => j - 1 \in 1..Len(order') /\ order'[j - 1] = order[j]
  <2> SUFFICES ASSUME NEW j \in 1..Len(order), j # 1
               PROVE  j - 1 \in 1..Len(order') /\ order'[j - 1] = order[j]
    OBVIOUS
  <2>1. j - 1 \in 1..Len(order') /\ (j - 1) + 1 = j
    BY <1>3
  <2> QED
    BY <1>3, <2>1
\* What it does to rows and jobs.
<1>8. /\ \A k \in Tasks : rows'[k] # None =>
            rows[k] # None /\ rows'[k].def = rows[k].def /\ rows'[k].rev = rows[k].rev
      /\ \A k \in Tasks \ {t} : jobs'[k] = jobs[k]
      /\ s # None /\ s.def.enabled => jobs'[t] = [kind |-> s.def.kind, rev |-> s.rev]
  <2>1. CASE s # None /\ s.def.enabled
    <3>1. /\ jobs' = [jobs EXCEPT ![t] = [kind |-> s.def.kind, rev |-> s.rev]]
          /\ SetStatus(t, "scheduled")
      BY <2>1 DEF Reschedule
    <3>2. \A k \in Tasks : rows'[k] # None =>
            rows[k] # None /\ rows'[k].def = rows[k].def /\ rows'[k].rev = rows[k].rev
      BY <1>1, <3>1, SettingStatus DEF Status
    <3> QED
      BY <1>1, <3>1, <3>2 DEF Shape, RestTyped
  <2>2. CASE ~(s # None /\ s.def.enabled)
    BY <2>2 DEF Reschedule
  <2> QED
    BY <2>1, <2>2
<1>9. OrderOK'
  <2>1. \A i \in 1..Len(order') : saver'[order'[i]].pc \in {"written", "reread"}
    BY <1>6 DEF JInv, OrderOK, Saving
  <2>2. \A i, j \in 1..Len(order') : order'[i] = order'[j] => i = j
    <3> SUFFICES ASSUME NEW i \in 1..Len(order'), NEW j \in 1..Len(order'), order'[i] = order'[j]
                 PROVE  i = j
      OBVIOUS
    <3>1. i + 1 = j + 1
      BY <1>6 DEF JInv, OrderOK
    <3> QED
      BY <3>1
  <2> QED
    BY <2>1, <2>2 DEF OrderOK, Saving
<1>10. LastSeesRow'
  <2> SUFFICES ASSUME NEW i \in 1..Len(order'), saver'[order'[i]].pc = "reread", LastOf(i)'
               PROVE  SeesRow(order[i])'
    BY DEF LastSeesRow
  <2>1. i + 1 \in 1..Len(order) /\ saver'[order'[i]] = saver[order[i + 1]]
    BY <1>6
  <2>2. LastOf(i + 1)
    <3> SUFFICES ASSUME NEW j \in 1..Len(order), i + 1 < j
                 PROVE  saver[order[j]].task # saver[order[i + 1]].task
      BY DEF LastOf
    <3>1. j # 1 /\ i < j - 1
      OBVIOUS
    <3>2. j - 1 \in 1..Len(order') /\ saver'[order'[j - 1]] = saver[order[j]]
      <4>1. j - 1 \in 1..Len(order') /\ (j - 1) + 1 = j
        BY <1>7, <3>1
      <4> QED
        BY <1>6, <4>1
    <3> QED
      BY <2>1, <3>1, <3>2 DEF LastOf
  <2>3. SeesRow(order[i + 1])
    BY <2>1, <2>2 DEF JInv, LastSeesRow
  <2> QED
    BY <1>4, <1>8, <2>1, <2>3 DEF SeesRow
<1>11. EnabledIsScheduled'
  <2> SUFFICES ASSUME NEW k \in Tasks, rows'[k] # None, rows'[k].def.enabled,
                      rows'[k].def.handler \in registered,
                      \A v \in Savers : saver'[v].task = k => saver'[v].pc \notin {"written", "reread"}
               PROVE  \/ jobs'[k] = [kind |-> rows'[k].def.kind, rev |-> rows'[k].rev]
                      \/ rows'[k].def.kind = "once" /\ rows'[k].rev \in passed
    BY <1>1 DEF EnabledIsScheduled
  <2>1. rows[k] # None /\ rows'[k].def = rows[k].def /\ rows'[k].rev = rows[k].rev
    BY <1>8
  <2>2. \A v \in Savers \ {u} : saver[v].task = k => saver[v].pc \notin {"written", "reread"}
    BY <1>2
  <2>3. CASE k = t
    <3>1. LastOf(1)
      <4> SUFFICES ASSUME NEW j \in 1..Len(order), 1 < j
                   PROVE  saver[order[j]].task # saver[order[1]].task
        BY DEF LastOf
      <4>1. order[j] \in Savers \ {u} /\ Saving(order[j])
        BY <1>4, <1>5, Ordered DEF JInv
      <4> QED
        BY <1>3, <2>2, <2>3, <4>1 DEF Saving
    <3>2. SeesRow(u)
      BY <1>1, <1>3, <3>1 DEF JInv, LastSeesRow
    <3>3. s # None /\ s.def = rows[t].def /\ s.rev = rows[t].rev
      BY <2>1, <2>3, <3>2 DEF SeesRow
    <3> QED
      BY <1>8, <2>1, <2>3, <3>3
  <2>4. CASE k # t
    <3>1. \A v \in Savers : saver[v].task = k => saver[v].pc \notin {"written", "reread"}
      BY <2>2, <2>4
    <3>2. \/ jobs[k] = [kind |-> rows[k].def.kind, rev |-> rows[k].rev]
          \/ rows[k].def.kind = "once" /\ rows[k].rev \in passed
      BY <2>1, <3>1 DEF JInv, EnabledIsScheduled
    <3> QED
      BY <1>8, <2>1, <2>4, <3>2
  <2> QED
    BY <2>3, <2>4
<1> QED
  BY <1>9, <1>10, <1>11 DEF JInv

\* start() schedules the enabled tasks whose handlers it knows.
LEMMA JobsRestart ==
    ASSUME Shape, NEW H \in SUBSET Handlers, Restart(H)
    PROVE  JInv'
<1>1. order' = <<>> /\ registered' = H
  BY DEF Restart
<1>2. 1..Len(order') = {}
  BY <1>1
<1>3. OrderOK' /\ LastSeesRow'
  BY <1>2 DEF OrderOK, LastSeesRow
<1>4. EnabledIsScheduled'
  <2> SUFFICES ASSUME NEW t \in Tasks, rows'[t] # None, rows'[t].def.enabled,
                      rows'[t].def.handler \in H
               PROVE  jobs'[t] = [kind |-> rows'[t].def.kind, rev |-> rows'[t].rev]
    BY <1>1 DEF EnabledIsScheduled
  <2>1. rows[t] # None /\ rows'[t].rev = rows[t].rev /\ rows'[t].def = rows[t].def
    BY RestartedRows
  <2>2. jobs'[t] = [kind |-> rows[t].def.kind, rev |-> rows[t].rev]
    BY <2>1 DEF Restart
  <2> QED
    BY <2>1, <2>2
<1> QED
  BY <1>3, <1>4 DEF JInv

LEMMA JobsPass ==
    ASSUME Shape, JInv, NEW t \in Tasks, jobs[t] # None, JobPasses(t),
           UNCHANGED <<rows, saver, order, registered>>
    PROVE  JInv'
<1>1. RowsStay
  BY DEF RowsStay
<1>2. JobsStay
  BY DEF JobsStay, JobPasses, Shape, RestTyped
<1>3. passed \subseteq passed'
  BY DEF JobPasses
<1> QED
  BY <1>1, <1>2, <1>3, JobsKept

\* An execution leaves the jobs and the definitions alone, until it disables its task.
LEMMA JobsProceed ==
    ASSUME Shape, JInv, NEW x \in Executions, Proceed(x)
    PROVE  JInv'
<1>1. exec[x].pc # "idle" => exec[x].task \in Tasks
  BY DEF Shape, RestTyped, ExecutionsOK, ExecutionOK
<1>2. CASE UNCHANGED <<rows, jobs, saver, order, registered, passed>>
  <2>1. RowsStay /\ JobsStay
    BY <1>2 DEF RowsStay, JobsStay
  <2> QED
    BY <1>2, <2>1, JobsKept
<1>3. CASE Asked(x) \/ Enter(x) \/ TakeLock(x) \/ TakePermit(x) \/ Withdraw(x)
             \/ RecordStart(x) \/ StartHandler(x) \/ Leave(x)
             \/ \E result \in Results : EndHandler(x, result)
  <2>1. UNCHANGED <<rows, jobs, saver, order, registered, passed>>
    BY <1>3 DEF Asked, Enter, TakeLock, TakePermit, Withdraw, RecordStart, StartHandler, Leave,
       EndHandler, durable, history
  <2> QED
    BY <1>2, <2>1
<1>4. ASSUME NEW status \in Status, SetStatus(exec[x].task, status), exec[x].pc # "idle",
             UNCHANGED <<jobs, saver, order, registered, passed>>
      PROVE  JInv'
  <2>1. RowsStay /\ JobsStay
    BY <1>1, <1>4, SettingStatus DEF RowsStay, JobsStay
  <2> QED
    BY <1>4, <2>1, JobsKept
<1>5. CASE Unavailable(x)
  <2>1. /\ SetStatus(exec[x].task, "unavailable") /\ exec[x].pc # "idle"
        /\ UNCHANGED <<jobs, saver, order, registered, passed>>
    BY <1>5 DEF Unavailable, history
  <2> QED
    BY <1>4, <2>1 DEF Status
<1>6. CASE MarkRunning(x)
  <2>1. /\ SetStatus(exec[x].task, "running") /\ exec[x].pc # "idle"
        /\ UNCHANGED <<jobs, saver, order, registered, passed>>
    BY <1>6 DEF MarkRunning, history
  <2> QED
    BY <1>4, <2>1 DEF Status
<1>7. CASE Finish(x)
  <2> DEFINE t == exec[x].task
  <2>1. /\ t \in Tasks
        /\ UNCHANGED <<saver, order, registered, passed>>
        /\ jobs' = IF Consumes(exec[x]) THEN [jobs EXCEPT ![t] = None] ELSE jobs
    BY <1>1, <1>7 DEF Finish, history
  <2>2. /\ \A k \in Tasks \ {t} : rows'[k] = rows[k]
        /\ rows'[t] = None <=> rows[t] = None
        /\ rows[t] # None =>
             /\ rows'[t].rev = rows[t].rev
             /\ rows'[t].def.enabled => ~Consumes(exec[x])
    BY <1>7, <2>1, FinishedRow
  <2>3. ASSUME rows[t] # None, ~Consumes(exec[x])
        PROVE  rows'[t].def = rows[t].def
    <3> DEFINE on == rows[t].def.enabled /\ ~Consumes(exec[x])
    <3>1. rows'[t] = [rows[t] EXCEPT !.status = exec[x].result, !.def.enabled = on]
      BY <1>7, <2>1, <2>3 DEF Finish, Shape, RestTyped
    <3>2. rows[t] \in Row
      BY <2>1, <2>3 DEF Shape, RestTyped
    <3>3. on = rows[t].def.enabled
      BY <2>3, <3>2 DEF Row, Definition
    <3> HIDE DEF on
    <3>4. rows'[t].def = [rows[t].def EXCEPT !.enabled = on]
      BY <3>1, <3>2 DEF Row
    <3> QED
      BY <3>2, <3>3, <3>4 DEF Row, Definition
  <2>4. RowsStay
    BY <2>1, <2>2, <2>3 DEF RowsStay
  <2>5. JobsStay
    <3> SUFFICES ASSUME NEW k \in Tasks, rows'[k] # None, rows'[k].def.enabled
                 PROVE  jobs'[k] = jobs[k]
      BY DEF JobsStay
    <3>1. k = t => ~Consumes(exec[x])
      BY <2>2
    <3> QED
      BY <2>1, <3>1 DEF Shape, RestTyped
  <2> QED
    BY <2>1, <2>4, <2>5, JobsKept
<1> QED
  BY <1>3, <1>5, <1>6, <1>7 DEF Proceed

LEMMA JobsNext ==
    ASSUME Shape, JInv, Next
    PROVE  JInv'
<1>1. ASSUME NEW u \in Savers, SaveStep(u)
      PROVE  JInv'
  BY <1>1, JobsWrite, JobsReread, JobsReschedule DEF SaveStep
<1>2. ASSUME NEW t \in Tasks, Delete(t)
      PROVE  JInv'
  <2>1. UNCHANGED <<saver, order, registered, passed>> /\ RowsStay /\ JobsStay
    BY <1>2 DEF Delete, history, RowsStay, JobsStay, Shape, RestTyped
  <2> QED
    BY <2>1, JobsKept
<1>3. ASSUME NEW t \in Tasks, Skip(t)
      PROVE  JInv'
  BY <1>3, JobsPass DEF Skip, durable
<1>4. ASSUME NEW x \in Executions, NEW t \in Tasks, Fire(x, t)
      PROVE  JInv'
  BY <1>4, JobsPass DEF Fire, durable
<1>5. ASSUME NEW x \in Executions, NEW t \in Tasks, RunNow(x, t)
      PROVE  JInv'
  <2>1. UNCHANGED <<rows, jobs, saver, order, registered, passed>>
    BY <1>5 DEF RunNow, durable, history
  <2> QED
    BY <2>1, JobsKept DEF RowsStay, JobsStay
<1> QED
  BY <1>1, <1>2, <1>3, <1>4, <1>5, JobsCreate, JobsBegin, JobsRestart, JobsProceed DEF Next

LEMMA JobsStutter ==
    ASSUME Shape, JInv, UNCHANGED vars
    PROVE  JInv'
<1>1. UNCHANGED <<rows, jobs, saver, order, registered, passed>>
  BY DEF vars, durable, memory, history
<1> QED
  BY <1>1, JobsKept DEF RowsStay, JobsStay

\* An enabled task has the job of its last definition, whatever order its savers, its
\* executions and restarts come in (create, update, _schedule and start).
THEOREM EnabledHasJob == Spec => []EnabledIsScheduled
<1>1. Init => JInv
  <2> SUFFICES ASSUME Init PROVE JInv
    OBVIOUS
  <2>1. 1..Len(order) = {}
    BY DEF Init
  <2> QED
    BY <2>1 DEF Init, JInv, OrderOK, LastSeesRow, EnabledIsScheduled
<1>2. IInv /\ JInv /\ [Next]_vars => JInv'
  BY JobsNext, JobsStutter DEF IInv
<1>3. JInv => EnabledIsScheduled
  BY DEF JInv
<1> QED
  BY <1>1, <1>2, <1>3, Inductive, PTL DEF Spec

==============================================================================
