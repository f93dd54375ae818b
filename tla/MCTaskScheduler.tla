--------------------------- MODULE MCTaskScheduler ---------------------------
(* Small instances of TaskScheduler: one task whose definition changes under *)
(* its executions, and two tasks that share the global semaphore.            *)
EXTENDS TaskScheduler

CONSTANTS t1, t2, h, x1, x2, u1, u2

AnyDefinition == Definition
Manual == [kind : {"repeat"}, handler : {h}, enabled : {FALSE}]
OneTask == {t1}
TwoTasks == {t1, t2}
MCHandlers == {h}
TwoExecutions == {x1, x2}
OneSaver == {u1}
TwoSavers == {u1, u2}

Scenario(running, saving, most, restarts) ==
    [executions |-> running, savers |-> saving, saves |-> most, stops |-> restarts]

(* Two executions of a task that is saved twice; one execution of a task that *)
(* two users save three times; two executions that share a permit.            *)
Scenarios == {Scenario(2, 1, 2, 1), Scenario(1, 2, 3, 1)}
Sharing == {Scenario(2, 1, 2, 0)}
Symmetry == Permutations(Executions) \union Permutations(Savers)
==============================================================================
