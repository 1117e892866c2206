----------------------------- MODULE WorkerTask -----------------------------
(***************************************************************************)
(* The worker's side of one task: SqlTask.updateTask, which creates the    *)
(* execution from the first update that brings the plan, and               *)
(* SqlTaskExecution.updateSources, which drops the splits it has already   *)
(* taken.  A worker that restarts, or that has removed an old task from    *)
(* its cache, makes a new task under a new instance id for the first       *)
(* request that names it.                                                  *)
(***************************************************************************)
EXTENDS Integers, FiniteSetsExt

CONSTANTS Sources,       \* the plan nodes of the fragment that take splits
          MaxSplits,     \* bound: how many splits the coordinator adds
          MaxRestarts    \* bound: how often the worker loses its task

ASSUME BoundsAssumption ==
    Sources # {} /\ MaxSplits \in Nat \ {0} /\ MaxRestarts \in Nat

VARIABLES instance,      \* taskInstanceId of the worker's task: 1, 2, ...
          task,          \* SqlTask: its execution and its state
          ran            \* ran[i][n]: how often instance i started split n

workerVars == << instance, task, ran >>

SplitIds == 0 .. MaxSplits - 1
Instances == 1 .. MaxRestarts + 1
TERMINAL_TASK_STATES == {"FINISHED", "CANCELED", "ABORTED", "FAILED"}
isDone(state) == state \in TERMINAL_TASK_STATES

\* A task whose execution has not been created.
createSqlTask ==
    [started |-> FALSE, maxAcknowledgedSplit |-> -1, noMoreSplits |-> {}, state |-> "RUNNING"]

WorkerInit ==
    /\ instance = 1
    /\ task = createSqlTask
    /\ ran = [i \in Instances |-> [n \in SplitIds |-> 0]]

-----------------------------------------------------------------------------
\* Mutant: splits that were already taken are started again.
allSplits(sources) == UNION { x.splits : x \in sources }

\* The splits of an update with an id above the highest one taken so far.
newSplits(sources) ==
    { n \in UNION { x.splits : x \in sources } : n > task.maxAcknowledgedSplit }

\* A split of a source that was told that no more would come.
addedAfterNoMore(sources) ==
    \E x \in sources : /\ x.source \in task.noMoreSplits
                       /\ x.splits \cap newSplits(sources) # {}

updatedTask(sources) ==
    [task EXCEPT
       !.started = TRUE,
       !.maxAcknowledgedSplit = Max(newSplits(sources) \cup {@}),
       !.noMoreSplits = @ \cup { x.source : x \in { y \in sources : y.noMoreSplits } },
       !.state = IF addedAfterNoMore(sources) THEN "FAILED" ELSE @]

\* The status or info that every answer carries.  Its version grows with each
\* answer of the instance, so it orders the answers as their states do.
createTaskStatus(t) ==
    [instance |-> instance, state |-> t.state, needsPlan |-> ~t.started, local |-> FALSE]

\* The task after updateTask: a finished task ignores the update, and a task
\* without execution fails unless the update brings the plan.
updateTask(request) ==
    CASE isDone(task.state) -> task
      [] ~isDone(task.state) /\ ~task.started /\ ~request.fragment ->
           [task EXCEPT !.state = "FAILED"]
      [] OTHER -> updatedTask(request.sources)

\* The splits that updateTask starts.
startedBy(request) ==
    IF isDone(task.state) \/ (~task.started /\ ~request.fragment)
    THEN {} ELSE newSplits(request.sources)

\* A request of the coordinator is handled.
handleUpdate(request) ==
    /\ task' = updateTask(request)
    /\ ran' = [ran EXCEPT ![instance] =
         [n \in SplitIds |-> IF n \in startedBy(request) THEN @[n] + 1 ELSE @[n]]]
    /\ UNCHANGED instance

\* TaskStateMachine: the first terminal state stays.
transitionToDone(t, state) ==
    IF isDone(t.state) THEN t ELSE [t EXCEPT !.state = state]

-----------------------------------------------------------------------------
\* Mutant: more splits may come.
checkDriversOnly ==
    /\ ~isDone(task.state)
    /\ task.started
    /\ task' = transitionToDone(task, "FINISHED")
    /\ UNCHANGED << instance, ran >>

\* checkTaskCompletion: every source is complete and its drivers are done.
checkTaskCompletion ==
    /\ ~isDone(task.state)
    /\ task.started /\ task.noMoreSplits = Sources
    /\ task' = transitionToDone(task, "FINISHED")
    /\ UNCHANGED << instance, ran >>

\* An error of a driver, or failAbandonedTasks.
failed ==
    /\ ~isDone(task.state)
    /\ task' = transitionToDone(task, "FAILED")
    /\ UNCHANGED << instance, ran >>

Restart ==
    /\ instance <= MaxRestarts
    /\ instance' = instance + 1
    /\ task' = createSqlTask
    /\ UNCHANGED ran
=============================================================================
