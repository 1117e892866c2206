----------------------------- MODULE TaskOutput -----------------------------
(***************************************************************************)
(* How a task ends: its drivers, its state machine (TaskStateMachine, the  *)
(* listener of SqlTask) and checkTaskCompletion of SqlTaskExecution,       *)
(* around the broadcast output buffer the drivers write to.                *)
(*                                                                         *)
(* All drivers have been created (no more driver runners will be), as many *)
(* as Driver has elements.  The listeners of both state machines run some  *)
(* time after the transition, on other threads.  checkTaskCompletion is    *)
(* synchronized: finisher is the one thread inside of it.                  *)
(***************************************************************************)
EXTENDS BroadcastOutputBuffer

VARIABLES
    taskState,         \* TaskStateMachine
    listener,          \* the listener of SqlTask has run
    remainingDriver,   \* Status.overallRemainingDriver
    failing,           \* drivers in onFailure, between failed and decrementRemainingDriver
    failedDrivers,     \* drivers that failed
    checks             \* the threads that are to call checkTaskCompletion

taskVars == <<taskState, listener, remainingDriver, failing, failedDrivers, checks>>
allVars == <<vars, taskVars>>

IsDone(s) == s # "RUNNING"

TaskInit ==
    /\ Init
    /\ taskState = "RUNNING"
    /\ listener = FALSE
    /\ remainingDriver = Cardinality(Driver)
    /\ failing = {}
    /\ failedDrivers = {}
    /\ checks = {}

TransitionToDoneStateAlways(new) == taskState' = new \* mutant: also of a done task
TransitionToDoneState(new) == taskState' = IF IsDone(taskState) THEN taskState ELSE new

NotifyBufferFinishedNot == UNCHANGED checks \* mutant: there is no such listener

\* The listener of the buffer's state machine calls checkTaskCompletion.
NotifyBufferFinished ==
    checks' = IF state # "FINISHED" /\ state' = "FINISHED" THEN checks \cup {"buffer"} ELSE checks

-----------------------------------------------------------------------------
(* The drivers' callbacks. *)

OnSuccess(d) ==
    /\ DriverDone(d)
    /\ remainingDriver' = remainingDriver - 1
    /\ checks' = checks \cup {d}
    /\ UNCHANGED <<taskState, listener, failing, failedDrivers>>

OnFailure(d) ==
    /\ DriverDone(d)
    /\ TransitionToDoneState("FAILED")
    /\ failing' = failing \cup {d}
    /\ failedDrivers' = failedDrivers \cup {d}
    /\ UNCHANGED <<listener, remainingDriver, checks>>

EndOnFailure(d) ==
    /\ d \in failing
    /\ failing' = failing \ {d}
    /\ remainingDriver' = remainingDriver - 1
    /\ UNCHANGED <<vars, taskState, listener, failedDrivers, checks>>

-----------------------------------------------------------------------------
(* checkTaskCompletion. *)

CheckTaskCompletion(t) ==
    /\ t \in checks
    /\ finisher.pc = "idle"
    /\ checks' = checks \ {t}
    /\ finisher' = IF IsDone(taskState) THEN finisher ELSE [finisher EXCEPT !.pc = "checked"]
    /\ UNCHANGED <<state, outputBuffers, lock, buffers, initialPagesForNewBuffers, memory,
                   memoryClosed, produced, driver, coordinator, destroyer, consumer,
                   taskState, listener, remainingDriver, failing, failedDrivers>>

\* mutant: running drivers are not waited for
CheckRemainingDriverNot ==
    /\ StartSetNoMorePages("checked")
    /\ UNCHANGED taskVars

\* Do we still have running drivers?
CheckRemainingDriver ==
    /\ finisher.pc = "checked"
    /\ IF remainingDriver # 0
       THEN /\ finisher' = [finisher EXCEPT !.pc = "idle"]
            /\ UNCHANGED <<state, outputBuffers, lock, buffers, initialPagesForNewBuffers,
                           memory, memoryClosed, produced, driver, coordinator, destroyer,
                           consumer>>
       ELSE StartSetNoMorePages("checked")
    /\ UNCHANGED taskVars

\* All done, if the output buffer has been consumed.
CheckBufferFinished ==
    /\ finisher.pc = "done"
    /\ finisher' = [finisher EXCEPT !.pc = "idle"]
    /\ IF state = "FINISHED" THEN TransitionToDoneState("FINISHED") ELSE UNCHANGED taskState
    /\ UNCHANGED <<state, outputBuffers, lock, buffers, initialPagesForNewBuffers, memory,
                   memoryClosed, produced, driver, coordinator, destroyer, consumer,
                   listener, remainingDriver, failing, failedDrivers, checks>>

-----------------------------------------------------------------------------
(* The coordinator ends the task, and the task's listener ends the buffer. *)

CancelTask == TransitionToDoneState("CANCELED") /\ ~IsDone(taskState)
AbortTask == TransitionToDoneState("ABORTED") /\ ~IsDone(taskState)

EndTask ==
    /\ CancelTask \/ AbortTask
    /\ UNCHANGED <<vars, listener, remainingDriver, failing, failedDrivers, checks>>

\* Don't close buffers for a failed query.
StateChanged ==
    /\ IsDone(taskState)
    /\ ~listener
    /\ listener' = TRUE
    /\ IF IsTerminal(state) THEN UNCHANGED vars
       ELSE IF taskState \in {"FAILED", "ABORTED"} THEN Fail
       ELSE Cancel
    /\ NotifyBufferFinished
    /\ UNCHANGED <<taskState, remainingDriver, failing, failedDrivers>>

BufferStep ==
    /\ BufferNext
    /\ NotifyBufferFinished
    /\ UNCHANGED <<taskState, listener, remainingDriver, failing, failedDrivers>>

TaskStep ==
    \/ BufferStep
    \/ \E d \in Driver : OnSuccess(d) \/ EndOnFailure(d)
    \/ \E t \in Driver \cup {"buffer"} : CheckTaskCompletion(t)
    \/ CheckRemainingDriver
    \/ CheckBufferFinished
    \/ StateChanged

TaskOutputNext == TaskStep \/ EndTask \/ (\E d \in Driver : OnFailure(d))

TaskSpec == TaskInit /\ [][TaskOutputNext]_allVars

\* Threads go on and consumers read and abort; nobody has to end the task.
FairTaskSpec == TaskSpec /\ WF_allVars(TaskStep)

-----------------------------------------------------------------------------
(* Properties. *)

\* A task only says FINISHED when all its drivers have succeeded and its output
\* has been consumed or given up by every consumer, although
\* checkTaskCompletion reads the task's state, the driver count and the buffer's
\* state one after the other while they change.
FinishedTaskSucceeded ==
    taskState = "FINISHED" =>
      remainingDriver = 0 /\ failedDrivers = {} /\ state = "FINISHED"

\* A consumer that is told its buffer is complete has all pages of the task's
\* drivers, or the task is known to have failed or to have been given up: however
\* a driver's last page, its end, checkTaskCompletion and a failure interleave,
\* no page is missing from the output of a task that succeeds.
CompleteOrNotSuccessful ==
    \A c \in Consumer : consumer[c].complete =>
      \/ taskState \in {"FAILED", "ABORTED", "CANCELED"}
      \/ Range(consumer[c].received) = 1..produced

\* A task whose drivers end and whose consumers read and abort is done in the
\* end: the last driver or the buffer's listener finds it complete.
TaskEnds == <>IsDone(taskState)

\* A consumer that is told that its buffer is complete reads the output of a
\* task in which no driver failed (SqlTask: closed buffers signal to upstream
\* tasks that everything finished cleanly), unless the task was cancelled.
CompleteMeansFinishedCleanly ==
    ~destroyer.cancelled =>
      \A c \in Consumer : consumer[c].complete => failedDrivers = {}
=============================================================================
