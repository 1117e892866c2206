----------------------------- MODULE RemoteTask -----------------------------
(***************************************************************************)
(* HttpRemoteTask, the coordinator's handle of a task that runs on a       *)
(* worker, with the two fetchers that follow the task's status and info.   *)
(* Splits stay pending until an update that carried them is answered; an   *)
(* update that failed is sent again; the first terminal status starts the  *)
(* clean-up, which ends when the task's info is terminal too.              *)
(*                                                                         *)
(* Every step is one critical section of the code: the callbacks of an     *)
(* update take the lock more than once, so they are several steps, and a   *)
(* request that the coordinator gave up on may still reach the worker.     *)
(***************************************************************************)
EXTENDS WorkerTask

CONSTANT Scenarios       \* what may happen to one task, and how often

\* The fields of a scenario are bounds, but for tries, the failures in a row
\* after which an error tracker or the clean-up may give up, and events: what
\* may befall the task, some of "cancel", "abort", "fail", "fatal", and the
\* loss of an "update", a "poll" or a "cleanup" request.
ASSUME ScenariosAssumption ==
    Scenarios \subseteq
      [ splits : 1..MaxSplits, restarts : 0..MaxRestarts,
        losses : Nat,        \* requests that fail in all
        calls : Nat \ {0},   \* updates whose callbacks have not returned
        polls : Nat,         \* status and info answers without news
        tries : Nat \ {0},
        events : SUBSET {"cancel", "abort", "fail", "fatal", "update", "poll", "cleanup"} ]

VARIABLES
    scenario,
    nextSplitId, pendingSplits, pendingSourceSplitCount, noMoreSplits,
    needsUpdate, sendPlan,
    currentRequest,      \* number of the update it refers to, 0 for null
    scheduled,           \* a run of sendUpdate waits in the executor
    calls,               \* updates whose callback has not returned
    late,                \* updates that were given up and may still arrive
    taskStatus, cleanUpDue, statusFetch, \* ContinuousTaskStatusFetcher
    taskInfo, infoFetch,                 \* TaskInfoFetcher
    cleanup,             \* the DELETE request; "none" until aborting is set
    failures,            \* failures in a row of each error tracker
    losses, polls

splitVars == << nextSplitId, pendingSplits, pendingSourceSplitCount, noMoreSplits >>
updateVars == << needsUpdate, sendPlan, currentRequest, scheduled, calls, late >>
statusVars == << taskStatus, cleanUpDue, cleanup >>
infoVars == << taskInfo, infoFetch >>
budgets == << losses, polls, scenario >>
vars == << workerVars, splitVars, updateVars, statusVars, infoVars, statusFetch,
           failures, budgets >>


\* initialTaskStatus: older than any status of the worker, of no instance.
initialTaskStatus ==
    [instance |-> 0, state |-> "PLANNED", needsPlan |-> TRUE, local |-> FALSE]

\* A fetcher without an answer at hand.
fetchIn(phase) == [phase |-> phase, value |-> initialTaskStatus]

\* The state after the constructor and start().
Init ==
    /\ WorkerInit
    /\ nextSplitId = 0 /\ pendingSplits = [s \in Sources |-> {}]
    /\ pendingSourceSplitCount = 0
    /\ noMoreSplits = [s \in Sources |-> "absent"]
    /\ needsUpdate = TRUE /\ sendPlan = TRUE /\ currentRequest = 0
    /\ scheduled = TRUE /\ calls = {} /\ late = {}
    /\ taskStatus = initialTaskStatus /\ cleanUpDue = FALSE
    /\ statusFetch = fetchIn("idle")
    /\ taskInfo = initialTaskStatus
    /\ infoFetch = fetchIn("idle")
    /\ cleanup = [phase |-> "none", state |-> "", value |-> initialTaskStatus]
    /\ failures = [update |-> 0, status |-> 0, info |-> 0, cleanup |-> 0]
    /\ losses = 0 /\ polls = 0 /\ scenario \in Scenarios

-----------------------------------------------------------------------------
(* Status and info.                                                        *)

taskMismatch(new) ==
    taskStatus.instance # 0 /\ taskStatus.instance # new.instance

\* What a value makes of an old one.  A terminal one stays; a status that was
\* set here has the highest version and the initial one the lowest; within
\* an instance the versions follow the states, and the versions of two
\* instances are not related.
newest(old, new) ==
    IF isDone(old.state) \/ (new.instance = 0 /\ ~new.local) THEN {old}
    ELSE IF new.local \/ old.instance \in {0, new.instance} THEN {new}
    ELSE {old, new}

failWith(status, state) == [status EXCEPT !.state = state, !.local = TRUE]

\* scheduleAsyncCleanupRequest: one round of clean-up requests per task.
scheduleAsyncCleanupRequest(state) ==
    IF cleanup.phase = "none"
    THEN [cleanup EXCEPT !.phase = "sent", !.state = state] ELSE cleanup

\* A change to a terminal status calls cleanUpTask on the executor.
setStatus(new) ==
    /\ taskStatus' = new
    /\ cleanUpDue' = (cleanUpDue \/ (isDone(new.state) /\ ~isDone(taskStatus.state)))

\* The status after abort(status), which a terminal status survives.
abortedStatus(state) ==
    IF isDone(taskStatus.state) THEN taskStatus ELSE failWith(taskStatus, state)

abortWith(state) ==
    /\ setStatus(abortedStatus(state))
    /\ cleanup' = scheduleAsyncCleanupRequest("ABORTED")

failTask == abortWith("FAILED")

\* Mutant: the status of another instance of the task is taken as any other.
statusOfAnyInstance(new) == newest(taskStatus, new)

\* What a status of the worker makes of the one at hand.
statusAfter(new) ==
    IF taskMismatch(new) THEN {abortedStatus("FAILED")} ELSE newest(taskStatus, new)

updateTaskStatus(new) ==
    /\ \E status \in statusAfter(new) : setStatus(status)
    /\ cleanup' = IF taskMismatch(new) THEN scheduleAsyncCleanupRequest("ABORTED")
                                       ELSE cleanup

\* The info fetcher stops at the first terminal info, which is then final.
setInfo(info) ==
    /\ taskInfo' = info
    /\ infoFetch' = IF isDone(info.state) THEN fetchIn("stopped") ELSE infoFetch

updateInfo(new) == \E info \in newest(taskInfo, new) : setInfo(info)

updateTaskInfo(new) == updateTaskStatus(new) /\ updateInfo(new)

-----------------------------------------------------------------------------
(* Sending updates.                                                        *)

TaskSource(s) ==
    [source |-> s, splits |-> pendingSplits[s], noMoreSplits |-> noMoreSplits[s] # "absent"]

getSources ==
    { TaskSource(s) : s \in
        { t \in Sources : pendingSplits[t] # {} \/ noMoreSplits[t] = "pending" } }

\* A request is running: one that is answered or failed is done, even when
\* its callback has not been called.
isRunning == \E c \in calls : c.number = currentRequest /\ c.phase = "sent"

\* A name for a new request.
freshNumber(rest) == 1 + Max({0} \cup { c.number : c \in rest })

\* sendUpdate, with the calls that remain besides the one it may add.
sendUpdate(rest) ==
    IF ~needsUpdate \/ isDone(taskStatus.state) \/ isRunning
    THEN calls' = rest /\ UNCHANGED << currentRequest, needsUpdate >>
    ELSE /\ currentRequest' = freshNumber(rest)
         /\ needsUpdate' = FALSE
         /\ calls' = rest \cup {[number |-> currentRequest', phase |-> "sent",
                                 fragment |-> sendPlan, sources |-> getSources,
                                 value |-> initialTaskStatus]}

\* A run of sendUpdate in the executor.  One flag stands for any number of
\* runs: a run that finds nothing to send changes nothing.
RunScheduled ==
    /\ scheduled /\ Cardinality(calls) < scenario.calls
    /\ scheduled' = FALSE
    /\ sendUpdate(calls)
    /\ UNCHANGED << workerVars, splitVars, sendPlan, late, statusVars, infoVars,
                    statusFetch, failures, budgets >>

addSplits(s) ==
    /\ nextSplitId < scenario.splits
    /\ ~isDone(taskStatus.state)
    /\ noMoreSplits[s] = "absent"
    /\ nextSplitId' = nextSplitId + 1
    /\ pendingSplits' = [pendingSplits EXCEPT ![s] = @ \cup {nextSplitId}]
    /\ pendingSourceSplitCount' = pendingSourceSplitCount + 1
    /\ needsUpdate' = TRUE
    /\ scheduled' = TRUE
    /\ UNCHANGED << workerVars, noMoreSplits, sendPlan, currentRequest, calls, late,
                    statusVars, infoVars, statusFetch, failures, budgets >>

setNoMoreSplits(s) ==
    /\ noMoreSplits[s] = "absent"
    /\ noMoreSplits' = [noMoreSplits EXCEPT ![s] = "pending"]
    /\ needsUpdate' = TRUE
    /\ scheduled' = TRUE
    /\ UNCHANGED << workerVars, nextSplitId, pendingSplits, pendingSourceSplitCount,
                    sendPlan, currentRequest, calls, late, statusVars,
                    infoVars, statusFetch, failures, budgets >>

-----------------------------------------------------------------------------
(* The callbacks of an update.                                             *)

posted(c) == [fragment |-> c.fragment, sources |-> c.sources]

\* A call in its last step no longer needs what it carried.
sending(c) ==
    (calls \ {c}) \cup
    {[c EXCEPT !.phase = "send", !.fragment = FALSE, !.sources = {},
               !.value = initialTaskStatus]}

moved(c, phase) == (calls \ {c}) \cup {[c EXCEPT !.phase = phase]}

\* success: the lock is held for the request and the plan ...
ReceiveUpdate(c) ==
    /\ c.phase = "answered"
    /\ currentRequest' = 0
    /\ sendPlan' = c.value.needsPlan
    /\ calls' = moved(c, "process")
    /\ UNCHANGED << workerVars, splitVars, needsUpdate, scheduled, late,
                    statusVars, infoVars, statusFetch, failures, budgets >>

carried(c, s) == UNION { x.splits : x \in { y \in c.sources : y.source = s } }

\* The splits that an answer acknowledges first.
removedSplits(c) == UNION { pendingSplits[s] \cap carried(c, s) : s \in Sources }

\* ... and again for what the answer acknowledges.
processTaskUpdate(c) ==
    /\ c.phase = "process"
    /\ updateTaskInfo(c.value)
    /\ pendingSplits' = [s \in Sources |-> pendingSplits[s] \ carried(c, s)]
    /\ pendingSourceSplitCount' = pendingSourceSplitCount - Cardinality(removedSplits(c))
    /\ noMoreSplits' = [s \in Sources |->
         IF \E x \in c.sources : x.source = s /\ x.noMoreSplits THEN "sent" ELSE noMoreSplits[s]]
    /\ failures' = [failures EXCEPT !.update = 0]
    /\ calls' = sending(c)
    /\ UNCHANGED << workerVars, nextSplitId, needsUpdate, sendPlan, currentRequest,
                    scheduled, late, statusFetch, budgets >>

\* failed: the request is cleared under the lock, ...
UpdateFailed(c) ==
    /\ c.phase = "failed"
    /\ currentRequest' = 0
    /\ calls' = moved(c, "flag")
    /\ UNCHANGED << workerVars, splitVars, needsUpdate, sendPlan, scheduled, late,
                    statusVars, infoVars, statusFetch, failures, budgets >>

\* RequestErrorTracker.requestFailed: it gives up after enough failures in a
\* row, once they have lasted long enough.
requestFailed(tracker) ==
    IF isDone(taskStatus.state) THEN UNCHANGED << failures, statusVars >>
    ELSE /\ failures' = [failures EXCEPT ![tracker] = @ + 1]
         /\ \/ UNCHANGED statusVars
            \/ failures[tracker] + 1 >= scenario.tries /\ failTask

\* Mutant: a failed update is not sent again.
recordFailureOnly(c) ==
    /\ c.phase = "flag"
    /\ requestFailed("update")
    /\ calls' = sending(c)
    /\ UNCHANGED << workerVars, splitVars, needsUpdate, sendPlan, currentRequest,
                    scheduled, late, infoVars, statusFetch, budgets >>

\* ... then the flag is set without it, and the failure counts.
recordFailure(c) ==
    /\ c.phase = "flag"
    /\ needsUpdate' = TRUE
    /\ requestFailed("update")
    /\ calls' = sending(c)
    /\ UNCHANGED << workerVars, splitVars, sendPlan, currentRequest,
                    scheduled, late, infoVars, statusFetch, budgets >>

\* Both end with sendUpdate, which waits in the executor while the tracker
\* backs off.
SendNext(c) ==
    /\ c.phase = "send"
    /\ \/ sendUpdate(calls \ {c}) /\ UNCHANGED scheduled
       \/ /\ failures.update > 0
          /\ calls' = calls \ {c}
          /\ scheduled' = TRUE
          /\ UNCHANGED << currentRequest, needsUpdate >>
    /\ UNCHANGED << workerVars, splitVars, sendPlan, late, statusVars, infoVars,
                    statusFetch, failures, budgets >>

-----------------------------------------------------------------------------
(* Updates in the network and at the worker.                               *)

Execute(c) ==
    /\ c.phase = "sent"
    /\ handleUpdate(c)
    /\ calls' = (calls \ {c}) \cup
                {[c EXCEPT !.phase = "answered", !.value = createTaskStatus(updateTask(c))]}
    /\ UNCHANGED << splitVars, needsUpdate, sendPlan, currentRequest, scheduled, late,
                    statusVars, infoVars, statusFetch, failures, budgets >>

\* The update fails by a timeout or a broken connection.  Either the worker
\* has handled it, or it may still reach the worker.
Lose(c) ==
    /\ "update" \in scenario.events /\ c.phase = "sent" /\ losses < scenario.losses
    /\ losses' = losses + 1
    /\ calls' = moved(c, "failed")
    /\ \/ handleUpdate(c) /\ UNCHANGED late
       \/ late' = late \cup {posted(c)} /\ UNCHANGED workerVars
    /\ UNCHANGED << splitVars, needsUpdate, sendPlan, currentRequest,
                    scheduled, statusVars, infoVars, statusFetch, failures, polls, scenario >>

ExecuteLate(request) ==
    /\ handleUpdate(request)
    /\ late' = late \ {request}
    /\ UNCHANGED << splitVars, needsUpdate, sendPlan, currentRequest, scheduled, calls,
                    statusVars, infoVars, statusFetch, failures, budgets >>

\* fatal: an answer that is neither OK nor SERVICE_UNAVAILABLE.
fatal(c) ==
    /\ "fatal" \in scenario.events /\ c.phase = "sent" /\ losses < scenario.losses
    /\ losses' = losses + 1
    /\ failTask
    /\ calls' = calls \ {c}
    /\ UNCHANGED << workerVars, splitVars, needsUpdate, sendPlan, currentRequest,
                    scheduled, late, infoVars, statusFetch, failures, polls, scenario >>

-----------------------------------------------------------------------------
(* The status fetcher: one long poll after the other until the task is     *)
(* done.                                                                   *)

scheduleNextRequest ==
    /\ statusFetch.phase = "idle" /\ ~isDone(taskStatus.state)
    /\ statusFetch' = [phase |-> "asked",
                       value |-> [initialTaskStatus EXCEPT !.state = taskStatus.state]]
    /\ UNCHANGED << workerVars, splitVars, updateVars, statusVars, infoVars, failures, budgets >>

\* The worker answers when its state is not the caller's, or after a while;
\* scenario.polls bounds the answers that tell nothing new.
AnswerStatus ==
    /\ statusFetch.phase = "asked"
    /\ LET news == task.state # statusFetch.value.state \/ instance # taskStatus.instance IN
       \/ news /\ UNCHANGED polls
       \/ ~news /\ polls < scenario.polls /\ polls' = polls + 1
    /\ statusFetch' = [phase |-> "answered", value |-> createTaskStatus(task)]
    /\ UNCHANGED << workerVars, splitVars, updateVars, statusVars, infoVars, failures, losses, scenario >>

ReceiveStatus ==
    /\ statusFetch.phase = "answered"
    /\ updateTaskStatus(statusFetch.value)
    /\ failures' = [failures EXCEPT !.status = 0]
    /\ statusFetch' = fetchIn("idle")
    /\ UNCHANGED << workerVars, splitVars, updateVars, infoVars, budgets >>

StatusFailed ==
    /\ "poll" \in scenario.events /\ statusFetch.phase \in {"asked", "answered"} /\ losses < scenario.losses
    /\ losses' = losses + 1
    /\ \/ requestFailed("status") /\ statusFetch' = fetchIn("idle")
       \/ "fatal" \in scenario.events /\ failTask /\ statusFetch' = fetchIn("stopped")
                   /\ UNCHANGED failures
    /\ UNCHANGED << workerVars, splitVars, updateVars, infoVars, polls, scenario >>

-----------------------------------------------------------------------------
(* The info fetcher asks from time to time.                                *)

AnswerInfo ==
    /\ infoFetch.phase = "idle"
    /\ \/ isDone(task.state) /\ UNCHANGED polls
       \/ ~isDone(task.state) /\ polls < scenario.polls /\ polls' = polls + 1
    /\ infoFetch' = [phase |-> "answered", value |-> createTaskStatus(task)]
    /\ UNCHANGED << workerVars, splitVars, updateVars, statusVars, statusFetch, taskInfo,
                    failures, losses, scenario >>

ReceiveInfo ==
    /\ infoFetch.phase = "answered"
    /\ taskInfo' \in newest(taskInfo, infoFetch.value)
    /\ infoFetch' = fetchIn(IF isDone(taskInfo'.state) THEN "stopped" ELSE "idle")
    /\ failures' = [failures EXCEPT !.info = 0]
    /\ UNCHANGED << workerVars, splitVars, updateVars, statusVars, statusFetch, budgets >>

InfoFailed ==
    /\ "poll" \in scenario.events /\ infoFetch.phase \in {"idle", "answered"} /\ losses < scenario.losses
    /\ losses' = losses + 1
    /\ infoFetch' = fetchIn("idle")
    /\ failures' = [failures EXCEPT !.info = @ + 1]
    /\ \/ UNCHANGED statusVars
       \/ failures.info + 1 >= scenario.tries /\ failTask
    /\ UNCHANGED << workerVars, splitVars, updateVars, statusFetch, taskInfo, polls, scenario >>

-----------------------------------------------------------------------------
(* The end of the task.                                                    *)

cancel ==
    /\ "cancel" \in scenario.events /\ ~isDone(taskStatus.state)
    /\ cleanup.phase = "none"
    /\ cleanup' = scheduleAsyncCleanupRequest("CANCELED")
    /\ UNCHANGED << workerVars, splitVars, updateVars, taskStatus, cleanUpDue, infoVars,
                    statusFetch, failures, budgets >>

abort ==
    /\ "abort" \in scenario.events /\ ~isDone(taskStatus.state)
    /\ abortWith("ABORTED")
    /\ UNCHANGED << workerVars, splitVars, updateVars, infoVars, statusFetch, failures, budgets >>

\* Mutant: the splits are kept.
cleanUpKeepingSplits ==
    /\ cleanUpDue
    /\ cleanUpDue' = FALSE
    /\ calls' = { IF c.number = currentRequest /\ c.phase = "sent"
                  THEN [c EXCEPT !.phase = "failed"] ELSE c : c \in calls }
    /\ late' = late \cup
         { posted(c) : c \in { d \in calls : d.number = currentRequest /\ d.phase = "sent" } }
    /\ currentRequest' = 0
    /\ statusFetch' = fetchIn("stopped")
    /\ cleanup' = scheduleAsyncCleanupRequest("ABORTED")
    /\ UNCHANGED << workerVars, splitVars, needsUpdate, sendPlan, scheduled,
                    taskStatus, infoVars, failures, budgets >>

\* The listener of the terminal status frees the splits, cancels the request
\* and the poll, and asks for the final info.
cleanUpTask ==
    /\ cleanUpDue
    /\ cleanUpDue' = FALSE
    /\ pendingSplits' = [s \in Sources |-> {}]
    /\ pendingSourceSplitCount' = 0
    /\ calls' = { IF c.number = currentRequest /\ c.phase = "sent"
                  THEN [c EXCEPT !.phase = "failed"] ELSE c : c \in calls }
    /\ late' = late \cup
         { posted(c) : c \in { d \in calls : d.number = currentRequest /\ d.phase = "sent" } }
    /\ currentRequest' = 0
    /\ statusFetch' = fetchIn("stopped")
    /\ cleanup' = scheduleAsyncCleanupRequest("ABORTED")
    /\ UNCHANGED << workerVars, nextSplitId, noMoreSplits, needsUpdate, sendPlan, scheduled,
                    taskStatus, infoVars, failures, budgets >>

ExecuteCleanup ==
    /\ cleanup.phase = "sent"
    /\ LET ended == transitionToDone(task, cleanup.state) IN
       /\ cleanup' = [cleanup EXCEPT !.phase = "answered", !.value = createTaskStatus(ended)]
       /\ task' = ended
    /\ UNCHANGED << instance, ran, splitVars, updateVars, taskStatus, cleanUpDue, infoVars,
                    statusFetch, failures, budgets >>

\* cleanUpLocally: an info that is not terminal takes over the status.
cleanUpLocally(info, status) == newest(info, status)

ReceiveCleanup ==
    /\ cleanup.phase = "answered"
    /\ \E status \in statusAfter(cleanup.value), info \in newest(taskInfo, cleanup.value) :
         /\ setStatus(status)
         /\ \E local \in cleanUpLocally(info, status) : setInfo(local)
    /\ cleanup' = [cleanup EXCEPT !.phase = "over", !.value = initialTaskStatus]
    /\ UNCHANGED << workerVars, splitVars, updateVars, statusFetch, failures, budgets >>

\* The request fails: it is sent again, or given up after enough tries.
CleanupFailed ==
    /\ "cleanup" \in scenario.events /\ cleanup.phase \in {"sent", "answered"} /\ losses < scenario.losses
    /\ losses' = losses + 1
    /\ failures' = [failures EXCEPT !.cleanup = @ + 1]
    /\ \/ /\ cleanup' = [cleanup EXCEPT !.phase = "sent", !.value = initialTaskStatus]
          /\ UNCHANGED infoVars
       \/ /\ failures.cleanup + 1 >= scenario.tries
          /\ cleanup' = [cleanup EXCEPT !.phase = "over", !.value = initialTaskStatus]
          /\ \E info \in cleanUpLocally(taskInfo, taskStatus) : setInfo(info)
    /\ UNCHANGED << workerVars, splitVars, updateVars, taskStatus, cleanUpDue, statusFetch, polls, scenario >>

\* Steps of the worker alone.
WorkerStep ==
    /\ checkTaskCompletion \/ ("fail" \in scenario.events /\ failed)
       \/ (instance <= scenario.restarts /\ Restart)
    /\ UNCHANGED << splitVars, updateVars, statusVars, infoVars, statusFetch, failures, budgets >>

Next ==
    \/ \E s \in Sources : addSplits(s) \/ setNoMoreSplits(s)
    \/ RunScheduled
    \/ \E c \in calls : \/ Execute(c) \/ Lose(c) \/ fatal(c)
                        \/ ReceiveUpdate(c) \/ processTaskUpdate(c)
                        \/ UpdateFailed(c) \/ recordFailure(c) \/ SendNext(c)
    \/ \E request \in late : ExecuteLate(request)
    \/ scheduleNextRequest \/ AnswerStatus \/ ReceiveStatus \/ StatusFailed
    \/ AnswerInfo \/ ReceiveInfo \/ InfoFailed
    \/ cancel \/ abort \/ cleanUpTask
    \/ ExecuteCleanup \/ ReceiveCleanup \/ CleanupFailed
    \/ WorkerStep

Spec == Init /\ [][Next]_vars

\* The executor runs what is handed to it, the worker handles and answers
\* what reaches it and completes its task, and a request that fails fails.
UpdateStep ==
    \/ RunScheduled
    \/ \E c \in calls : \/ Execute(c) \/ ReceiveUpdate(c) \/ processTaskUpdate(c)
                        \/ UpdateFailed(c) \/ recordFailure(c) \/ SendNext(c)
StatusStep == scheduleNextRequest \/ AnswerStatus \/ ReceiveStatus
InfoStep == AnswerInfo \/ ReceiveInfo
CleanupStep == cleanUpTask \/ ExecuteCleanup \/ ReceiveCleanup
Completion ==
    /\ checkTaskCompletion
    /\ UNCHANGED << splitVars, updateVars, statusVars, infoVars, statusFetch, failures, budgets >>

LiveSpec ==
    /\ Spec
    /\ WF_vars(UpdateStep) /\ WF_vars(StatusStep) /\ WF_vars(InfoStep)
    /\ WF_vars(CleanupStep) /\ WF_vars(Completion)

-----------------------------------------------------------------------------
(* Properties.                                                             *)

Carried == { posted(c) : c \in { d \in calls : d.phase = "sent" } } \cup late

\* updateSources: no instance of the task starts a split twice, however often
\* and in whatever order updates that carry it are handled; and the instance
\* the coordinator knows gets no new split for a source that it was told is
\* complete.
SplitsStartOnce ==
    /\ \A i \in Instances, n \in SplitIds : ran[i][n] <= 1
    /\ taskStatus.instance \in {0, instance} =>
         \A request \in Carried : ~addedAfterNoMore(request.sources)

\* A task that the coordinator takes for finished has started every split of
\* the coordinator, all on the instance that finished: splits acknowledged by
\* a worker that then lost its task are never missed (taskInstanceId).
FinishedIsComplete ==
    taskStatus.state = "FINISHED" =>
        \A n \in 0 .. nextSplitId - 1 : ran[taskStatus.instance][n] = 1

\* No update is forgotten: while the task is not done, a split or a
\* noMoreSplits that is pending is carried by an update whose callback is
\* still to come, or sendUpdate will be called and finds needsUpdate set; and
\* pendingSourceSplitCount is the number of pending splits, in whatever order
\* the callbacks of two updates and the clean-up run, which leaves none.
UpdateIsUnderWay ==
    /\ pendingSourceSplitCount = Cardinality(UNION { pendingSplits[s] : s \in Sources })
    /\ isDone(taskStatus.state) /\ ~cleanUpDue => \A s \in Sources : pendingSplits[s] = {}
    /\ \A s \in Sources :
        /\ ~isDone(taskStatus.state)
        /\ pendingSplits[s] # {} \/ noMoreSplits[s] = "pending"
        => \/ needsUpdate /\ (scheduled \/ calls # {})
           \/ \E c \in calls : /\ c.phase # "send"
                               /\ \E x \in c.sources : /\ x.source = s
                                                       /\ pendingSplits[s] \subseteq x.splits
                                                       /\ x.noMoreSplits \/ noMoreSplits[s] = "absent"

\* A worker that lost the task the coordinator knows is noticed: the task ends
\* instead of waiting for splits and output that nobody produces.
LostTaskIsNoticed ==
    taskStatus.instance \notin {0, instance} ~> isDone(taskStatus.state)

\* A task whose sources are complete ends, and its final info becomes known,
\* which is what the stage waits for.
TaskEnds ==
    (\A s \in Sources : noMoreSplits[s] # "absent") ~> isDone(taskInfo.state)
=============================================================================
