------------------------- MODULE QueryStateMachine -------------------------
(***************************************************************************)
(* How one query ends, and what the coordinator then says about it: the    *)
(* transitions of QueryStateMachine, the planning thread, the callback and *)
(* the readers of SqlQueryExecution, the listeners of SqlQueryScheduler,   *)
(* the Kill and Preempt requests of QueryResource, and the expiration of   *)
(* QueryTracker.  Each runs on its own thread, and nothing but the atomic  *)
(* cells queryState, failureCause, queryScheduler and finalQueryInfo holds *)
(* them together, so every access to one of these is a step of its own.    *)
(* StateMachine.setIf retries until its compare and set succeeds, so it is *)
(* one step.  A listener is called once, some time after what it waits     *)
(* for: what it does not see then, it never sees.                          *)
(***************************************************************************)
EXTENDS Integers

CONSTANTS Failer,      \* calls that end the query with an error
          Resource,    \* those that are Kill and Preempt requests
          Committer,   \* the one that reports a failed commit
          CauseOf,     \* the error code each of them brings
          Reader,      \* callers of getQueryInfo
          Stage        \* of the query

ASSUME CallerAssumption == Resource \subseteq Failer \ {Committer} /\ Committer \in Failer
ASSUME CauseAssumption == /\ \A f \in Failer : CauseOf[f] # "null"
                          /\ \A f, g \in Failer : CauseOf[f] = CauseOf[g] => f = g
ASSUME StageAssumption == Stage # {} /\ "query" \notin Stage

VARIABLES queryState, failureCause,
          commit,          \* "none", "pending" or "done": the asynchronous commit
          planning,        \* where the planning thread is
          queryScheduler,  \* "set", or null: "unset" yet, or "dropped"
          stages,          \* each Stage: "none" yet, "running", or its info is "final"
          callback,        \* that of SqlQueryExecution on the end of the query
          listener,        \* those of SqlQueryScheduler on that end and on each stage's
          finalQueryInfo,  \* "empty", or what the info was built from
          tracked,         \* QueryTracker has the query
          expiring,        \* ... and has it in the expiration queue
          pc, answer,      \* of each Failer
          reader           \* of each Reader: where it is and what it has read

execution == << planning, queryScheduler, stages, callback, listener >>
failers == << pc, answer >>
tracker == << tracked, expiring >>
vars == << queryState, failureCause, commit, execution, finalQueryInfo, tracker, failers, reader >>

\* QueryState, in the order of its ordinals.
Ordinal == [QUEUED |-> 0, WAITING_FOR_RESOURCES |-> 1, PLANNING |-> 2, STARTING |-> 3,
            RUNNING |-> 4, FINISHING |-> 5, FINISHED |-> 6, FAILED |-> 7]
Done == {"FINISHED", "FAILED"}
isDone == queryState \in Done

Listener == Stage \cup {"query"}
allFinal == \A s \in Stage : stages[s] = "final"

\* SqlQueryScheduler.abort has been called.
Aborted == callback = "aborted" \/ planning = "aborted"

\* An info by the scheduler it was built from: none, because it was "early" or "late",
\* or one with its "stages".
InfoOf == [unset |-> "early", dropped |-> "late", set |-> "stages"]

Init ==
    /\ queryState = "QUEUED" /\ failureCause = "null" /\ commit = "none"
    /\ planning = "start" /\ queryScheduler = "unset" /\ stages = [s \in Stage |-> "none"]
    /\ callback = "waiting" /\ listener = [l \in Listener |-> "waiting"]
    /\ finalQueryInfo = "empty"
    /\ tracked = TRUE /\ expiring = FALSE
    /\ pc = [f \in Failer |-> "start"] /\ answer = [f \in Failer |-> "none"]
    /\ reader = [r \in Reader |-> [pc |-> "idle", scheduler |-> "unset", final |-> FALSE, late |-> FALSE]]

-----------------------------------------------------------------------------
(* Forward transitions. *)

\* The transitions that only move forward: setIf(s, ordinal < s.ordinal).
setIfBefore(s) == queryState' = IF Ordinal[queryState] < Ordinal[s] THEN s ELSE queryState

transitionToWaitingForResources ==
    /\ planning = "start"
    /\ setIfBefore("WAITING_FOR_RESOURCES")
    /\ UNCHANGED << failureCause, commit, execution, finalQueryInfo, tracker, failers, reader >>

\* startExecution: the query is planned unless it has ended.
transitionToPlanning ==
    /\ planning = "start"
    /\ setIfBefore("PLANNING")
    /\ planning' = IF queryState' # queryState THEN "distribute" ELSE "over"
    /\ UNCHANGED << failureCause, commit, queryScheduler, stages, callback, listener, finalQueryInfo, tracker, failers, reader >>

\* planDistribution, up to the check that comes before the scheduler is created.
planDistribution ==
    /\ planning = "distribute"
    /\ planning' = IF isDone THEN "over" ELSE "create"
    /\ UNCHANGED << queryState, failureCause, commit, queryScheduler, stages, callback, listener, finalQueryInfo, tracker, failers, reader >>

\* SqlQueryScheduler adds its listeners as it is created.
createScheduler ==
    /\ planning = "create"
    /\ queryScheduler' = "set" /\ stages' = [s \in Stage |-> "running"]
    /\ planning' = "recheck"
    /\ UNCHANGED << queryState, failureCause, commit, callback, listener, finalQueryInfo, tracker, failers, reader >>

\* mutant: the scheduler of a query that ended meanwhile is left to the callback
recheckNothing ==
    /\ planning = "recheck"
    /\ planning' = "starting"
    /\ UNCHANGED << queryState, failureCause, commit, queryScheduler, stages, callback, listener, finalQueryInfo, tracker, failers, reader >>

\* "if query was canceled during scheduler creation, abort the scheduler directly
\* since the callback may have already fired", and drop it.
recheckScheduler ==
    /\ planning = "recheck"
    /\ IF isDone THEN queryScheduler' = "dropped" /\ planning' = "aborted"
                 ELSE planning' = "starting" /\ UNCHANGED queryScheduler
    /\ UNCHANGED << queryState, failureCause, commit, stages, callback, listener, finalQueryInfo, tracker, failers, reader >>

transitionToStarting ==
    /\ planning = "starting"
    /\ setIfBefore("STARTING")
    /\ planning' = IF queryState' # queryState THEN "start scheduler" ELSE "over"
    /\ UNCHANGED << failureCause, commit, queryScheduler, stages, callback, listener, finalQueryInfo, tracker, failers, reader >>

startScheduler ==
    /\ planning = "start scheduler"
    /\ planning' = IF isDone THEN "over" ELSE "started"
    /\ UNCHANGED << queryState, failureCause, commit, queryScheduler, stages, callback, listener, finalQueryInfo, tracker, failers, reader >>

\* The scheduler's listeners: a stage runs, the root stage has finished.
transitionToRunning ==
    /\ planning = "started"
    /\ setIfBefore("RUNNING")
    /\ UNCHANGED << failureCause, commit, execution, finalQueryInfo, tracker, failers, reader >>

transitionToFinishing ==
    /\ planning = "started"
    /\ queryState # "FINISHING" /\ ~isDone
    /\ queryState' = "FINISHING"
    /\ commit' = "pending"
    /\ UNCHANGED << failureCause, execution, finalQueryInfo, tracker, failers, reader >>

\* The commit succeeded (or there was none to make).
transitionToFinished ==
    /\ commit = "pending"
    /\ commit' = "done"
    /\ queryState' = IF isDone THEN queryState ELSE "FINISHED"
    /\ UNCHANGED << failureCause, execution, finalQueryInfo, tracker, failers, reader >>

\* "query is now done, so abort any work that is still running", if it finds any.
abortCallback ==
    /\ callback = "waiting" /\ isDone
    /\ callback' = IF queryScheduler = "set" THEN "aborted" ELSE "over"
    /\ UNCHANGED << queryState, failureCause, commit, planning, queryScheduler, stages, listener, finalQueryInfo, tracker, failers, reader >>

\* All tasks of a stage have ended, by themselves or because they were aborted.
stageEnds(s) ==
    /\ stages[s] = "running"
    /\ planning = "started" \/ Aborted
    /\ stages' = [stages EXCEPT ![s] = "final"]
    /\ UNCHANGED << queryState, failureCause, commit, planning, queryScheduler, callback, listener, finalQueryInfo, tracker, failers, reader >>

-----------------------------------------------------------------------------
(* Failing a query. *)

Finished(f, code) == /\ pc' = [pc EXCEPT ![f] = "over"]
                     /\ answer' = [answer EXCEPT ![f] = code]

\* QueryResource.failQuery: "check before killing ... (this is racy)".
checkQuery(f) ==
    /\ f \in Resource /\ pc[f] = "start"
    /\ CASE ~tracked -> Finished(f, "GONE")
         [] tracked /\ isDone -> Finished(f, "CONFLICT")
         [] OTHER -> pc' = [pc EXCEPT ![f] = "cause"] /\ UNCHANGED answer
    /\ UNCHANGED << queryState, failureCause, commit, execution, finalQueryInfo, tracker, reader >>

\* The other callers: stages, time limits, cancellation, a failed commit.
startFailing(f) ==
    /\ f \notin Resource /\ pc[f] = "start"
    /\ IF f = Committer THEN commit = "pending" /\ commit' = "done" ELSE UNCHANGED commit
    /\ pc' = [pc EXCEPT ![f] = "cause"]
    /\ UNCHANGED << queryState, failureCause, execution, finalQueryInfo, tracker, answer, reader >>

\* mutant: the last failure is the one recorded
setLastCause(f) ==
    /\ pc[f] = "cause"
    /\ pc' = [pc EXCEPT ![f] = "state"]
    /\ failureCause' = CauseOf[f]
    /\ UNCHANGED << queryState, commit, execution, finalQueryInfo, tracker, answer, reader >>

\* transitionToFailed, first cell.  A query that is no longer tracked is not touched.
setCause(f) ==
    /\ pc[f] = "cause"
    /\ IF f \in Resource /\ ~tracked
       THEN pc' = [pc EXCEPT ![f] = "verify"] /\ UNCHANGED failureCause
       ELSE /\ pc' = [pc EXCEPT ![f] = "state"]
            /\ failureCause' = IF failureCause = "null" THEN CauseOf[f] ELSE failureCause
    /\ UNCHANGED << queryState, commit, execution, finalQueryInfo, tracker, answer, reader >>

\* mutant: a failure overrides any state
SetFailedAlways(f) ==
    /\ pc[f] = "state"
    /\ pc' = [pc EXCEPT ![f] = IF f \in Resource THEN "verify" ELSE "over"]
    /\ queryState' = "FAILED"
    /\ UNCHANGED << failureCause, commit, execution, finalQueryInfo, tracker, answer, reader >>

\* transitionToFailed, second cell.
setFailed(f) ==
    /\ pc[f] = "state"
    /\ pc' = [pc EXCEPT ![f] = IF f \in Resource THEN "verify" ELSE "over"]
    /\ queryState' = IF isDone THEN queryState ELSE "FAILED"
    /\ UNCHANGED << failureCause, commit, execution, finalQueryInfo, tracker, answer, reader >>

\* What getQueryInfo says of the failure.
ErrorCode == IF queryState = "FAILED" THEN failureCause ELSE "null"

\* "verify if the query was failed (if not, we lost the race)"
verifyFailed(f) ==
    /\ pc[f] = "verify"
    /\ Finished(f, CASE ~tracked -> "GONE"
                     [] tracked /\ ErrorCode = CauseOf[f] -> "OK"
                     [] OTHER -> "CONFLICT")
    /\ UNCHANGED << queryState, failureCause, commit, execution, finalQueryInfo, tracker, reader >>

-----------------------------------------------------------------------------
(* Reading and caching what is known of the query. *)

\* SqlQueryExecution.getQueryInfo: the scheduler is read before finalQueryInfo.
readScheduler(r) ==
    /\ reader[r].pc = "idle"
    /\ reader' = [reader EXCEPT ![r].pc = "final", ![r].scheduler = queryScheduler, ![r].late = FALSE]
    /\ UNCHANGED << queryState, failureCause, commit, execution, finalQueryInfo, tracker, failers >>

\* The caller is told this; of what it says, only that it came too "late" is kept.
Told(info) == [pc |-> "idle", scheduler |-> "unset", final |-> FALSE, late |-> info = "late"]

readFinal(r) ==
    /\ reader[r].pc = "final"
    /\ reader' = [reader EXCEPT ![r] =
          IF finalQueryInfo # "empty" THEN Told(finalQueryInfo) ELSE [@ EXCEPT !.pc = "stages"]]
    /\ UNCHANGED << queryState, failureCause, commit, execution, finalQueryInfo, tracker, failers >>

\* buildQueryInfo: without a scheduler there are no stages, and none that is not final.
readStages(r) ==
    /\ reader[r].pc = "stages"
    /\ reader' = [reader EXCEPT ![r].pc = "build", ![r].final = (reader[r].scheduler = "set" => allFinal)]
    /\ UNCHANGED << queryState, failureCause, commit, execution, finalQueryInfo, tracker, failers >>

\* mutant: the cached info is replaced
replaceInfo(r) ==
    /\ reader[r].pc = "build"
    /\ LET final == isDone /\ reader[r].final
       IN  /\ finalQueryInfo' = IF final THEN InfoOf[reader[r].scheduler] ELSE finalQueryInfo
           /\ queryScheduler' = IF final /\ queryScheduler = "set" THEN "dropped" ELSE queryScheduler
    /\ reader' = [reader EXCEPT ![r] = Told(InfoOf[reader[r].scheduler])]
    /\ UNCHANGED << queryState, failureCause, commit, planning, stages, callback, listener, tracker, failers >>

\* updateQueryInfo reads the state after the stages, and caches the first final info.
\* An info without stages is final as soon as the state is done (isFinalQueryInfo).
\* The scheduler is dropped after that, and with it nothing a reader would still need.
buildInfo(r) ==
    /\ reader[r].pc = "build"
    /\ LET final == isDone /\ reader[r].final
       IN  /\ finalQueryInfo' = IF final /\ finalQueryInfo = "empty"
                                THEN InfoOf[reader[r].scheduler] ELSE finalQueryInfo
           /\ queryScheduler' = IF final /\ queryScheduler = "set" THEN "dropped" ELSE queryScheduler
    /\ reader' = [reader EXCEPT ![r] = Told(InfoOf[reader[r].scheduler])]
    /\ UNCHANGED << queryState, failureCause, commit, planning, stages, callback, listener, tracker, failers >>

\* SqlQueryScheduler's listeners, called once each: on the end of the query and on the
\* final info of each stage.  They read the stages first ...
listenerReads(l) ==
    /\ listener[l] = "waiting"
    /\ IF l = "query" THEN isDone /\ queryScheduler # "unset" ELSE stages[l] = "final"
    /\ listener' = [listener EXCEPT ![l] = IF allFinal THEN "build" ELSE "over"]
    /\ UNCHANGED << queryState, failureCause, commit, planning, queryScheduler, stages, callback, finalQueryInfo, tracker, failers, reader >>

\* ... and then, in updateQueryInfo, the state.
listenerUpdates(l) ==
    /\ listener[l] = "build"
    /\ listener' = [listener EXCEPT ![l] = "over"]
    /\ finalQueryInfo' = IF isDone /\ finalQueryInfo = "empty" THEN "stages" ELSE finalQueryInfo
    /\ UNCHANGED << queryState, failureCause, commit, planning, queryScheduler, stages, callback, tracker, failers, reader >>

\* QueryTracker: a query with a final info expires, is pruned, and is removed.
expireQuery ==
    /\ finalQueryInfo # "empty" /\ ~expiring
    /\ expiring' = TRUE
    /\ UNCHANGED << queryState, failureCause, commit, execution, finalQueryInfo, tracked, failers, reader >>

pruneQueryInfo ==
    /\ tracked /\ expiring /\ finalQueryInfo = "stages"
    /\ finalQueryInfo' = "pruned"
    /\ UNCHANGED << queryState, failureCause, commit, execution, tracker, failers, reader >>

removeExpiredQuery ==
    /\ tracked /\ expiring
    /\ tracked' = FALSE
    /\ UNCHANGED << queryState, failureCause, commit, execution, finalQueryInfo, expiring, failers, reader >>

-----------------------------------------------------------------------------

Forward ==
    \/ transitionToWaitingForResources \/ transitionToPlanning \/ planDistribution
    \/ createScheduler \/ recheckScheduler \/ transitionToStarting \/ startScheduler
    \/ transitionToRunning \/ transitionToFinishing \/ transitionToFinished

Ending == abortCallback \/ \E s \in Stage : stageEnds(s)

Failing == \E f \in Failer : checkQuery(f) \/ startFailing(f) \/ setCause(f) \/ setFailed(f) \/ verifyFailed(f)

Reading == \E r \in Reader : readScheduler(r) \/ readFinal(r) \/ readStages(r) \/ buildInfo(r)

Listening == \E l \in Listener : listenerReads(l) \/ listenerUpdates(l)

Tracking == expireQuery \/ pruneQueryInfo \/ removeExpiredQuery

Next == Forward \/ Ending \/ Failing \/ Reading \/ Listening \/ Tracking

\* Threads run: a request that was sent is handled, the planning thread goes on once it
\* has a scheduler, listeners are called, and an aborted task ends.  Nothing makes a
\* reader come, a query finish, or a stage end that nobody aborts.
Fairness ==
    /\ \A f \in Failer : WF_vars(checkQuery(f) \/ setCause(f) \/ setFailed(f) \/ verifyFailed(f))
    /\ WF_vars(recheckScheduler) /\ WF_vars(abortCallback)
    /\ \A s \in Stage : WF_vars(Aborted /\ stageEnds(s))
    /\ \A l \in Listener : WF_vars(listenerReads(l) \/ listenerUpdates(l))

Spec == Init /\ [][Next]_vars /\ Fairness

-----------------------------------------------------------------------------
(* Properties. *)

TypeOK ==
    /\ queryState \in DOMAIN Ordinal
    /\ failureCause \in {CauseOf[f] : f \in Failer} \cup {"null"}
    /\ commit \in {"none", "pending", "done"}
    /\ planning \in {"start", "distribute", "create", "recheck", "starting", "start scheduler",
                    "started", "aborted", "over"}
    /\ queryScheduler \in {"unset", "set", "dropped"} /\ stages \in [Stage -> {"none", "running", "final"}]
    /\ callback \in {"waiting", "aborted", "over"} /\ listener \in [Listener -> {"waiting", "build", "over"}]
    /\ finalQueryInfo \in {"empty", "early", "late", "stages", "pruned"}
    /\ tracked \in BOOLEAN /\ expiring \in BOOLEAN
    /\ pc \in [Failer -> {"start", "cause", "state", "verify", "over"}]
    /\ answer \in [Failer -> {"none", "OK", "CONFLICT", "GONE"}]
    /\ reader \in [Reader -> [pc : {"idle", "final", "stages", "build"},
                              scheduler : {"unset", "set", "dropped"}, final : BOOLEAN, late : BOOLEAN]]

\* QueryStateMachine.java:761: "The failure cause must be set before triggering the
\* state change": a failed query always has a cause, though the call that records
\* the cause and the one that changes the state need not be the same.
FailureIsExplained == queryState = "FAILED" => failureCause # "null"

\* A query ends once: its state and the error code reported for it never change
\* afterwards, whoever still tries to fail or to finish it.
OutcomeIsStable == [][isDone => queryState' = queryState /\ ErrorCode' = ErrorCode]_vars

\* A Kill or Preempt request is told the truth about its own effect (when all
\* causes differ): OK exactly if the query ended with its error code, and CONFLICT
\* only for a query that ended some other way.
AnswersAreTrue ==
    \A f \in Resource :
        /\ answer[f] = "OK" => ErrorCode = CauseOf[f]
        /\ answer[f] = "CONFLICT" => isDone /\ ErrorCode # CauseOf[f]
        /\ answer[f] = "GONE" => ~tracked

\* The final info is one of an ended query, and one that shows stages is cached only
\* when all of them have ended.
CachedAtTheEnd == finalQueryInfo # "empty" => isDone /\ (finalQueryInfo \in {"stages", "pruned"} => allFinal)

\* SqlQueryExecution.java:597: the scheduler is dropped only after the final info was
\* cached, and read before it is looked for.  So nobody who looks once there was a
\* scheduler is told of a query without stages, nor makes this its final info, except
\* of one that had ended while its scheduler was created.
StagesAreSeen == finalQueryInfo = "late" \/ (\E r \in Reader : reader[r].late) => planning = "aborted"

\* The first final info stays, whoever else builds one; only pruning changes it.
CachedForGood ==
    finalQueryInfo # "empty" => \/ finalQueryInfo' = finalQueryInfo
                                \/ finalQueryInfo = "stages" /\ finalQueryInfo' = "pruned"

\* What is cached as the final info is final, it is never lost, and callers of
\* getQueryInfo are not told of less.  A reader that looked before there was a scheduler
\* is outside of StagesAreSeen: it may come back after the end and cache its info
\* without stages ("early"), be they still running or not.
FinalInfoIsFinal == [][CachedAtTheEnd' /\ StagesAreSeen' /\ CachedForGood]_vars

\* A query that has or gets a scheduler and ends has its stages ended and its final
\* info cached, so that it expires and the coordinator does not leak it, though each of
\* the callback and the listeners looks once, and at different times: the last of the
\* events they wait for is seen by the listener that waits for it.  The exception is the
\* reader that came too early: its info is cached, but it drops the scheduler, and a
\* callback that comes after it aborts nothing.
FinalInfoIsCached ==
    (isDone /\ queryScheduler # "unset") ~>
        (finalQueryInfo = "early" \/ (finalQueryInfo # "empty" /\ allFinal))
=============================================================================
