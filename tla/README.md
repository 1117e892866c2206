# Presto in TLA+: exchanges, queries, memory and the web interface

Presto runs a query as stages of tasks on many workers. A task's drivers write
pages to the task's *output buffer*; the tasks of the next stage pull them over
HTTP. The coordinator assigns splits to tasks, follows them, decides how the query
ended, and hands the rows to a client. A web interface polls the coordinator and
the workers and shows all of this. The project models

* the way of a page, from the driver that adds it to the consumer that takes it,
  with the threads, the network and the ends of tasks in between;
* the way of a split from the coordinator to a task, and of the task's end back;
* how a query ends and what is said about it, and how its rows reach a client;
* the memory pools of a worker;
* the pages of the web interface and the connector for Tableau: what they show and
  keep while answers, errors, timers and clicks come in any order.

Paths of Java files are relative to `presto-main/src/main/java/io/prestosql/`, those
of the web interface to `presto-main/src/main/resources/webapp/`.

## The system and its parts

| part | code | state that matters | modules |
|---|---|---|---|
| client buffer | `execution/buffer/ClientBuffer` | pages, `currentSequenceId`, `noMorePages`, `destroyed`, `pendingRead` | `ClientBuffer` |
| exchange protocol | `operator/HttpPageBufferClient`, `server/TaskResource` (results) | `token`, `completed`, `closed`, `future`, `taskInstanceId`; requests and answers under way | `ExchangeProtocol`, `PageChannel` |
| broadcast output buffer | `execution/buffer/BroadcastOutputBuffer`, `BufferState`, `SerializedPageReference`, `OutputBuffers` | buffer state, client buffers, initial pages, reference counts | `BroadcastOutputBuffer` |
| output buffer memory | `execution/buffer/OutputBufferMemoryManager` | `bufferedBytes`, `bufferBlockedFuture`, `blockedOnMemory`, `blockOnFull`, `closed` | `OutputBufferMemory` |
| end of a task | `execution/SqlTaskExecution.checkTaskCompletion`, driver callbacks, `TaskStateMachine`, listener of `SqlTask` | task state, remaining drivers | `TaskOutput` |
| tasks of a worker, as the coordinator sees them | `execution/SqlTask`, `SqlTaskExecution.updateSources`, `SqlTaskManager` | task instance, splits taken, state | `WorkerTask` |
| remote tasks | `server/remotetask/` | pending splits, `needsUpdate`, the update under way, status and info | `RemoteTask` |
| queries | `execution/QueryStateMachine`, `SqlQueryExecution`, `QueryTracker`, listeners of `scheduler/SqlQueryScheduler`, `server/QueryResource` | query state, failure cause, commit, scheduler, stages, listeners, final information | `QueryStateMachine` |
| statement protocol | `server/protocol/Query` | token, cached result | `QueryResults`, `RowStream` |
| connector for Tableau | `tableau/presto-client.js`, `tableau/presto-connector.html` | results at hand, buffered rows, callbacks | `StatementClient` |
| memory of a worker | `memory/MemoryPool`, `QueryContext`, `LocalMemoryManager` | reservations per query and tag, the pool's future, moves | `MemoryPool` |
| list of queries | `src/components/QueryList.jsx` | all and displayed queries, filters, timers | `QueryList`, `QueryDisplay`, `QueryViews` |
| page of a query | `src/components/QueryDetail.jsx` | snapshots, samples, timers | `QueryDetail`, `StageSummary`, `QueryViews`, `RefreshLoop` |
| live plan | `src/components/LivePlan.jsx` | the graph, updated in place | `LivePlan`, `RefreshLoop` |
| page of a stage | `src/components/StageDetail.jsx` | selected stage, drawing, dialog | `StageDetail`, `OperatorGraph`, `RefreshLoop` |
| overview of the cluster, title bar | `src/components/ClusterHUD.jsx`, `PageTitle.jsx` | samples; light and dialog | `ClusterHUD`, `PageTitle` |
| pages of a worker | `src/components/WorkerStatus.jsx`, `WorkerThreadList.jsx` | memory pools shown; snapshot of threads | `WorkerStatus` (over `MemoryPool`), `WorkerThreadList` |
| formats, display and samples | `src/utils.js`, `QueryHeader.jsx` | none | `Formats`, `QueryDisplay`, `Sparklines` |
| what is not modelled | | | see [Not modelled](#not-modelled) |

`PROJECT.json` has the same list with every part's sources, and the hazards of
each at the line of code where they bite.

## Modules

Each step of a model is what the code does atomically: the body of a
`synchronized` block, one compare-and-set, one turn of a loop over a snapshot, or
one message. What the code does after it has released a lock is another step.
Definitions keep the names of the methods and fields they stand for; the `map` of
`PROJECT.json` gives their lines. Definitions that are called a *mutant* in their
comment are faulty variants of the definition below them. They are not part of
any specification; replacing the definition by its variant makes TLC report the
property named in `PROJECT.json`, which shows that the property sees that fault.

### ClientBuffer
One consumer's buffer as a record, and each synchronized block of
`ClientBuffer.java` as a function of that record. Pages are numbered from 0;
`pages` is the window that starts at `currentSequenceId`. A thread that adds pages
takes the pending read out under the lock and answers it afterwards: `ReadTaken`
is what it takes. Sizes matter only for how many pages an answer holds
(`FittingPages`: what fits in `maxSize`, but at least one page).

### ExchangeProtocol and PageChannel
One client buffer behind the results endpoints of `TaskResource` and one
`HttpPageBufferClient`.

* A get acknowledges all pages before its token (`HandleGetAcknowledge`) and then
  reads (`HandleGetRead`): two calls of the output buffer, hence two steps. A read
  that waits is answered by the thread that takes it (`ProcessTakenRead`), by its
  timeout (`AnswerTimeout`), or with an empty result when it is pushed out by
  another read, a delete or a cancel (`CompleteWithEmpty`).
* The network: the request in flight may fail at any point (`RequestFails`), also
  when the server has handled it and has sent its answer. A request that the
  client no longer waits for stays in `lateGets`, `acknowledgements` or
  `lateDelete`, and may arrive any number of times, in any order, or never.
* The worker may be restarted (`Restart`): a new task instance under the same
  location, with its own pages. The client is bound to the instance that answers
  first (`SameInstance`).
* `ReceivePages` is the whole of `onSuccess`. Only `close` can run between its two
  synchronized blocks, and then the pages are rejected and the end of the request
  changes nothing.
* A client whose backoff gives up fails (`failed`); how long that takes is
  abstracted to a choice.

`PageChannel` is what a consumer may rely on: it is attached to one source and
gets a growing prefix of that source's pages, and is told that this is all only
when it is, unless the source was cancelled. `ImplementsChannel` is the
refinement, with `sent` and `ended` of the instance the client is bound to as the
source.

### BroadcastOutputBuffer
Every operation of the buffer with its threads: drivers in `enqueue`, the thread
that calls `setNoMorePages`, the coordinator's `setOutputBuffers`, `destroy` and
`fail`, and consumers that get and abort. `setOutputBuffers` reads and changes the
state several times while it holds the monitor, so `lock` is explicit. Client
buffers are those of `ClientBuffer`. A consumer is the exchange without the
network: `Get` acknowledges what it has and reads what there is.
`checkFlushComplete` reads the state twice (`WaitsForFlush`): a caller that saw
NO_MORE_BUFFERS and then sees FLUSHING returns without having looked.
`SerializedPageReference` is an explicit counter per page. The versions of
`OutputBuffers` that the coordinator sends are the constant `History`; there is
one update at a time, as a task's updates come from one `HttpRemoteTask`, which
has one request under way.

### OutputBufferMemory
The memory manager, the drivers that wait for room, the notification executor that
completes futures some time later, and the memory pool. Only the current
`bufferBlockedFuture` can be incomplete, so the model keeps that one and whether
its completion is queued. Left out are a memory context that is gone because the
task is already aborted, and a `setBytes` that throws because the query is over
its limit: both are part of a task that is being torn down.

### TaskOutput
`TaskOutput` composes the broadcast buffer with the end of its task: callbacks of
drivers that succeed or fail, `checkTaskCompletion` in its three reads (the task's
state, the number of drivers, the buffer's state), the listener on the buffer that
calls it again, the task's state machine and the listener of `SqlTask` that
destroys or fails the buffer later, on another thread. All drivers exist from the
start.

### WorkerTask and RemoteTask
`RemoteTask` is `HttpRemoteTask` with `ContinuousTaskStatusFetcher` and
`TaskInfoFetcher`; `WorkerTask` is the task at the other end. Each step is one
critical section. The callbacks of an update take the lock more than once, so an
update is a record in `calls` that goes through several steps, and `currentRequest`
may already belong to the next one. An update the coordinator gave up on is in
`late` and may still arrive. Statuses and infos carry an instance id and a state, which
decide whether they replace what is known. Their version is not modelled: within an
instance it follows the state, and between two instances it says nothing (`newest`).
So the model does not tell whether an older status of a running task can replace a
newer one. The worker may restart, or drop the task: the next request that names it then creates a new instance with no splits.
A behaviour follows one of the `Scenarios`, which says how many splits, calls, losses
and restarts there are and which other events happen, because all of them together
are too many states; every event is in some scenario.

### QueryStateMachine
One query, the planning thread, any number of threads that fail it or ask to kill
or preempt it (`Failer`), the asynchronous commit, readers of its information, and
expiry. `queryState`, `failureCause`, `queryScheduler` and `finalQueryInfo` are
separate atomic cells in the code, so each access is a step.

* The planning thread checks whether the query has ended before it creates the
  scheduler, after it (`recheckScheduler`, which aborts the scheduler and drops it),
  and before it starts it.
* When the query has ended a callback of `SqlQueryExecution` aborts the stages, if it
  finds a scheduler (`abortCallback`). Listeners of `SqlQueryScheduler`, one on the end
  of the query and one on the final information of each stage, try to cache the final
  information. Each is called once: what it does not see then, it never sees.
  `listenerReads` reads the stages and `listenerUpdates`, some time later, the state.
* A reader of `getQueryInfo` reads the scheduler, `finalQueryInfo`, the stages and the
  state one after the other. It caches what it has built if that is final, which an info
  without stages is as soon as the query has ended (`QueryInfo.isFinalQueryInfo`), and
  drops the scheduler.
* An info is kept as what it was built from (`InfoOf`): the stages, or no scheduler
  because the reader looked before there was one ("early") or after it was dropped
  ("late").
* A stage has no tasks of its own here: it runs, and its information becomes final some
  time after it was started or aborted.

### MemoryPool
Both pools and the drivers that reserve (and may have to wait), try to reserve,
reserve revocable memory and free. Each synchronized method is a step. A move takes
the monitors of both pools, the target's twice, and is several steps; while it is
under way the query's own monitor keeps its drivers out, those of other queries go
on. A pool's future is a flag: it exists and is not done.

### QueryResults, StatementClient and RowStream
`QueryResults` is the coordinator's side of a statement: a request with the current
token makes a new result from the pages that have arrived, one with the previous
token gets the cached result again, any other is refused. `StatementClient` adds the
client of the Tableau connector and its two users, the feed to Tableau (headers
first, rows on demand) and the menus. Requests are synchronous; one that fails for
the client may be served all the same, at once or later. `RowStream` is the
abstract promise: the rows, each once and in order, and the end with or after the
last.

### The pages
All pages follow one scheme. A callback runs to its end, the `setState` calls and
the drawing they cause included, so a callback is one action. The server is a value
that moves by `ServerStep`; an answer carries what the server says when it arrives; a
request may fail. What is on the screen is a variable of its own (`drawn`,
`histogram`, `canvas`, `screen`), because drawing is throttled or done in place and
may lag behind the state. Clicks may come at any time.

* `QueryPages` and `ClusterPages` put them together. A browser shows one page, and the
  parts of a page (title bar, list, drawing) poll and keep state by themselves: there
  is nothing that one of them writes and another reads. A behaviour therefore follows
  one part, named by the variable `part`, and the variables of the others keep a
  neutral value. The `Sample` modules hold the queries, plans, operators and inputs
  they are followed with.
* `RefreshLoop` is what a page promises of its polling: one request or one timer at a
  time, another request after each answer or error, none once the final information
  is there. All the parts of `QueryPages` refine it; the list and the title bar are
  the ones that never get to the end.
* `QueryList` has two timers, one request and the menus. A query is an id and a
  profile; `Info` gives the fields of a profile. The order of equal elements of a
  sort is left open, as browsers differ.
* `QueryDetail` has the snapshots that can be frozen, the samples and their rates.
  The four counters have one treatment; one stands for all. A point is what the counter
  grew by; the time it is divided by is not kept. An answer updates the page twice, and
  each update draws the charts unless that was done within a second. The times are those
  of the browser's clock, which may be set back: time stamps are kept as their age, and
  nothing is drawn until the clock has caught up with the last drawing. `StageSummary`
  is one row of its stage list with its charts.
* `QueryViews` has the functions of these pages that only compute: `input` ranges
  over all small inputs and the properties compare with reference definitions. A text
  is lines of so many characters, cut after `MaxText` of them (300 in the code).
* `LivePlan` keeps one graph and updates it in place. An exception in an update
  makes React unmount the page, which then stays blank.
* `StageDetail` draws outside of its own element and opens a dialog whose component
  is reused by key; `OperatorGraph` computes what is drawn.
* `ClusterHUD`, `PageTitle` poll for as long as they are open. Of the charts and
  rates that are treated alike one is kept. A rate that is divided by zero workers is
  `Infinity` or `MinusInfinity` by the signs of the CPU time and of the time, or `NaN`,
  and the moving average treats them as the browser does: minus infinity is below one
  and takes the average back to zero, the other two stay in it.
* `WorkerStatus` runs on top of `MemoryPool`: the worker describes its pools one
  after the other, in two steps, while drivers and moves go on.
* `WorkerThreadList` takes snapshots on demand, possibly several at once.
* `Formats` has the numbers, sizes, durations and times as digits (hundredths) with
  a unit, up to weeks, Q and P; again `input` ranges over inputs. A number is so many of
  some unit, which keeps it small. Quotients are rounded exactly, where the code rounds
  the nearest binary fraction. A text that is no number is read as `Null`.

## What TLC checks

| run | module, configuration | what it shows |
|---|---|---|
| `exchange_safety` | `MCExchangeProtocol` | `ExactlyOnceInOrder`, `CompleteMeansAllReceived`, `UnreceivedPagesAreKept`, `WaitingReaderHasNothingToRead`, `SequenceIdsAreValid`, and the refinement `ImplementsChannel` |
| `exchange_ends` | `MCExchangeProtocol`, `MCExchangeLive.cfg` | `ExchangeEnds`: the consumer gets to the end and releases the buffer, unless the exchange fails or is closed |
| `broadcast_safety` | `MCBroadcast` | `ReferencesAreExact`, `MemoryIsAccounted`, `CompleteConsumerHasEveryPage`, `BothCallsMeanFlushing` |
| `broadcast_finishes` | `MCBroadcast`, `MCBroadcastLive.cfg` | `BufferFinishes`: whichever call comes last finishes the buffer |
| `task_completion` | `MCTaskOutput` | `FinishedTaskSucceeded`, `CompleteOrNotSuccessful`, `TaskEnds` |
| `failed_task_signals_completion` | `MCTaskOutput`, `MCTaskOutputFailed.cfg` | a counterexample to `CompleteMeansFinishedCleanly`, see below |
| `buffer_memory` | `OutputBufferMemory`, `MCOutputBufferMemory.cfg` | `PoolIsToldOfHeldPages`, `OvershootIsBounded`, `WaitingDriverWillBeWoken`, `WaitingDriverIsWoken` |
| `query_states` | `MCQueryStateMachine` | `AnswersAreTrue` (what a kill request is told), `OutcomeIsStable`, `FinalInfoIsFinal` (the cached information is final, stays, and nobody who looks after the scheduler was made is told less), `FinalInfoIsCached` (the callback and the listeners, each called once, between them end the stages and cache the information) |
| `statement_client` | `StatementClient`, `MCStatementClient.cfg` | `NeverRefused`, the refinement `ImplementsRowStream`, `EndIsReached` |
| `remote_task` | `MCRemoteTask` | `SplitsStartOnce`, `FinishedIsComplete`, `UpdateIsUnderWay`, `LostTaskIsNoticed`, `TaskEnds` |
| `query_pages` | `QueryPages` | `PagesAreTrue`, `PagesAreStable`, `PagesCatchUp`, `OutageIsAnnounced`, and the refinement `ImplementsRefreshLoop`; the first three say of each page what its own module states (`DisplayedAreCurrent`, `DrawingIsThePlan`, `RatesAddUp`, ...) |
| `cluster_pages` | `ClusterPages` | `WaitsOnlyWhenFull`, `ReservationsAddUp`, `FiguresAreTrue`, `ShownCanBeRead`, again over the properties of the parts |

Deadlock is not checked where a system stops when its task, query or page is over.

### Bounds
* `exchange_safety`: two different pages, at most two enqueued by an instance, an
  answer of one or two of them (sizes 1 and 3, limit 2: two small pages fit, and a large
  one is sent alone although it is over the limit), one restart. Two pages
  are enough for an answer that is partly acknowledged, for a late acknowledgement
  in the middle of the window, and for a duplicate of either page; a third would
  only repeat that. Requests are not bounded: the number of late deliveries is
  unlimited. The theorems below cover every bound.
* `exchange_ends`: the same without restart and with one kind of page, as the
  temporal check is dearer.
* `broadcast_safety`: two drivers and two pages, so that two calls of `enqueue`
  interleave; two consumers, one declared at first and one by the final version,
  either of which may also create its buffer by reading first; cancellation or
  failure at any point. The drivers are interchangeable (symmetry); consumers are
  not. `broadcast_finishes` has one page and one driver, and no symmetry.
* `task_completion`: two drivers, so that one can fail while the other completes,
  one consumer and one page.
* `buffer_memory`: three drivers, pages of 1 and 2 bytes, a limit of 2.
  `bufferedBytes` is bounded by the property itself, not by a constraint.
* `query_states`: a kill request, a failing stage and a failing commit, each with its
  own error code, a reader that may come again and again, and two stages, so that one
  listener can see a stage that is not final yet. A preempt request is a second kill
  request with another code; the theorems cover any number of both.
* `statement_client`: four rows in any division into results, three empty answers and
  three failed requests, which is more than the connector ever has behind a token.
* `remote_task`: one source with two splits, at most two calls, and in each scenario
  the losses, restarts and failed polls that are named in `MCRemoteTask`. Two splits
  are needed for an update that overtakes another, one restart for an instance that
  passes for another. No scenario has both a restart and a lost clean-up request.
* `query_pages`: two queries on a list of one row, so that one is always hidden; plans
  of three stages in both shapes; a query that is seen in each of four moments or
  missed in any of them; one or two failed requests, as a page forgets a failure with
  the next success; an answer that by the browser's clock comes three seconds after
  the one before, or, the clock having been set back, at the same time or two seconds
  earlier, and never more than two seconds before the last drawing. The title bar's failed requests take 1 or 20
  seconds; its limit of thirty is not reached and decides nothing, as a failed request
  meets the other half of that condition. The plans of the stage page, those that make
  it go blank included, are the ones of `SampleQueries` and `SampleOperators`, not all small ones.
* `cluster_pages`: two queries, one with two drivers, in pools they can fill and
  overfill; charts of two points, which two more answers push out; CPU time that grows,
  stands still and goes back, with and without workers and under a clock that is set
  back, which gives every kind of number; every task list, thread list and stack trace
  of `SampleInputs`; texts of up to three lines, cut after five characters, so that the
  cut falls before, in and after a line break; and its numbers, chosen around each change
  of a unit and of the number of decimals, of each unit.

### Fairness
* Exchange: threads of both processes run (weak fairness), and a request that is
  repeated for ever is handled and answered for ever again (strong fairness of its
  steps): a network that loses everything makes the client fail by its backoff,
  which is an allowed end. A request to a dead process fails in the end. Nothing
  is assumed about acknowledgements or late requests, nor that anybody closes.
* Broadcast buffer and task: threads that are in a call go on, drivers end, the
  coordinator sends the final version, consumers read and abort. One weak fairness
  condition on their union is enough, as no step can be repeated for ever. Nobody
  has to cancel or fail the task.
* Memory: the notification executor runs what is queued, consumers take pages out,
  the pool gets memory back, and a buffer that is at its end is closed.
* Queries: a thread that has begun to fail the query goes on, the planning thread gets
  to its second check, the callback and the listeners are called, and a stage that was
  aborted ends. Nobody has to read, ask, or commit, and a stage that nobody aborts need
  not end.
* Statements: the query makes progress, the client's loop goes on, and Tableau asks
  for the next rows.
* Remote tasks: each loop of the coordinator (updates, status, info, clean-up) and the
  worker's task go on; requests may be lost as often as the scenario says.
* Pages: a timer that is set fires, a request that was sent is answered or fails, and
  a query goes on to its end. Nobody has to click.

## What does not hold
`checkTaskCompletion` (`execution/SqlTaskExecution.java`, lines 622-649) first
tests that the task is not done and then that no driver remains. A driver that
fails in between moves the task to FAILED and decrements the number of drivers; the
thread inside `checkTaskCompletion` then calls `outputBuffer.setNoMorePages()`,
and a consumer is told that its buffer is complete, although the output of the
failed driver is missing. The listener of `SqlTask` calls `outputBuffer.fail()`
only later, on another thread. This contradicts the comment in that listener
(*closed buffers signal to upstream tasks that everything finished cleanly*) and
that of `BufferState.FAILED` (*Readers will be blocked, as to not communicate a
finished state*). Run `failed_task_signals_completion` shows it in eight steps.
What does hold is `CompleteOrNotSuccessful`: the task is then already known to
have failed, so the query fails as soon as the coordinator learns of it; and
`FinishedTaskSucceeded`: the task never reports FINISHED.

Further disagreements between the code and what it says of itself came up while the
pages and the remote task were modelled. The models follow the code; the properties
that the texts would ask for are not stated, or are stated with the exception.

| place | what the code says | what it does |
|---|---|---|
| `QueryList.jsx:507` | a menu offers "20 queries" as the number to show | a click on a state or error filter lists every matching query, until a later answer cuts the list |
| `SqlQueryExecution.java:600` | `QueryStateMachine.java:348-351`: the state "must be captured first", or "the task states would never be visible" | the scheduler is read before the state: a query that starts and ends in between is described, and cached as final, without stages, and its stages may not be aborted (`FinalInfoIsFinal` and `FinalInfoIsCached` have this exception) |
| `QueryDetail.jsx:823` | the button says "Auto-Refresh: On" | a stage list that was frozen when the final answer came, and is unfrozen then, keeps the old stages for ever; the handler stores them under a name nothing reads |
| `utils.js:172` | "display at most 5 minutes worth of data on the sparklines" | the bound is 300 points, and the page of a query adds one every three seconds |
| `LivePlan.jsx:47` | "Live plan graph will appear automatically when query starts running." | a page that is opened before the query has stages throws, and stays blank |
| `StageDetail.jsx:605` | "Stage does not have a plan" | the menu of stages reads the plan's id first, and the page goes blank |
| `utils.js:234` | "Operator graph will appear automatically when query completes." | a metadata delete has no source, the traversal meets `undefined`, and the page goes blank |
| `StageDetail.jsx:220` | "rows/s" in the drawing and in the dialog | the dialog divides by milliseconds |
| `StageDetail.jsx:372` | the dialog is headed by one operator | its key leaves out the stage: opened for the same number in another stage it keeps the first one's charts |
| `WorkerStatus.jsx:139` | `MemoryPool.java:262`: "Returns the number of free bytes" without the revocable ones | the free part of the bar includes revocable bytes |
| `WorkerStatus.jsx:71` | "Non-Heap Memory Used" | the number of bytes is multiplied by 100 like the percentages above it |
| `WorkerThreadList.jsx:74` | a group "Running Queries" | nothing creates its list, so a snapshot with a thread of a query throws and is never shown |
| `WorkerThreadList.jsx:111` | "No threads in group" | a selected group that is not in the new snapshot makes the page go blank |
| `presto-connector.html:121` | "done pulling the result set" | rows that come with an error are pushed, and the next call reports the end |
| `HttpRemoteTask.java:688` | "we have to set the local query info directly so that we stop trying to fetch updated TaskInfo" | after a cancel whose clean-up request fails for good, the info is set from a status that is not done |

Also seen, and not stated as properties: `BufferState.NO_MORE_BUFFERS` says that
its next state is FLUSHING, while a buffer whose consumers have all aborted goes
straight to FINISHED; and `onMemoryAvailable` looks at the limit but not at
`blockOnFull`, so that a driver that waits for memory after `setNoBlockOnFull`
depends on `close` (which is why `WaitingDriverWillBeWoken` has that case).

## What is proved
TLAPS proves the following for every value of the constants. Each proof finds an
inductive invariant first; the properties follow from it.

`ExchangeProtocolProofs`, assuming only that sizes are natural numbers, the
response limit is positive and the bounds are natural numbers:
* `Invariance`: `Spec => []Inv`. None of the safety properties is inductive.
  `Inv` adds how the window, the token, the requests under way and the answer
  under way fit together: the buffer is the part of the produced pages that starts
  at `currentSequenceId` (`WindowInv`); no request or acknowledgement is ahead of
  the client's token (`TokensInv`), which is why a late one can never drop an
  unreceived page; the client has exactly the first `token` pages of its instance
  (`ClientInv`); at most one read is the one the client waits for, and reads that
  wait are at the start of the window (`ReadsInv`); and an answer that starts at the
  client's token is the next segment of the pages, and says complete only at their
  end (`ReplyInv`).
* From it `TypeCorrectness`, `Delivery`, `Completeness`, `Retention`,
  `NoForgottenReader` and `ValidSequenceIds`, the safety properties of the run.
* `Refinement`: `Spec => ImplementsChannel`, by initial states and one case per
  action.

`BroadcastOutputBufferProofs` (the invariant of the buffer and the steps of the
drivers and of the end of the buffer) and `TaskOutputProofs` (the other steps, the
results and the task), for any finite sets of drivers and consumers, any pages and
sizes, and any versions of the buffer ids that the coordinator may send
(`HoldersAssumption`: drivers, consumers and the initial pages are different holders
of a page, and finitely many):
* `BufferInvariant`: `Spec => []SpecInv`, the broadcast buffer by itself, and
  `TaskInvariant`: `TaskSpec => []TaskInv`, the buffer with its task. Both rest on
  `BufferInv`, which says where each page is at every moment. Drivers that are in
  `enqueue` have different pages (`DriverInv`). A page is at most once in each client
  buffer and among the initial pages, and not there yet while a driver still has to
  put it there (`PlaceInv`). What a consumer has received, what it has acknowledged
  and the window of its buffer fit together (`WindowInv`). Until the task fails or is
  cancelled every produced page is acknowledged, in the window or in the hand of a
  driver, for each consumer, and among the initial pages as long as there may be new
  consumers (`CoverInv`); this is where the order of the steps of `enqueue` and
  `setOutputBuffers` is needed. The rest says which states of the buffer go with
  which steps of its threads (`FlowInv`, `EndInv`, `CallsInv`).
* From it `CountsAreExact` (`ReferencesAreExact`), `MemoryIsExact`
  (`MemoryIsAccounted`), `CompleteHasEveryPage` (`CompleteConsumerHasEveryPage`) and
  `BothCallsFlush` (`BothCallsMeanFlushing`). The counts are cardinalities of sets of
  holders and the bytes are sums over sets of pages, so each step that adds or drops
  a holder is a fact about one element of a finite set.
* `CompletionInv` adds the task: the driver count is the number of drivers that have
  not called back, the thread in `checkTaskCompletion` that is past its second test
  has seen that number at zero, and a failed driver has moved the task out of RUNNING
  before it is counted. Hence `FinishedMeansSuccess` (`FinishedTaskSucceeded`) and
  `NoPageMissing` (`CompleteOrNotSuccessful`), and `BufferWithinTask`: what holds of
  the buffer alone holds within a task.

`SumTheorems` has the facts about sums over finite sets that these proofs and the next
ones use: the sum is a number, grows by the value of a new element, and changes with one
value. They are proved by induction on a smallest counterexample.

`ComponentProofs`, the memory of an output buffer, for any finite set of drivers, page
sizes up to `LargestPage` and positive limit:
* `ReservationInvariant`: an incomplete future always has somebody who will complete it
  (`FutureInv`), the flags follow the end of the buffer (`EndingInv`), and the
  drivers that were told there is room are part of the bound: `bufferedBytes` plus
  a largest page for each of them is at most the limit plus a largest page for every
  driver. That strengthening makes the bound inductive, as a driver gets permission
  only below the limit.
* From it `BoundedOvershoot`, `ExactReservation` and `NoLostWakeup`.

`MemoryPoolProofs`, the pools of a worker, for any drivers, request sizes and pool sizes
and any finite sets of queries and tags:
* `PoolInvariant`, `PoolTypeCorrect` and `NoMissedWakeUp` (`WaitsOnlyWhenFull`).
  `PoolInv` adds which future a driver and a move wait for: a future exists only in
  a full pool, and a driver whose query was moved waits together with the move.
* `BooksBalance` (`BytesAddUp` and `TagsAddUp`, which the run checks within
  `ReservationsAddUp`). Its invariant `SumsInv` adds what a move in progress owes:
  between its two halves the target has reserved as many bytes for the query as the
  source still counts, under the tag of the move, and no revocable ones; the source
  never uses that tag.
* `OneTablePerQuery` (`QueryIsInOnePool`) and `TablesAddUp` (`RowsAddUp`), of the page
  of a worker over these pools (`WorkerStatus`), whose steps are steps of the pools or
  leave them alone (`PageOverPools`). `PageInv` adds what is known between the two
  readings: every query the reserved pool has listed has left the general one or is
  being moved out of it, and stays so; the general pool is read under its own monitor,
  when no move is half done. Each answer is one that some balanced books give
  (`InfoAddsUp`), which no later step can spoil. With `BooksBalance` this is all that
  `ReservationsAddUp` says of its two parts.

`ComponentProofs`, the end of a query, for any number of threads that fail the query, each
with a cause of its own, and any number of readers and stages:
* `QueryInvariant`; from it `FailuresAreExplained`, `RequestsAreToldTheTruth`
  (`AnswersAreTrue`), `CachedInfoIsFinal` (`FinalInfoIsFinal`) and the action
  property `OutcomeNeverChanges` (`OutcomeIsStable`). The invariant has two halves that
  share only the query's state. `CallInv` adds what a failing thread knows at each of its
  steps: whoever is about to set the state has seen a cause set, and whoever is about to
  set the cause has not set it. `InfoInv` adds why the scheduler was dropped, by the
  planning thread or after a final information was cached; hence a reader that found it
  dropped finds that information, or the query ended while its scheduler was created. It
  also adds that readers and listeners that found all stages final, and have yet to look
  at the state, are still right when they do.

`RemoteTaskProofs`, for any set of sources, any number of splits, restarts, lost and
late updates, and any number of calls whose callbacks overtake each other:
* `RemoteInvariant`: `Spec => []RemoteInv`. What a run with one source cannot show is why
  an answer may drop splits that another update, sent earlier or later, still carries.
  The invariant says what every update in the network carries (`LoadInv`): all that was
  pending when it was made, so that a lower split it leaves out has been started by the
  instance that the coordinator knows; and of two updates, the one that completes a
  source leaves out only splits that have been started (`Agree`). An instance has
  started the splits up to the highest one it was given, but for those of the known
  instance (`RanInv`): that is what makes `maxAcknowledgedSplit` enough to recognize a
  split that comes twice. A status or an answer on its way says FINISHED only of an
  instance that has every split (`StatusInv`, `AnswerInv`), unless it is not the known
  one, whose statuses are refused.
* From it `SplitsAreStartedOnce` (`SplitsStartOnce`), `FinishedStartedAll`
  (`FinishedIsComplete`) and `NothingIsForgotten` (`UpdateIsUnderWay`).

`StatementClientProofs`, for any number of rows, empty answers and failed requests:
* `StatementInvariant`; from it `RowsAreDeliveredInOrder`, `TokensAreAccepted`
  (`NeverRefused`) and the refinement `RowsAreAStream` (`ImplementsRowStream`). The
  invariant says that client and coordinator are in step: the client has the last
  answer or the one before it, the requests that may still be served are older, and
  the buffered intervals are a chain that leads from the delivered rows to those polled.

`ComponentProofs`, the title bar of the pages, for any delays:
* `TitleInvariant`; from it `LightTellsTheTruth`, `EveryOutageIsAnnounced`,
  `PollingGoesOn` and the action property `OutageBlinks`.

Only model-checked: liveness under fairness (`ExchangeEnds`, `BufferFinishes`,
`TaskEnds`, `WaitingDriverIsWoken`, `FinalInfoIsCached`, `EndIsReached`,
`LostTaskIsNoticed`, `PagesCatchUp`), which is out of the prover's reach; and, of the
pages other than the title bar and the tables of the worker page, `PagesAreTrue`,
`PagesAreStable`, `ImplementsRefreshLoop`, `FiguresAreTrue` and `ShownCanBeRead`. Their
modules, `QueryPages` and `ClusterPages`, range over all pages at once and reach the
recursive operators on plans and stack traces (`LivePlan`, `StageDetail`, `QueryViews`),
next to which the prover has no SMT backend; what those operators compute would take
induction over data, and `ImplementsRefreshLoop` promises fairness.

## Not modelled
* The lazy output buffer (reads before the first `setOutputBuffers`), and the
  partitioned and arbitrary output buffers.
* The exchange client that has several page buffer clients behind one queue.
* `StateMachine` itself: `compareAndSet` and `setIf` are atomic steps, listeners run
  later on other threads.
* `RemoteTask` has no lifespans, and leaves out the space in the queue
  of splits and updates of the output buffers. Moves between memory pools go from the
  general to the reserved one.
* Stage execution, schedulers, the cluster memory manager, resource groups, the
  transaction manager, discovery and failure detection, the local exchange, drivers and
  the task executor: state machines of their own, which `PROJECT.json` lists.
* Planner, parser, functions, file formats, connectors and clients: sequential code over
  large data types, out of TLC's reach, or adapters to other systems.
* Of the web interface: markup, layout, zoom, wording and links; the tables of session
  properties, resource estimates, warnings and failures of `QueryDetail.jsx`; the build.
