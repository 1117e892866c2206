---------------------------- MODULE ClusterPages ----------------------------
(***************************************************************************)
(* The pages about the cluster and its workers, in a browser that has one  *)
(* of them open: the overview of the cluster, the page of a worker over    *)
(* the worker's memory pools, and its list of threads; further the pools   *)
(* by themselves, the row of a stage with its charts, and what every page  *)
(* computes of one answer: lists, tables, stack traces, texts and numbers  *)
(* with their units.  As in QueryPages, part says which is followed.       *)
(***************************************************************************)
EXTENDS MemoryPool, Sparklines

CONSTANTS NaN, Infinity, MinusInfinity

VARIABLES part, initialized, timer, inFlight, answers, failures,
          serverInfo, heapPercentUsed, nonHeapUsed, request,
          activeWorkers, runningDrivers, perWorkerCpuTimeRate, lastRefresh, lastCpuTime, held, drawn,
          cpu, samples, spoilt,
          threads, selectedGroup, selectedThreadState, page, requests,
          tasks, expanded, histogram, bars,
          lastRender,
          input

Sample == INSTANCE SampleInputs

\* Two queries, one with two drivers, and pools that they fill.
QueryOfDriver == [d \in Drivers |-> IF d = "d3" THEN "q2" ELSE "q1"]
BytesOfPool == [p \in {GENERAL_POOL, RESERVED_POOL} |-> IF p = GENERAL_POOL THEN 2 ELSE 1]

\* A worker whose queries hold a byte at most while its page reads its pools.
Worker == INSTANCE WorkerStatus WITH
              Tags <- {"scan"}, Sizes <- {1}, MaxBytesOfQuery <- 1,
              HeapUsed <- {1}, HeapAvailable <- 4, NonHeapUsed <- {3}, MaxAnswers <- 1, MaxFailures <- 1

\* Lists that overflow, workers that go and come back, CPU time that goes back, a clock
\* that is set back.
Cluster == INSTANCE ClusterHUD WITH
               Counts <- {9}, CpuDeltas <- {-6, 0, 20}, Workers <- {0, 2}, Elapsed <- {-2, 1},
               MaxAnswers <- 4, MaxFailures <- 1

Threads == INSTANCE WorkerThreadList WITH
               ALL_THREADS <- "All Threads", ALL_THREAD_STATE <- "ALL",
               StatesOfThreads <- {"RUNNABLE", "WAITING", "BLOCKED"}, Snapshots <- Sample!Snapshots,
               MaxRequests <- 4, MaxFailures <- 1

StageRow == INSTANCE StageSummary WITH Stage <- Sample!TaskLists

Views == INSTANCE QueryViews WITH Stages <- Sample!Stages, Failures <- Sample!Failures, Texts <- Sample!Texts,
                             MaxText <- 5

Numbers == INSTANCE Formats WITH
               Durations <- Sample!Durations, Counts <- Sample!Counts, DataSizes <- Sample!DataSizes,
               Nanos <- Sample!Nanos, Rated <- Sample!Rated, Millis <- {0, 1, 7, 1000, 60000}

workerVars == << serverInfo, heapPercentUsed, nonHeapUsed, request >>
hudVars == << activeWorkers, runningDrivers, perWorkerCpuTimeRate, lastRefresh, lastCpuTime, held, drawn,
              cpu, samples, spoilt >>
threadVars == << threads, selectedGroup, selectedThreadState, page, requests >>
rowVars == << tasks, expanded, histogram, bars >>
clusterVars == << part, inFlight, initialized, timer, answers, failures, lastRender, input,
                  poolVars, workerVars, hudVars, threadVars, rowVars >>

\* The parts that are not followed.
NoWorker == serverInfo = Null /\ heapPercentUsed = Null /\ nonHeapUsed = Null /\ request = Null
NoCluster ==
    /\ activeWorkers = Null /\ runningDrivers = Null /\ perWorkerCpuTimeRate = Null /\ lastRefresh = Null
    /\ lastCpuTime = Null /\ held = Null /\ drawn = Null /\ cpu = Null /\ samples = Null /\ spoilt = Null
NoThreads ==
    threads = Null /\ selectedGroup = Null /\ selectedThreadState = Null /\ page = Null /\ requests = Null
NoRow == tasks = Null /\ expanded = Null /\ histogram = Null /\ bars = Null
NoLoop == timer = FALSE /\ answers = 0
NoRequest == inFlight = 0 /\ failures = 0

ClusterInit ==
    \/ /\ part = "pool" /\ PoolInit
       /\ initialized = FALSE /\ lastRender = FALSE /\ input = Null
       /\ NoLoop /\ NoRequest /\ NoWorker /\ NoCluster /\ NoThreads /\ NoRow
    \/ /\ part = "worker" /\ Worker!Init
       /\ inFlight = 0 /\ lastRender = FALSE /\ input = Null /\ NoCluster /\ NoThreads /\ NoRow
    \/ /\ part = "cluster" /\ Cluster!Init
       /\ initialized = FALSE /\ input = Null /\ PoolInit /\ NoWorker /\ NoThreads /\ NoRow
    \/ /\ part = "threads" /\ Threads!Init
       /\ lastRender = FALSE /\ input = Null /\ NoLoop /\ PoolInit /\ NoWorker /\ NoCluster /\ NoRow
    \/ /\ part = "row" /\ StageRow!Init
       /\ initialized = FALSE /\ input = Null
       /\ NoLoop /\ NoRequest /\ PoolInit /\ NoWorker /\ NoCluster /\ NoThreads
    \/ /\ part = "view" /\ (Views!Init \/ Numbers!Init)
       /\ initialized = FALSE /\ lastRender = FALSE
       /\ NoLoop /\ NoRequest /\ PoolInit /\ NoWorker /\ NoCluster /\ NoThreads /\ NoRow

\* What is computed of one answer has no steps.
ClusterNext ==
    /\ UNCHANGED << part, input >>
    /\ \/ /\ part = "pool" /\ PoolNext
          /\ UNCHANGED << initialized, timer, inFlight, answers, failures, lastRender,
                          workerVars, hudVars, threadVars, rowVars >>
       \/ part = "worker" /\ Worker!Next /\ UNCHANGED << inFlight, lastRender, hudVars, threadVars, rowVars >>
       \/ part = "cluster" /\ Cluster!Next /\ UNCHANGED << initialized, poolVars, workerVars, threadVars, rowVars >>
       \/ /\ part = "threads" /\ Threads!Next
          /\ UNCHANGED << timer, answers, lastRender, poolVars, workerVars, hudVars, rowVars >>
       \/ /\ part = "row" /\ StageRow!Next
          /\ UNCHANGED << initialized, timer, answers, inFlight, failures, poolVars, workerVars, hudVars, threadVars >>

ClusterSpec == ClusterInit /\ [][ClusterNext]_clusterVars

-----------------------------------------------------------------------------
(* Properties. *)

\* Whatever is reserved, freed and moved, the bytes of a pool are those of its queries
\* and those of a query are the ones of its tags, so that each operator can give back
\* what it reserved; and a worker's page, which reads one pool after the other while
\* queries move, lists no query twice and rows that add up to what the pool said.
ReservationsAddUp ==
    IF part = "worker"
    THEN Worker!BytesAddUp /\ Worker!TagsAddUp /\ Worker!QueryIsInOnePool /\ Worker!RowsAddUp
    ELSE BytesAddUp /\ TagsAddUp

\* What the pages make of a series of answers is true of it: they never stop polling;
\* a smoothed rate lies within its samples and recovers from one that is no number; the
\* charts are current; the counts of a list of threads agree with each other; a bar is
\* labelled with its own task, and a histogram and a row count every task once.
FiguresAreTrue ==
    /\ part = "cluster" => /\ Cluster!PollingNeverStops /\ Cluster!ChartsAreCurrent
                           /\ Cluster!RateIsWithinSamples /\ Cluster!SpoiltRateRecovers
    /\ part = "worker" => Worker!PollingNeverStops
    /\ part = "threads" => Threads!CountsAddUp /\ Threads!StuckOnlyWithoutAnswer
    /\ part = "row" => StageRow!BarsAreLabelled /\ StageRow!HistogramIsComplete /\ StageRow!RowIsOfItsTasks

\* What is shown can be read back: the list of tasks is that of the stages, sorted by
\* number and each with a worker to tell from others; a stack trace, shortened by shared
\* frames, gives back all its stacks; a text keeps its shape; and numbers keep their
\* order and their value, within half a percent, through every unit.
ShownCanBeRead ==
    part = "view" =>
        IF input.kind \in {"stage", "failure", "text"}
        THEN /\ Views!ListsAgree /\ Views!TaskTableIsSorted /\ Views!WorkersAreTellable
             /\ Views!TraceIsReadable /\ Views!TextKeepsItsShape
        ELSE /\ Numbers!OrderIsKept /\ Numbers!ShownIsClose /\ Numbers!ShownIsShort
             /\ Numbers!WrittenIsRead /\ Numbers!TimeIsReadable
=============================================================================
