----------------------------- MODULE ClusterHUD -----------------------------
(***************************************************************************)
(* The overview of the cluster (ClusterHUD.jsx): it polls /v1/cluster      *)
(* every second for as long as it is open.  The four counts have one       *)
(* treatment, and so have the two averages and the three rates; one of     *)
(* each kind stands for them, the rate being the CPU time per worker,      *)
(* which alone divides by a count that may be zero.                        *)
(***************************************************************************)
EXTENDS Sparklines

CONSTANTS Counts,       \* what a count may be
          CpuDeltas,    \* how total CPU time may change between two answers; queries that
                        \* end while it is summed up make it go back
          Workers,      \* numbers of active workers
          Elapsed,      \* seconds between two answers by the browser's clock, which may be set
                        \* back; never zero
          MaxAnswers, MaxFailures,  \* bounds
          NaN, Infinity, MinusInfinity  \* the numbers that are not finite

VARIABLES activeWorkers, runningDrivers, perWorkerCpuTimeRate,
          lastRefresh, lastCpuTime,
          lastRender,   \* not null
          held,         \* 0 if the last answer was drawn, else the seconds until one may be
          drawn,        \* the lists the charts show
          timer, inFlight,
          cpu,          \* the server's total CPU time
          answers, failures,
          samples, spoilt  \* history: the rate's samples, and whether one not finite came
                           \* first or after the last one below one

lists == << activeWorkers, runningDrivers, perWorkerCpuTimeRate >>
vars == << lists, lastRefresh, lastCpuTime, lastRender, held, drawn, timer, inFlight, cpu, answers, failures, samples, spoilt >>

Init ==
    /\ activeWorkers = << >> /\ runningDrivers = << >> /\ perWorkerCpuTimeRate = << >>
    /\ lastRefresh = FALSE /\ lastCpuTime = 0
    /\ lastRender = FALSE /\ held = 0 /\ drawn = lists
    /\ timer = FALSE /\ inFlight = 1
    /\ cpu = 100 /\ answers = 0 /\ failures = 0
    /\ samples = {} /\ spoilt = FALSE

refreshLoop ==
    /\ timer
    /\ timer' = FALSE /\ inFlight' = inFlight + 1
    /\ UNCHANGED << lists, lastRefresh, lastCpuTime, lastRender, held, drawn, cpu, answers, failures, samples, spoilt >>

\* There is no query and no end on this page.
resetTimer == timer' = TRUE

\* componentDidUpdate: not within a second of the last drawing, which an answer only
\* is when the clock was set back.
componentDidUpdate(secs) ==
    /\ lastRender' = TRUE
    /\ LET since == IF held = 0 THEN secs ELSE secs + 1 - held
       IN  IF ~lastRender \/ since >= 1
           THEN drawn' = lists' /\ held' = 0
           ELSE held' = 1 - since /\ UNCHANGED drawn

Finite(x) == x \notin {NaN, Infinity, MinusInfinity}
BelowOne(x) == x = MinusInfinity \/ (Finite(x) /\ x < 1)

\* The moving average of an old average and a new sample: a fifth of the sample and
\* four fifths of the average, in whole numbers.  NaN and the infinities spoil what they
\* are added to, and opposite infinities give NaN.
MovingAverage(value, average) ==
    IF Finite(value) /\ Finite(average) THEN (value + 4 * average) \div 5
    ELSE IF NaN \in {value, average} \/ {value, average} = {Infinity, MinusInfinity} THEN NaN
    ELSE CHOOSE x \in {value, average} : ~Finite(x)

\* mutant: the average is never taken back to zero
addWeightedOnly(value, values) ==
    IF values = << >> THEN << value >>
    ELSE addToHistory(MovingAverage(value, values[Len(values)]), values)

\* One more average: the first sample is the average, later ones below one make it zero.
addExponentiallyWeightedToHistory(value, values) ==
    LET movingAverage == IF BelowOne(value) THEN 0 ELSE MovingAverage(value, values[Len(values)])
    IN  IF values = << >> THEN << value >> ELSE addToHistory(movingAverage, values)

\* CPU seconds per worker and second since the last answer.  Without a worker it is
\* infinite, with the signs of both, or NaN if no CPU time was used.
Sample(total, workers, secs) ==
    LET delta == total - lastCpuTime
    IN  IF workers # 0
        THEN IF secs > 0 THEN delta \div (workers * secs) ELSE (0 - delta) \div (workers * (0 - secs))
        ELSE IF delta = 0 THEN NaN
        ELSE IF (delta > 0) = (secs > 0) THEN Infinity ELSE MinusInfinity

\* The success callback.
ReceiveCluster(count, workers, delta, secs) ==
    /\ inFlight > 0 /\ answers < MaxAnswers
    /\ inFlight' = inFlight - 1 /\ answers' = answers + 1
    /\ cpu' = cpu + delta
    /\ activeWorkers' = addToHistory(workers, activeWorkers)
    /\ runningDrivers' = addExponentiallyWeightedToHistory(count, runningDrivers)
    /\ perWorkerCpuTimeRate' =
           IF lastRefresh THEN addExponentiallyWeightedToHistory(Sample(cpu', workers, secs), perWorkerCpuTimeRate) ELSE << >>
    /\ lastCpuTime' = cpu' /\ lastRefresh' = TRUE
    /\ componentDidUpdate(secs)
    /\ resetTimer
    /\ LET sample == Sample(cpu', workers, secs)
       IN  /\ samples' = IF lastRefresh THEN samples \cup {sample} ELSE samples
           /\ spoilt' = /\ lastRefresh
                        /\ perWorkerCpuTimeRate = << >> \/ ~BelowOne(sample)
                        /\ spoilt \/ ~Finite(sample)
    /\ UNCHANGED failures

\* The error callback, which only sets the timer.
ReceiveError ==
    /\ inFlight > 0
    /\ failures < MaxFailures /\ failures' = failures + 1
    /\ inFlight' = inFlight - 1
    /\ resetTimer
    /\ UNCHANGED << lists, lastRefresh, lastCpuTime, lastRender, held, drawn, cpu, answers, samples, spoilt >>

Next ==
    \/ refreshLoop \/ ReceiveError
    \/ \E count \in Counts, workers \in Workers, delta \in CpuDeltas, secs \in Elapsed :
           ReceiveCluster(count, workers, delta, secs)

Spec == Init /\ [][Next]_vars

-----------------------------------------------------------------------------
(* Properties. *)

\* The charts show the lists the figures next to them come from, unless the clock was
\* set back, which stops the drawing until it has caught up.
ChartsAreCurrent == drawn = lists \/ held > 0

\* A smoothed rate stays within the samples it was made from and zero: smoothing,
\* the reset below one and lost requests never make up a rate.  One that is not finite
\* comes from samples that were not: from such a one, or NaN from opposite infinities.
RateIsWithinSamples ==
    \A i \in DOMAIN perWorkerCpuTimeRate :
        LET rate == perWorkerCpuTimeRate[i]
            finite == {s \in samples : Finite(s)} \cup {0}
        IN  IF Finite(rate) THEN (\E s \in finite : s <= rate) /\ (\E s \in finite : rate <= s)
            ELSE rate \in samples \/ (rate = NaN /\ {Infinity, MinusInfinity} \subseteq samples)

\* A rate that is not finite is gone with the next sample below one, which minus
\* infinity is too, and only then.
SpoiltRateRecovers ==
    perWorkerCpuTimeRate # << >> =>
        (Finite(perWorkerCpuTimeRate[Len(perWorkerCpuTimeRate)]) <=> ~spoilt)

\* The page never stops asking, after failed requests neither, and asks once at a
\* time: either its timer is set or a request is under way.
PollingNeverStops == timer # (inFlight > 0)
=============================================================================
