---------------------------- MODULE StageSummary ----------------------------
(***************************************************************************)
(* One stage of the stage list (QueryDetail.jsx, StageSummary): a row of   *)
(* figures, two histograms, and two bar charts that the user can unfold.   *)
(* The page hands the row a new stage with every answer; each update sorts *)
(* the tasks of that stage in place and draws the charts unless they were  *)
(* drawn less than a second ago.  The scheduled and the CPU times have the *)
(* same charts: a task has one time, which stands for both.                *)
(***************************************************************************)
EXTENDS Integers, Sequences, FiniteSetsExt, SequencesExt

CONSTANT Stage          \* the stages the page may hand over: sequences of tasks

VARIABLES tasks,        \* of the stage, in their present order
          expanded,
          lastRender,   \* not null
          histogram,    \* the histogram on the screen, and how many tasks the stage had then
          bars          \* the bar chart on the screen: [label, value] of each bar

vars == << tasks, expanded, lastRender, histogram, bars >>

NoChart == << >>

HISTOGRAM_WIDTH == 175

Times(ts) == [i \in DOMAIN ts |-> ts[i].time]

\* Math.floor(d / bucketSize) where bucketSize = range / Math.sqrt(n), in integers.
Bucket(d, range, n) == Max({b \in 0..n : b * b * range * range <= d * d * n})

\* The loop runs while i < Math.min(HISTOGRAM_WIDTH, Math.sqrt(n)) + 1.
NumBars(n) == Min({b \in 1..(n + 1) : (b - 1) * (b - 1) >= n} \cup {HISTOGRAM_WIDTH + 1})

\* The counts by bucket: JavaScript adds an entry for an index out of range.
renderHistogram(data) ==
    LET n == Len(data)
        dataMin == Min(ToSet(data))
        range == Max(ToSet(data)) - dataMin
        InBucket(b) == Cardinality({i \in DOMAIN data : Bucket(data[i] - dataMin, range, n) = b})
    IN  IF n = 0 THEN << 0 >>
        ELSE IF range = 0 THEN << n >>
        ELSE [b \in 1..NumBars(n) |-> InBucket(b - 1)]

\* stage.tasks.sort by task number.
SortedByNumber(ts) == SortSeq(ts, LAMBDA a, b : a.number < b.number)

\* One bar for each task; the tooltip of bar i is the stage and i.
BarChart(ts) == [i \in DOMAIN ts |-> [label |-> i - 1, value |-> ts[i].time, task |-> ts[i].number]]

Init ==
    /\ tasks \in Stage
    /\ expanded = FALSE /\ lastRender = FALSE
    /\ histogram = [counts |-> NoChart, tasks |-> 0] /\ bars = NoChart

componentDidUpdate(ts, open, due) ==
    /\ tasks' = SortedByNumber(ts)
    /\ lastRender \/ due
    /\ lastRender' = (lastRender \/ due)
    /\ histogram' = IF due THEN [counts |-> renderHistogram(Times(tasks')), tasks |-> Len(tasks')] ELSE histogram
    /\ bars' = IF due /\ open THEN BarChart(tasks') ELSE bars

\* The page renders again, with the stage of a new answer or with the same one.
Update(ts, due) ==
    /\ componentDidUpdate(ts, expanded, due)
    /\ UNCHANGED expanded

toggleExpanded(due) ==
    /\ expanded' = ~expanded
    /\ componentDidUpdate(tasks, ~expanded, due)

Next ==
    \E due \in BOOLEAN :
        \/ \E ts \in Stage \cup {tasks} : Update(ts, due)
        \/ toggleExpanded(due)

Spec == Init /\ [][Next]_vars

-----------------------------------------------------------------------------
(* The figures of the row. *)

Row ==
    [pending |-> Cardinality({i \in DOMAIN tasks : tasks[i].state = "PLANNED"}),
     running |-> Cardinality({i \in DOMAIN tasks : tasks[i].state = "RUNNING"}),
     blocked |-> Cardinality({i \in DOMAIN tasks : tasks[i].fullyBlocked}),
     total   |-> Len(tasks),
     buffers |-> FoldSeq(LAMBDA t, sum : t.buffered + sum, 0, tasks),
     icon    |-> IF expanded THEN "up" ELSE "down"]

-----------------------------------------------------------------------------
(* Properties. *)

\* Whatever order the server lists tasks in and whichever updates were throttled, a
\* bar's tooltip names the task whose time it shows (tasks are numbered from 0).
BarsAreLabelled == \A i \in DOMAIN bars : bars[i].label = bars[i].task

\* A histogram counts every task of the stage it was drawn from once, in a bar that
\* exists: rounding of the bucket size loses none at the upper end.
HistogramIsComplete == FoldSeq(LAMBDA c, sum : c + sum, 0, histogram.counts) = histogram.tasks

\* The figures of the row are those of the tasks the server listed, though drawing
\* sorts that list in place: none is lost or counted twice, or under two states.
RowIsOfItsTasks ==
    \E ts \in Stage :
        /\ ToSet(ts) = ToSet(tasks) /\ Row.total = Len(ts)
        /\ Row.pending + Row.running
              + Cardinality({i \in DOMAIN ts : ts[i].state \notin {"PLANNED", "RUNNING"}}) = Row.total
        /\ Row.icon = "up" <=> expanded
=============================================================================
