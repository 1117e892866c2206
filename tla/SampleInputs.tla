---------------------------- MODULE SampleInputs ----------------------------
(***************************************************************************)
(* Small inputs for what the pages compute of one answer: trees of stages, *)
(* failures, texts, lists of tasks, snapshots of threads, and numbers      *)
(* around every change of unit and of the number of decimals.              *)
(***************************************************************************)
EXTENDS Integers, Sequences

\* Trees of three stages in their two shapes, with tasks on two hosts.
TasksOf(s, numbers, host, ports) ==
    [i \in DOMAIN numbers |-> [stage |-> s, number |-> numbers[i], host |-> host, port |-> ports[i]]]

Stages ==
    LET Leaf(s, ts) == [id |-> s, tasks |-> ts, subStages |-> << >>]
        Tasks(s) == {TasksOf(s, numbers, host, ports) : numbers \in {<< >>, << 2, 10 >>, << 10, 2, 0 >>}, host \in {"a", "b"},
                                                        ports \in [1..3 -> {1, 2}]}
    IN  UNION {{[id |-> 1, tasks |-> t, subStages |-> << Leaf(2, u), Leaf(10, << >>) >>],
                [id |-> 1, tasks |-> t, subStages |-> << [Leaf(10, << >>) EXCEPT !.subStages = << Leaf(2, u) >>] >>]} :
                   t \in Tasks(1), u \in Tasks(2)}

\* Failures with one suppressed failure and a chain of causes over all short stacks.
Stacks == UNION {[1..n -> {"f", "g"}] : n \in 0..2}
Failures ==
    LET F(type, stack, suppressed, cause) == [type |-> type, stack |-> stack, suppressed |-> suppressed, cause |-> cause]
        Plain(type, stack) == F(type, stack, << >>, << >>)
    IN  {F("top", s, << F("suppressed", t, << >>, << Plain("deep", u) >>) >>,
           << F("cause", t, << Plain("inner", u) >>, << Plain("root", u) >>) >>) :
            s \in Stacks, t \in Stacks, u \in Stacks}

\* Texts of up to three lines.
Lines == [lead : 0..2, body : 0..2, trail : {1}]
Texts == UNION {[1..n -> Lines] : n \in 1..3}

\* Stages without tasks, with one, with every distribution of small times over three
\* (whose square root is not a whole number of buckets), and a few larger ones, listed
\* by the server from the last task to the first.
Listed(times) ==
    [i \in DOMAIN times |-> [number |-> Len(times) - i, time |-> times[i], buffered |-> 1,
                             state |-> IF i % 2 = 0 THEN "RUNNING" ELSE "PLANNED", fullyBlocked |-> i = 2]]
TaskLists ==
    {Listed(times) : times \in {<< >>, << 1 >>, << 0, 1, 2, 2 >>, << 0, 0, 1, 2, 2 >>} \cup [1..3 -> 0..2]}

\* Snapshots of up to three threads in two groups; a split of a query runs in some.
Thread(id, group, st) == [id |-> id, group |-> group, state |-> st, ofQuery |-> FALSE]
SplitThread(id, st) == [id |-> id, group |-> "query.1.0", state |-> st, ofQuery |-> TRUE]
Snapshots ==
    { << >>,
      << Thread(1, "main", "RUNNABLE") >>,
      << Thread(1, "main", "WAITING"), Thread(2, "http", "RUNNABLE") >>,
      << Thread(1, "main", "WAITING"), Thread(2, "http", "RUNNABLE"), Thread(3, "http", "WAITING") >>,
      << Thread(1, "main", "WAITING"), SplitThread(4, "RUNNABLE") >> }

\* Numbers near m, ten and a hundred times m, and between ten and twelve times m.
Near(m, step) == {k * m + i * step : k \in {1, 2, 10, 100}, i \in -6..6} \cap Nat
Between(m) == {10 * m + i * (m \div 20) + 1 : i \in 0..39}
Small == 0..1100

Durations == Small \cup Between(1000) \cup Between(3600000) \cup Near(1000, 1) \cup Near(60000, 7) \cup Near(3600000, 901)
             \cup {k * 86400000 + i * 10801 : k \in {1, 6, 7, 10, 14}, i \in -6..6} \cup {604800000 + i : i \in -6..6}
Counts == Small \cup Between(1000) \cup Near(1000, 1) \cup Near(1000000, 4999) \cup {999999, 1000000, 1000001, 2100000}
DataSizes == Small \cup Between(1024) \cup Near(1024, 1) \cup {k * 1048576 + i * 5 : k \in {1, 2, 9}, i \in -6..6}
Rated == 0..150
Nanos == Small \cup Near(1000, 1) \cup Near(1000000, 3) \cup {1000000000 + i * 99 : i \in -6..6}
=============================================================================
