--------------------------- MODULE SampleQueries ----------------------------
(***************************************************************************)
(* The queries that the list of queries and the live plan are followed     *)
(* with.                                                                   *)
(***************************************************************************)
EXTENDS Integers, Sequences

CONSTANT Null

-----------------------------------------------------------------------------
(* The list: queries that wait, run, block and end, and its menus cut down *)
(* to the entries that differ.                                             *)

ListedInfo ==
    LET q == [state |-> "QUEUED", errorType |-> "", errorCode |-> "", scheduled |-> FALSE, fullyBlocked |-> FALSE,
              blockedReasons |-> << >>, totalDrivers |-> 0, runningDrivers |-> 0, queuedDrivers |-> 0, completedDrivers |-> 0,
              memoryPool |-> "general", progressPercentage |-> 0, stats |-> [CPU |-> 0]]
        r == [q EXCEPT !.state = "RUNNING", !.scheduled = TRUE, !.totalDrivers = 3, !.runningDrivers = 1, !.queuedDrivers = 1,
                       !.completedDrivers = 1, !.progressPercentage = 333, !.stats.CPU = 1]
    IN  [queued   |-> q,
         running  |-> r,
         blocked  |-> [r EXCEPT !.fullyBlocked = TRUE, !.blockedReasons = << "WAITING_FOR_MEMORY" >>, !.memoryPool = "reserved"],
         finished |-> [r EXCEPT !.state = "FINISHED", !.stats.CPU = 2],
         canceled |-> [r EXCEPT !.state = "FAILED", !.errorType = "USER_ERROR", !.errorCode = "USER_CANCELED"]]

ListedSuccessor ==
    [queued   |-> {"queued", "running"},
     running  |-> {"running", "blocked", "finished", "canceled"},
     blocked  |-> {"running", "blocked", "canceled"},
     finished |-> {"finished"}, canceled |-> {"canceled"}]

QueryId == 1..2
Profile == {"running", "blocked", "finished", "canceled"}
CreateTime == [i \in QueryId |-> i]
SearchTerm == {"", "blo"}
TextHits == [t \in SearchTerm |-> {1}]
LabelHits == [t \in SearchTerm |-> {"BLOCKED"}]
MaxQueriesItems == {0, 1}
ReorderItems == {1, 2}
SortItems == {"CREATED", "CPU"}
FilterButtons == {"FINISHED"}
ErrorTypeItems == {"USER_ERROR"}

-----------------------------------------------------------------------------
(* The plan of a query of three stages: the output stage joins what it     *)
(* reads from two stages, or from one that reads from the other.  It is    *)
(* queued, runs with changing statistics, ends, and is then stripped of    *)
(* its plan and removed.                                                   *)

Node(id, children, remoteSources) == [id |-> id, children |-> children, remoteSources |-> remoteSources]
Stage(n, root, state, stats, subStages) ==
    [stageId |-> n, plan |-> [id |-> n, root |-> root], state |-> state,
     fullyBlocked |-> state = "RUNNING" /\ stats = 2, stats |-> stats, subStages |-> subStages]

Scan(id) == Node(id, << >>, << >>)
Remote(id, sources) == Node(id, << >>, sources)

\* shape, state of the leaves, state of the rest, statistics
Tree(shape, leaf, inner, stats) ==
    IF shape = "wide"
    THEN Stage(0, Node(10, << Node(11, << Remote(12, << 1 >>), Remote(13, << 2 >>) >>, << >>) >>, << >>), inner, stats,
               << Stage(1, Scan(14), leaf, stats, << >>), Stage(2, Node(15, << Scan(16) >>, << >>), leaf, stats + 1, << >>) >>)
    ELSE Stage(0, Remote(10, << 1 >>), inner, stats,
               << Stage(1, Node(11, << Remote(12, << 2 >>), Scan(13) >>, << >>), inner, stats + 1,
                        << Stage(2, Scan(14), leaf, stats, << >>) >>) >>)

Queued == [outputStage |-> Null, final |-> FALSE]
EndedUnplanned == [outputStage |-> Null, final |-> TRUE]
Running(shape) == {[outputStage |-> Tree(shape, leaf, "RUNNING", stats), final |-> FALSE] :
                      leaf \in {"RUNNING", "FINISHED"}, stats \in 1..2}
Ended(shape) == {[outputStage |-> Tree(shape, state, state, 3), final |-> TRUE] : state \in {"FINISHED", "FAILED"}}
Pruned == [outputStage |-> [Stage(0, Scan(10), "FINISHED", 3, << >>) EXCEPT !.plan = Null], final |-> TRUE]

Shapes == {"wide", "deep"}
ShapeOf(info) == IF Len(info.outputStage.subStages) = 2 THEN "wide" ELSE "deep"

FirstInfo == {Queued, EndedUnplanned, Pruned} \cup UNION {Running(shape) \cup Ended(shape) : shape \in Shapes}
Successor(info) ==
    IF info = Pruned THEN {Null}
    ELSE IF info.final THEN {Pruned, Null}
    ELSE IF info = Queued THEN UNION {Running(shape) : shape \in Shapes} \cup {EndedUnplanned}
    ELSE {r \in Running(ShapeOf(info)) : r.outputStage.stats > info.outputStage.stats} \cup Ended(ShapeOf(info))
=============================================================================
