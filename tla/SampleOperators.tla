-------------------------- MODULE SampleOperators ---------------------------
(***************************************************************************)
(* A query of three stages, each with the pipelines the planner makes of   *)
(* its kind of plan: an output over a local exchange, a join whose build   *)
(* side is a pipeline of its own, and a union with one pipeline per input. *)
(* The root stage has one of two plans; summaries come in either order.    *)
(***************************************************************************)
EXTENDS Integers, Sequences, SequencesExt

CONSTANT Null

N(id, type, inputs) == [id |-> id, type |-> type, inputs |-> inputs]

\* << pipelineId, operatorId, planNodeId >>
Output == [plan |-> N(1, "output", << N(2, "exchange", << N(3, "remoteSource", << >>) >>) >>),
           ops |-> << << 0, 0, 3 >>, << 0, 1, 2 >>, << 1, 0, 2 >>, << 1, 1, 1 >> >>]
Join == [plan |-> N(4, "aggregation", << N(5, "join", << N(6, "tablescan", << >>),
                                                        N(7, "exchange", << N(8, "remoteSource", << >>) >>) >>) >>),
         ops |-> << << 0, 0, 6 >>, << 0, 1, 5 >>, << 0, 2, 4 >>, << 0, 3, 4 >>, << 1, 0, 8 >>, << 1, 1, 7 >>,
                    << 2, 0, 7 >>, << 2, 1, 5 >> >>]
Union == [plan |-> N(9, "exchange", << N(10, "values", << >>), N(11, "filter", << N(12, "tablescan", << >>) >>) >>),
          ops |-> << << 0, 0, 10 >>, << 0, 1, 9 >>, << 1, 0, 12 >>, << 1, 1, 11 >>, << 1, 2, 9 >>, << 2, 0, 9 >>, << 2, 1, 9 >> >>]
Unique == [plan |-> N(13, "output", << N(14, "assignUniqueId", << N(15, "tablescan", << >>) >>) >>),
           ops |-> << << 0, 0, 15 >>, << 0, 1, 14 >>, << 0, 2, 13 >> >>]
Plans == {"Output", "Unique"}
PlanNamed(name) == IF name = "Output" THEN Output ELSE Unique

Summaries(ops, v) ==
    [i \in DOMAIN ops |-> [pipelineId |-> ops[i][1], operatorId |-> ops[i][2], planNodeId |-> ops[i][3],
                           rows |-> 1000 * v]]

\* Version 0 has no summaries yet; task 0 of the last version was never started.
StageInfo(id, kind, v, subStages) ==
    LET ops == IF v = 0 THEN << >> ELSE IF v = 1 THEN kind.ops ELSE Reverse(kind.ops)
        ran == {<< ops[i][1], ops[i][2] >> : i \in DOMAIN ops}
        first == IF id = 2 /\ v = 3 THEN {} ELSE ran
    IN  [id |-> id, plan |-> kind.plan, operators |-> Summaries(ops, v), version |-> v, subStages |-> subStages,
         tasks |-> << [number |-> 10, operators |-> {}], [number |-> 1, operators |-> ran], [number |-> 0, operators |-> first] >>]

TwoTasks(stage) == [stage EXCEPT !.tasks = Tail(@)]

Tree(plan, v) ==
    TwoTasks(StageInfo(0, PlanNamed(plan), v, << TwoTasks(StageInfo(1, Join, v, << StageInfo(2, Union, v, << >>) >>)) >>))

Info(stage, isEnded, final) == [outputStage |-> stage, isEnded |-> isEnded, final |-> final]
Queued == Info(Null, FALSE, FALSE)
Pruned == Info([Tree("Output", 0) EXCEPT !.plan = Null, !.tasks = << >>, !.subStages = << >>], TRUE, TRUE)
Running(plan) == {Info(Tree(plan, v), FALSE, FALSE) : v \in 0..1}
Ended(plan) == Info(Tree(plan, 2), TRUE, FALSE)
Final(plan) == Info(Tree(plan, 3), TRUE, TRUE)
PlanOf(info) == CHOOSE plan \in Plans : PlanNamed(plan).plan = info.outputStage.plan

FirstInfo ==
    {Queued, Pruned, Info(Null, TRUE, TRUE)} \cup UNION {Running(plan) \cup {Ended(plan), Final(plan)} : plan \in Plans}
Successor(info) ==
    IF info = Pruned THEN {Null}
    ELSE IF info.final THEN {Pruned, Null}
    ELSE IF info = Queued THEN UNION {Running(plan) : plan \in Plans} \cup {Info(Null, TRUE, TRUE)}
    ELSE IF info.isEnded THEN {Final(PlanOf(info))}
    ELSE {Ended(PlanOf(info))}
=============================================================================
