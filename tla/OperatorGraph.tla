--------------------------- MODULE OperatorGraph ----------------------------
(***************************************************************************)
(* What the page of a stage computes from the stage: the graph of its      *)
(* operators, pipeline by pipeline, and the figures of one operator        *)
(* (StageDetail.jsx).                                                      *)
(*                                                                         *)
(* A plan node is [id, type, inputs], a summary of an operator [pipelineId,*)
(* operatorId, planNodeId, rows, wall], wall in milliseconds, and a task   *)
(* [number, operators] with the << pipelineId, operatorId >> it has run.   *)
(***************************************************************************)
EXTENDS Integers, Sequences, SequencesExt, FiniteSets, TLC

CONSTANT Null       \* undefined

OneSource == {"output", "explainAnalyze", "project", "filter", "aggregation", "sort", "markDistinct", "window",
              "rowNumber", "topnRowNumber", "limit", "distinctlimit", "topn", "sample", "tablewriter", "delete",
              "metadatadelete", "tablecommit", "groupid", "unnest", "scalar"}
TwoSources == {"join", "semijoin", "spatialjoin", "indexjoin"}
ManySources == {"union", "exchange"}
NoSource == {"remoteSource", "tablescan", "values", "indexsource"}

\* The children by the type of the node.  A node of one source that has none yields
\* undefined; a node of a type not listed hides what is below it.
getChildren(node) ==
    CASE node.type \in OneSource -> << IF node.inputs = << >> THEN Null ELSE node.inputs[1] >>
      [] node.type \in TwoSources \cup ManySources -> node.inputs
      [] OTHER -> << >>

\* The recursion meets an undefined node, whose type cannot be read.
RECURSIVE PlanThrows(_)
PlanThrows(node) == node = Null \/ \E i \in DOMAIN getChildren(node) : PlanThrows(getChildren(node)[i])

\* The operators of a plan node.
computeOperatorMap(operators, planNodeId) == SelectSeq(operators, LAMBDA o : o.planNodeId = planNodeId)

\* For each pipeline that ends at or below a node, its operators there from source to
\* sink.  Where two sources have the same pipeline the first one counts.
RECURSIVE computeOperatorGraphs(_, _)
computeOperatorGraphs(node, operators) ==
    LET sourceResults == FoldLeft(LAMBDA found, source : found @@ computeOperatorGraphs(source, operators), << >>, getChildren(node))
        nodeOperators == computeOperatorMap(operators, node.id)
        linkedOperators(p) ==
            SortSeq(SelectSeq(nodeOperators, LAMBDA o : o.pipelineId = p), LAMBDA a, b : a.operatorId < b.operatorId)
        child(p) == IF p \in DOMAIN sourceResults THEN sourceResults[p] ELSE << >>
    IN  [p \in {o.pipelineId : o \in ToSet(nodeOperators)} |-> child(p) \o linkedOperators(p)] @@ sourceResults

OperatorNodeId(o) == << o.pipelineId, o.operatorId >>

\* The nodes and edges of one pipeline, and the cluster they are in.
computeD3StageOperatorGraph(pipelineId, chain) ==
    [nodes |-> {<< OperatorNodeId(chain[i]), chain[i] >> : i \in DOMAIN chain},
     edges |-> {<< OperatorNodeId(chain[i]), OperatorNodeId(chain[i + 1]) >> : i \in 1..(Len(chain) - 1)},
     parents |-> {<< OperatorNodeId(chain[i]), pipelineId >> : i \in DOMAIN chain}]

\* The whole drawing of a stage.
OperatorGraphOf(stage) ==
    LET chains == computeOperatorGraphs(stage.plan, stage.operators)
        Part(p) == computeD3StageOperatorGraph(p, chains[p])
    IN  [nodes |-> UNION {Part(p).nodes : p \in DOMAIN chains},
         edges |-> UNION {Part(p).edges : p \in DOMAIN chains},
         parents |-> UNION {Part(p).parents : p \in DOMAIN chains}]

-----------------------------------------------------------------------------
(* The figures of an operator. *)

\* The tasks whose figures the charts of an operator show, one bar each.
getOperatorTasks(tasks, nodeId) ==
    SelectSeq(SortSeq(tasks, LAMBDA a, b : a.number < b.number), LAMBDA t : nodeId \in t.operators)

\* The number the tooltip of bar i calls its task by.
OffsetLabel(i) == i - 1
=============================================================================
