---------------------------- MODULE StageDetail -----------------------------
(***************************************************************************)
(* The page of one stage (StageDetail.jsx): it polls /v1/query/{id} every  *)
(* second; when the query has ended it draws the operators of the selected *)
(* stage in an element outside of the page's own, and a click on one opens *)
(* a dialog about it.                                                      *)
(*                                                                         *)
(* The server says Null (the query is gone) or [outputStage, isEnded,      *)
(* final]; a stage is [id, plan, operators, tasks, version, subStages].    *)
(*                                                                         *)
(* The answers come through jQuery: an exception in the callback, after    *)
(* React has unmounted the page, leaves the timer unset.                   *)
(***************************************************************************)
EXTENDS OperatorGraph

CONSTANTS FirstInfo, Successor(_),  \* what the server may say first, and what after what
          UrlStage,                 \* the stage the address asks for, 0 if it names none
          MaxFailures, MaxClicks    \* bounds: failed requests and clicks

VARIABLES server, initialized, ended, selectedStageId, query,
          requested,    \* the selectedStageId the request under way will bring back
          mounted, timer, inFlight,
          shown,        \* the stage StageOperatorGraph was last given, or Null
          canvas,       \* what is drawn: a graph, or Null when hidden
          detail,       \* the dialog: Null or [key, table, charts]
          failures, clicks,
          picked        \* history: the stage clicked last, Null if that was during a request

page == << initialized, ended, selectedStageId, query >>
vars == << server, page, requested, mounted, timer, inFlight, shown, canvas, detail, failures, clicks, picked >>

Init ==
    /\ server \in FirstInfo
    /\ initialized = FALSE /\ ended = FALSE /\ selectedStageId = Null /\ query = Null
    /\ requested = UrlStage
    /\ mounted = TRUE /\ timer = FALSE /\ inFlight = 1
    /\ shown = Null /\ canvas = Null /\ detail = Null
    /\ failures = 0 /\ clicks = 0 /\ picked = Null

-----------------------------------------------------------------------------

resetTimer(q, end) == timer' = (q = Null \/ ~end)

refreshLoop ==
    /\ timer
    /\ timer' = FALSE /\ inFlight' = inFlight + 1
    /\ requested' = IF selectedStageId = Null THEN UrlStage ELSE selectedStageId
    /\ UNCHANGED << server, page, mounted, shown, canvas, detail, failures, clicks, picked >>

RECURSIVE StagesOf(_)
StagesOf(stage) == {stage} \cup UNION {StagesOf(stage.subStages[i]) : i \in DOMAIN stage.subStages}

\* getAllStageIds reads the plan of every stage.
AllStageIdsThrow(q) == \E s \in StagesOf(q.outputStage) : s.plan = Null

\* The stage of that id, as a set of at most one.
findStage(stageId, outputStage) == {s \in StagesOf(outputStage) : s.id = stageId}

\* What StageOperatorGraph draws.
updateD3Graph(stage) ==
    LET graph == OperatorGraphOf(stage)
    IN  canvas' = IF graph.nodes = {} THEN Null ELSE graph

Unmount == mounted' = FALSE /\ UNCHANGED << shown, canvas >>

\* The operator graph is on the page: there is such a stage and the query has ended.
ShowsGraph(q, stageId) == q.outputStage # Null /\ findStage(stageId, q.outputStage) # {} /\ q.isEnded

\* render and what follows it for a page that has got a query.
render(q, stageId) ==
    IF q.outputStage # Null /\ AllStageIdsThrow(q) THEN Unmount
    ELSE IF ~ShowsGraph(q, stageId) THEN UNCHANGED << mounted, shown, canvas >>
    ELSE LET stage == CHOOSE s \in findStage(stageId, q.outputStage) : TRUE
         IN  IF PlanThrows(stage.plan) THEN mounted' = FALSE /\ shown' = stage /\ UNCHANGED canvas
             ELSE shown' = stage /\ updateD3Graph(stage) /\ UNCHANGED mounted

\* The success callback.
ReceiveQuery ==
    /\ inFlight > 0 /\ server # Null
    /\ inFlight' = inFlight - 1
    /\ IF mounted
       THEN /\ initialized' = TRUE /\ ended' = server.final
            /\ selectedStageId' = requested /\ query' = server
            /\ render(query', selectedStageId')
            /\ IF mounted' THEN resetTimer(query', ended') ELSE UNCHANGED timer
       ELSE UNCHANGED << page, mounted, shown, canvas >> /\ resetTimer(query, ended)
    /\ UNCHANGED << server, requested, detail, failures, clicks, picked >>

\* The error callback; the page is rendered again as it was.
ReceiveError ==
    /\ inFlight > 0
    /\ IF server = Null THEN UNCHANGED failures ELSE failures < MaxFailures /\ failures' = failures + 1
    /\ inFlight' = inFlight - 1
    /\ initialized' = (initialized \/ mounted)
    /\ resetTimer(query, ended)
    /\ UNCHANGED << server, ended, selectedStageId, query, requested, mounted, shown, canvas, detail, clicks, picked >>

\* A choice from "Select Stage", which is there when the page has found its stage.
SelectStage(stageId) ==
    /\ mounted /\ query # Null /\ clicks < MaxClicks
    /\ query.outputStage # Null /\ findStage(selectedStageId, query.outputStage) # {}
    /\ findStage(stageId, query.outputStage) # {}
    /\ selectedStageId' = stageId
    /\ render(query, stageId)
    /\ clicks' = clicks + 1
    /\ picked' = IF inFlight = 0 THEN stageId ELSE Null
    /\ UNCHANGED << server, initialized, ended, query, requested, timer, inFlight, detail, failures >>

\* A click on an operator of the drawing: React keeps the dialog of the same key, with
\* the charts it drew when it was mounted.  The stage is the one last drawn, also
\* after the page around the drawing is gone.
handleOperatorClick(nodeId) ==
    /\ canvas # Null /\ clicks < MaxClicks
    /\ \E n \in canvas.nodes : n[1] = nodeId
    /\ LET table == [stage |-> shown.id, version |-> shown.version,
                     operator |-> CHOOSE o \in ToSet(shown.operators) : OperatorNodeId(o) = nodeId,
                     tasks |-> getOperatorTasks(shown.tasks, nodeId), of |-> Len(shown.tasks)]
       IN  detail' = [key |-> nodeId, table |-> table,
                      charts |-> IF detail # Null /\ detail.key = nodeId THEN detail.charts ELSE table]
    /\ clicks' = clicks + 1
    /\ UNCHANGED << server, page, requested, mounted, timer, inFlight, shown, canvas, failures, picked >>

\* The query goes on, whether or not the page asks.
ServerStep ==
    /\ server # Null
    /\ server' \in Successor(server)
    /\ UNCHANGED << page, requested, mounted, timer, inFlight, shown, canvas, detail, failures, clicks, picked >>

Next ==
    \/ refreshLoop \/ ReceiveQuery \/ ReceiveError \/ ServerStep
    \/ \E stageId \in 0..2 : SelectStage(stageId)
    \/ \E nodeId \in (0..2) \X (0..3) : handleOperatorClick(nodeId)

Spec == Init /\ [][Next]_vars

\* What the page says.
Screen ==
    IF ~mounted THEN "blank"
    ELSE IF query = Null THEN (IF initialized THEN "Query not found" ELSE "Loading...")
    ELSE IF query.outputStage = Null THEN "Query does not have an output stage"
    ELSE IF findStage(selectedStageId, query.outputStage) = {} THEN "Stage not found"
    ELSE IF ~query.isEnded THEN "Operator graph will appear automatically when query completes."
    ELSE IF shown.plan = Null THEN "Stage does not have a plan"
    ELSE IF shown.operators = << >> THEN "Operator data not available"
    ELSE "operator graph"

-----------------------------------------------------------------------------
(* Properties. *)

\* Every type of the plan is one getChildren knows.
RECURSIVE Known(_)
Known(node) ==
    /\ node.type \in OneSource \cup TwoSources \cup ManySources \cup NoSource
    /\ \A i \in DOMAIN node.inputs : Known(node.inputs[i])

\* A page with an operator graph shows the one of the selected stage as the last
\* answer has it: every operator is in the box of its pipeline, and the operators of
\* a pipeline form one chain in the order of their ids, whatever nodes of the plan
\* they come from and in whatever order the summaries are listed.
DrawingIsThePipelines ==
    mounted /\ Screen = "operator graph" =>
        \E stage \in findStage(selectedStageId, query.outputStage) :
            LET operators == ToSet(stage.operators)
                Next1(o, p) == o.pipelineId = p.pipelineId /\ p.operatorId = o.operatorId + 1
            IN  Known(stage.plan) =>
                    /\ canvas.nodes = {<< OperatorNodeId(o), o >> : o \in operators}
                    /\ canvas.parents = {<< OperatorNodeId(o), o.pipelineId >> : o \in operators}
                    /\ canvas.edges = {<< OperatorNodeId(p[1]), OperatorNodeId(p[2]) >> :
                                          p \in {pair \in operators \X operators : Next1(pair[1], pair[2])}}

\* A stage that is selected while no request is under way stays selected until the
\* next click: later answers bring back the selection they were sent with.
SelectionStays == picked # Null => selectedStageId = picked

\* When all tasks of the stage have run an operator, the bar the tooltip calls
\* "Task n" is that of task n.
BarsAreOfTheirTasks ==
    detail # Null =>
        LET tasks == detail.charts.tasks
        IN  Len(tasks) = detail.charts.of => \A i \in DOMAIN tasks : tasks[i].number = OffsetLabel(i)

\* A page about a query that keeps its plans comes to show the final operators of a
\* stage that exists.
FinalGraphIsShown ==
    \/ server = Null \/ ~mounted
    \/ ended /\ ~timer /\ inFlight = 0
       /\ Screen \in {"operator graph", "Operator data not available", "Stage not found",
                      "Query does not have an output stage"}
=============================================================================
