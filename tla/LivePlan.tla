------------------------------ MODULE LivePlan ------------------------------
(***************************************************************************)
(* The live plan of a query (LivePlan.jsx): it polls /v1/query/{id} every  *)
(* second and draws the plan's stages and nodes as one graph, which it     *)
(* keeps and updates in place.                                             *)
(*                                                                         *)
(* A stage is [stageId, plan, state, fullyBlocked, stats, subStages]; its  *)
(* plan is Null or [id, root] where root is a node [id, children, remoteSources].  What *)
(* the server says of the query is [outputStage, final], or Null once the  *)
(* query is gone.                                                          *)
(*                                                                         *)
(* An exception in componentDidUpdate makes React unmount the page, which  *)
(* stays blank; setState then does nothing, and the exception ends up in   *)
(* the catch of the fetch.                                                 *)
(***************************************************************************)
EXTENDS Integers, Sequences, SequencesExt, FiniteSets, TLC, QueryDisplay

CONSTANTS FirstInfo, Successor(_),  \* what the server may say first, and what after what
          Null,
          MaxFailures               \* bound: failed requests

VARIABLES server, query, initialized, ended,
          svg,          \* "null", "canvas": the selected element, "empty": nothing was selected
          graph,        \* the dagre graph: label of each node, cluster of each node, label of each edge
          screen,       \* Null or the drawing the page shows: [graph, zoom]
          mounted, timer, inFlight, failures

vars == << server, query, initialized, ended, svg, graph, screen, mounted, timer, inFlight, failures >>

-----------------------------------------------------------------------------
(* The graph (graphlib): setNode replaces a label, setEdge makes the nodes *)
(* it joins if they are not there yet.                                     *)

EmptyGraph == [label |-> << >>, parent |-> << >>, edge |-> << >>]

setNode(g, v, label) == [g EXCEPT !.label = (v :> label) @@ @]
setParent(g, v, cluster) == [g EXCEPT !.parent = (v :> cluster) @@ @]
setEdge(g, v, w, label) ==
    [g EXCEPT !.label = @ @@ (v :> Null) @@ (w :> Null), !.edge = (<< v, w >> :> label) @@ @]

\* The nodes of a plan, each with the ids of its sources, a node before its children.
RECURSIVE flattenNode(_)
flattenNode(node) ==
    << [id |-> node.id,
        sources |-> [i \in DOMAIN node.children |-> node.children[i].id],
        remoteSources |-> node.remoteSources] >>
    \o FlattenSeq([i \in DOMAIN node.children |-> flattenNode(node.children[i])])

\* The stages, each after the ones it reads from.
RECURSIVE flattenStage(_)
flattenStage(stage) ==
    FlattenSeq([i \in DOMAIN stage.subStages |-> flattenStage(stage.subStages[i])])
    \o << [stageId |-> stage.stageId, id |-> stage.plan.id, root |-> stage.plan.root.id,
           stats |-> stage.stats, state |-> stage.state, fullyBlocked |-> stage.fullyBlocked, nodes |-> flattenNode(stage.plan.root)] >>

\* One plan node: its label, its cluster and the edges from what it reads.
addPlanNode(g, node, clusterId, allStages) ==
    LET nodeId == << "node", node.id >>
        placed == setParent(setNode(g, nodeId, "name"), nodeId, clusterId)
        local == FoldLeft(LAMBDA h, source : setEdge(h, << "node", source >>, nodeId, "plan-edge"), placed, node.sources)
        Known(sourceId) == {i \in DOMAIN allStages : allStages[i].id = sourceId}
        Remote(h, sourceId) ==
            IF Known(sourceId) = {} THEN h
            ELSE setEdge(h, << "root", sourceId >>, nodeId, allStages[CHOOSE i \in Known(sourceId) : TRUE].stats)
    IN  IF node.remoteSources = << >> THEN local
        ELSE FoldLeft(Remote, setNode(local, nodeId, "circle"), node.remoteSources)

\* mutant: the statistics of a stage are written when its node is new
keepStageLabel(stage, g, allStages) ==
    LET root == << "root", stage.id >>
        known == root \in DOMAIN g.label
        clustered == setNode(g, << "cluster", stage.stageId >>, getStageStateColor(stage))
        labelled == IF known THEN clustered ELSE setNode(clustered, root, << stage.state, stage.stats >>)
        rooted == setEdge(setParent(labelled, root, << "cluster", stage.stageId >>), << "node", stage.root >>, root, "hidden")
    IN  FoldLeft(LAMBDA h, node : addPlanNode(h, node, << "cluster", stage.stageId >>, allStages), rooted, stage.nodes)

\* One stage: its cluster in the colour of its state, the node with its statistics
\* above the plan's root, and its plan nodes.
updateD3Stage(stage, g, allStages) ==
    LET clusterId == << "cluster", stage.stageId >>
        stageRootNodeId == << "root", stage.id >>
        clustered == setNode(g, clusterId, getStageStateColor(stage))
        labelled == setNode(clustered, stageRootNodeId, << stage.state, stage.stats >>)
        rooted == setEdge(setParent(labelled, stageRootNodeId, clusterId), << "node", stage.root >>, stageRootNodeId, "hidden")
    IN  FoldLeft(LAMBDA h, node : addPlanNode(h, node, clusterId, allStages), rooted, stage.nodes)

updateD3Stages(g, outputStage) ==
    LET stages == flattenStage(outputStage)
    IN  FoldLeft(LAMBDA h, stage : updateD3Stage(stage, h, stages), g, stages)

-----------------------------------------------------------------------------

\* Every stage of the tree.
RECURSIVE StagesOf(_)
StagesOf(stage) == {stage} \cup UNION {StagesOf(stage.subStages[i]) : i \in DOMAIN stage.subStages}

\* getStages gets through: there is a root stage, and no stage has lost its plan.
HasPlan(info) == info # Null /\ info.outputStage # Null /\ \A s \in StagesOf(info.outputStage) : s.plan # Null

Init ==
    /\ server \in FirstInfo
    /\ query = Null /\ initialized = FALSE /\ ended = FALSE
    /\ svg = "null" /\ graph = EmptyGraph /\ screen = Null
    /\ mounted = TRUE
    /\ timer = FALSE /\ inFlight = 1 /\ failures = 0

\* mutant: polling goes on after the end
resetTimerAlways(q, end) == timer' = TRUE

\* mutant: polling stops with the first answer
resetTimerOnce(q, end) == timer' = (q = Null)

resetTimer(q, end) == timer' = (q = Null \/ ~end)

refreshLoop ==
    /\ timer
    /\ timer' = FALSE
    /\ inFlight' = inFlight + 1
    /\ UNCHANGED << server, query, initialized, ended, svg, graph, screen, mounted, failures >>

Unmount == mounted' = FALSE /\ screen' = Null /\ UNCHANGED graph

\* The second half of updateD3Graph, for a query that is not null.  In an empty
\* selection nothing is drawn; whether the drawing library then throws is not known.
drawPlan(q, end, selected) ==
    IF ~HasPlan([outputStage |-> q.outputStage]) THEN Unmount
    ELSE \/ /\ graph' = updateD3Stages(graph, q.outputStage)
            /\ screen' = IF selected = "canvas" THEN [graph |-> graph', zoom |-> end] ELSE screen
            /\ UNCHANGED mounted
         \/ selected = "empty" /\ Unmount

\* componentDidUpdate of a page that shows q: the first one selects the canvas, which
\* is on the page only if there is a query, and updates again.
updateD3Graph(q, end) ==
    /\ svg' = IF svg # "null" THEN svg ELSE IF q = Null THEN "empty" ELSE "canvas"
    /\ IF q = Null THEN UNCHANGED << graph, screen, mounted >> ELSE drawPlan(q, end, svg')

\* The answer: setState and what it sets off, then the timer, which the catch also
\* sets.  An unmounted page keeps its state.
ReceiveQuery ==
    /\ inFlight > 0 /\ server # Null
    /\ inFlight' = inFlight - 1
    /\ IF mounted
       THEN /\ query' = server /\ initialized' = TRUE /\ ended' = server.final
            /\ updateD3Graph(query', ended')
       ELSE UNCHANGED << query, initialized, ended, svg, graph, screen, mounted >>
    /\ resetTimer(query', ended')
    /\ UNCHANGED << server, failures >>

\* No answer, or one that is not JSON because the query is gone.
ReceiveError ==
    /\ inFlight > 0
    /\ IF server = Null THEN UNCHANGED failures ELSE failures < MaxFailures /\ failures' = failures + 1
    /\ inFlight' = inFlight - 1
    /\ IF mounted
       THEN /\ initialized' = TRUE
            /\ updateD3Graph(query, ended)
       ELSE UNCHANGED << initialized, svg, graph, screen, mounted >>
    /\ resetTimer(query, ended)
    /\ UNCHANGED << server, query, ended >>

\* The query goes on, whether or not the page asks.
ServerStep ==
    /\ server # Null
    /\ server' \in Successor(server)
    /\ UNCHANGED << query, initialized, ended, svg, graph, screen, mounted, timer, inFlight, failures >>

Next == refreshLoop \/ ReceiveQuery \/ ReceiveError \/ ServerStep

Spec == Init /\ [][Next]_vars

\* What the page says.
Screen ==
    IF ~mounted THEN << "blank" >>
    ELSE IF query = Null THEN << IF initialized THEN "Query not found" ELSE "Loading..." >>
    ELSE (IF query.outputStage = Null THEN << "Live plan graph will appear automatically when query starts running." >> ELSE << >>)
         \o << IF ended THEN "Scroll to zoom." ELSE "Zoom disabled while query is running." >>

-----------------------------------------------------------------------------
(* Properties. *)

\* What the graph of a plan is, stated of the tree as a whole.
RECURSIVE NodesOf(_)
NodesOf(node) == {node} \cup UNION {NodesOf(node.children[i]) : i \in DOMAIN node.children}

PlanOf(outputStage) ==
    LET stages == StagesOf(outputStage)
        Cluster(s) == << "cluster", s.stageId >>
        nodes == UNION {{<< s, n >> : n \in NodesOf(s.plan.root)} : s \in stages}
        Id(n) == << "node", n.id >>
    IN  [label |-> { << Cluster(s), getStageStateColor(s) >> : s \in stages }
                   \cup { << << "root", s.plan.id >>, << s.state, s.stats >> >> : s \in stages }
                   \cup { << Id(p[2]), IF p[2].remoteSources = << >> THEN "name" ELSE "circle" >> : p \in nodes },
         parent |-> { << << "root", s.plan.id >>, Cluster(s) >> : s \in stages }
                    \cup { << Id(p[2]), Cluster(p[1]) >> : p \in nodes },
         edge |-> { << << Id(s.plan.root), << "root", s.plan.id >> >>, "hidden" >> : s \in stages }
                  \cup UNION {{ << << Id(p[2].children[i]), Id(p[2]) >>, "plan-edge" >> : i \in DOMAIN p[2].children} : p \in nodes}
                  \cup UNION {{ << << << "root", s.plan.id >>, Id(p[2]) >>, s.stats >> :
                                  s \in {t \in stages : t.plan.id \in ToSet(p[2].remoteSources)}} : p \in nodes}]

Pairs(f) == {<< x, f[x] >> : x \in DOMAIN f}

\* The drawing is the plan of the last answer: the graph that is updated in place
\* again and again holds that plan's stages with their present state and statistics,
\* its nodes and its edges, and nothing that is left over from an earlier answer.
DrawingIsThePlan ==
    mounted /\ svg = "canvas" =>
        /\ screen # Null
        /\ screen.zoom = ended
        /\ Pairs(screen.graph.label) = PlanOf(query.outputStage).label
        /\ Pairs(screen.graph.parent) = PlanOf(query.outputStage).parent
        /\ Pairs(screen.graph.edge) = PlanOf(query.outputStage).edge

\* A drawing, once shown, goes away only with the stages on the server: neither lost
\* requests nor the end of the query take it from the page, which then says that the
\* graph can be zoomed and never again that it will appear, or that there is no query.
DrawingStays ==
    screen # Null => IF screen' = Null THEN ~HasPlan(server)
                     ELSE Screen' = << IF ended' THEN "Scroll to zoom." ELSE "Zoom disabled while query is running." >>

\* Unless the query goes, loses its plan or had none when the page asked, or the first
\* request failed, the page ends up with the drawing of the final plan.
FinalPlanIsShown ==
    server = Null \/ ~mounted \/ svg = "empty" \/ (ended /\ screen # Null /\ query.final /\ ~timer /\ inFlight = 0)
=============================================================================
