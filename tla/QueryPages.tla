----------------------------- MODULE QueryPages -----------------------------
(***************************************************************************)
(* The pages about queries, in a browser that has one of them open: the    *)
(* list of queries, the page of one query, its live plan, its stages, and  *)
(* the title bar that is on each of them.  Every page is a loop of its own *)
(* over one answer of the server, and the parts of a page share no state,  *)
(* so each of them is followed alone: part says which, and what belongs to *)
(* the others stays as it is.  timer, inFlight, failures, query and ended  *)
(* are those of the part that is followed.                                 *)
(***************************************************************************)
EXTENDS PageTitle, Sequences

CONSTANT Null

VARIABLES part,
          initialized, failures, server, query, ended, mounted,
          allQueries, displayedQueries, reorderInterval, sortType, sortOrder, stateFilters,
          errorTypeFilters, searchString, maxQueries, age, searchTimer,
          lastSnapshotStage, lastSnapshotTasks, stageRefresh, taskRefresh, taskFilter,
          lastCounter, lastRefresh, history, charts, baseline, setBack,
          svg, graph, screen,
          selectedStageId, requested, shown, canvas, detail, clicks, picked

-----------------------------------------------------------------------------
(* The samples the pages are followed with. *)

Queries == INSTANCE SampleQueries
Operators == INSTANCE SampleOperators

\* A query that waits, runs, ends, gets its final information and may be removed.
Moment(state, final, elapsed, stage, counter) ==
    [state |-> state, final |-> final, elapsed |-> elapsed, outputStage |-> stage,
     counter |-> counter]

Moments == << Moment("QUEUED", FALSE, 3, 0, 0), Moment("RUNNING", FALSE, 6, 1, 2),
              Moment("FINISHED", FALSE, 9, 2, 5), Moment("FINISHED", TRUE, 9, 3, 7) >>
MomentsAfter ==
    [m \in {Moments[i] : i \in DOMAIN Moments} |->
        {Moments[i + 1] : i \in {j \in 1..3 : Moments[j] = m}} \cup (IF m.final THEN {Null} ELSE {})]
TaskStates == << << "PLANNED", "RUNNING" >>, << "ABORTED", "FINISHED" >>, << "CANCELED", "FAILED" >> >>

-----------------------------------------------------------------------------
(* The pages. *)

List == INSTANCE QueryList WITH
            QueryId <- Queries!QueryId, Profile <- Queries!Profile, Info <- Queries!ListedInfo, Successor <- Queries!ListedSuccessor,
            CreateTime <- Queries!CreateTime, SearchTerm <- Queries!SearchTerm, TextHits <- Queries!TextHits,
            LabelHits <- Queries!LabelHits, MaxQueriesItems <- Queries!MaxQueriesItems,
            ReorderItems <- Queries!ReorderItems, SortItems <- Queries!SortItems,
            FilterButtons <- Queries!FilterButtons, ErrorTypeItems <- Queries!ErrorTypeItems,
            InitialMaxQueries <- 1, InitialReorderInterval <- 2, MaxElapsed <- 1, MaxFailures <- 1

Detail == INSTANCE QueryDetail WITH
            Successor <- MomentsAfter, FirstInfo <- DOMAIN MomentsAfter,
            Elapsed <- {-2, 0, 3}, ClickTimes <- {3}, MaxSetBack <- 2, TaskFilters <- {"ALL"},
            TaskStatesAt <- [v \in 0..3 |-> IF v = 0 THEN << >> ELSE TaskStates[v]],
            MAX_HISTORY <- 2, MaxFailures <- 1

Plan == INSTANCE LivePlan WITH
            FirstInfo <- Queries!FirstInfo, Successor <- Queries!Successor, MaxFailures <- 2

Stage == INSTANCE StageDetail WITH
            FirstInfo <- Operators!FirstInfo, Successor <- Operators!Successor, UrlStage <- 1,
            MaxFailures <- 1, MaxClicks <- 2

listVars == << allQueries, displayedQueries, reorderInterval, sortType, sortOrder, stateFilters,
               errorTypeFilters, searchString, maxQueries, age, searchTimer >>
queryVars == << server, query, ended >>
detailVars == << lastSnapshotStage, lastSnapshotTasks, stageRefresh, taskRefresh, taskFilter,
                 lastCounter, lastRefresh, history, charts, baseline, setBack >>
planVars == << svg, graph, screen >>
stageVars == << selectedStageId, requested, shown, canvas, detail, clicks, picked >>
barVars == << connected, titleState, modal, dismissed, succeeded >>
pageVars == << part, timer, inFlight, initialized, failures, mounted,
               listVars, queryVars, detailVars, planVars, stageVars, barVars >>

\* The parts that are not followed.
NoList ==
    /\ allQueries = Null /\ displayedQueries = Null /\ reorderInterval = Null /\ sortType = Null /\ sortOrder = Null
    /\ stateFilters = Null /\ errorTypeFilters = Null /\ searchString = Null /\ maxQueries = Null
    /\ age = Null /\ searchTimer = FALSE
NoQuery == server = Null /\ query = Null /\ ended = FALSE
NoDetail ==
    /\ lastSnapshotStage = Null /\ lastSnapshotTasks = Null /\ stageRefresh = Null /\ taskRefresh = Null
    /\ taskFilter = Null /\ lastCounter = Null /\ lastRefresh = Null /\ history = Null
    /\ charts = Null /\ baseline = Null /\ setBack = Null
NoPlan == svg = Null /\ graph = Null /\ screen = Null
NoStage ==
    /\ selectedStageId = Null /\ requested = Null /\ shown = Null /\ canvas = Null
    /\ detail = Null /\ clicks = Null /\ picked = Null
NoTitle ==
    /\ connected = TRUE /\ noConnection = FALSE /\ lightShown = FALSE /\ info = FALSE /\ modalShown = FALSE
    /\ silence = 0 /\ modal = FALSE /\ dismissed = FALSE /\ succeeded = TRUE

PageInit ==
    \/ part = "list" /\ List!Init /\ mounted = TRUE /\ NoQuery /\ NoDetail /\ NoPlan /\ NoStage /\ NoTitle
    \/ part = "detail" /\ Detail!Init /\ mounted = TRUE /\ NoList /\ NoPlan /\ NoStage /\ NoTitle
    \/ part = "plan" /\ Plan!Init /\ NoList /\ NoDetail /\ NoStage /\ NoTitle
    \/ part = "stage" /\ Stage!Init /\ NoList /\ NoDetail /\ NoPlan /\ NoTitle
    \/ /\ part = "title" /\ TitleInit /\ initialized = FALSE /\ failures = 0 /\ mounted = TRUE
       /\ NoList /\ NoQuery /\ NoDetail /\ NoPlan /\ NoStage

PageNext ==
    /\ UNCHANGED part
    /\ \/ /\ part = "list" /\ List!Next
          /\ UNCHANGED << mounted, queryVars, detailVars, planVars, stageVars, barVars >>
       \/ part = "detail" /\ Detail!Next /\ UNCHANGED << mounted, listVars, planVars, stageVars, barVars >>
       \/ part = "plan" /\ Plan!Next /\ UNCHANGED << listVars, detailVars, stageVars, barVars >>
       \/ part = "stage" /\ Stage!Next /\ UNCHANGED << listVars, detailVars, planVars, barVars >>
       \/ /\ part = "title" /\ TitleNext
          /\ UNCHANGED << initialized, failures, mounted, listVars, queryVars, detailVars, planVars, stageVars >>

-----------------------------------------------------------------------------
(* What the browser and the server can be relied on for. *)

TimerFires == timer /\ timer' = FALSE
RequestEnds == inFlight > 0 /\ inFlight' = inFlight - 1

\* A query goes on to its end; that it is then removed is never certain.
QueryGoesOn ==
    /\ server # Null /\ ~server.final
    /\ server' \in (CASE part = "detail" -> MomentsAfter[server]
                      [] part = "plan" -> Queries!Successor(server)
                      [] part = "stage" -> Operators!Successor(server))

PageSpec == PageInit /\ [][PageNext]_pageVars
            /\ WF_timer(TimerFires) /\ WF_inFlight(RequestEnds) /\ WF_server(QueryGoesOn)

-----------------------------------------------------------------------------
(* Properties. *)

\* The polling of every part is RefreshLoop's, whatever the user clicks and however
\* requests end: "to stop multiple series of refreshLoop from going on simultaneously"
\* there is one request or one timer at a time; the pages about one query "stop
\* refreshing when query finishes or fails", never before, and the list and the title
\* bar never do.  A stage page that goes blank stops too.
Loop == INSTANCE RefreshLoop WITH
            phase <- IF inFlight > 0 THEN "requesting" ELSE IF timer THEN "waiting" ELSE "stopped",
            final <- ended \/ (part = "stage" /\ ~mounted)
ImplementsRefreshLoop == Loop!Spec

\* What a page shows is what the last answer said, after any number of answers, lost
\* requests and clicks: the rows of the list are the server's queries as they are now;
\* the drawings are those of the present plan and the pipelines of the selected stage,
\* with nothing left over from an earlier answer; the rates of a query add up to what
\* it has done, its charts lag by one point at most unless the browser's clock was set
\* back; the light is green exactly when
\* the last request got through.
PagesAreTrue ==
    /\ part = "list" => List!DisplayedAreCurrent /\ List!RowsAgree
    /\ part = "detail" => /\ Detail!ChartsLagOnePoint /\ Detail!RatesAddUp
                          /\ Detail!EveryTaskHasAFilter /\ Detail!QueryIsHighlighted
    /\ part = "plan" => Plan!DrawingIsThePlan
    /\ part = "stage" => Stage!DrawingIsThePipelines /\ Stage!SelectionStays /\ Stage!BarsAreOfTheirTasks
    /\ part = "title" => LightIsTrue /\ DialogGoes

\* No step of a page takes away what the user looks at without cause: a refresh of the
\* list hides no query that fits, reorders only when a reorder is due, and then to the
\* best first; frozen lists of stages and tasks stay and none goes back in time; a
\* drawing goes only with the query's stages.
PagesAreStable ==
    [][/\ part = "list" => List!RefreshShowsWhatFits /\ List!ReorderShowsTheBest /\ List!StableBetweenReorders
       /\ part = "detail" => Detail!ListsNeverGoBack
       /\ part = "plan" => Plan!DrawingStays]_pageVars

\* Every page catches up, though requests fail and timers are reset: the list comes to
\* obey its filters and its search term again and again, and the pages about a query
\* come to show its end and stay there, unless the server forgets it first.
PagesCatchUp ==
    []<>(/\ part = "list" => List!FiltersHold
         /\ part = "detail" => Detail!EndIsShown
         /\ part = "plan" => Plan!FinalPlanIsShown
         /\ part = "stage" => Stage!FinalGraphIsShown)
=============================================================================
