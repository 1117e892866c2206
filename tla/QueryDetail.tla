---------------------------- MODULE QueryDetail ----------------------------
(***************************************************************************)
(* The page of one query (QueryDetail.jsx): it polls /v1/query/{id} every  *)
(* three seconds, keeps a snapshot of the stages and one of the tasks that *)
(* the user can freeze, and plots five lists of samples.  setState outside *)
(* a React event handler renders at once and calls componentDidUpdate, so  *)
(* an answer that calls setState twice updates twice.                      *)
(*                                                                         *)
(* What the server knows of the query is a record of                       *)
(*   state, final, elapsed    elapsed: seconds since the query was created *)
(*   outputStage              0 when there is none yet, else its version   *)
(*   counter                  the four counters have one treatment, so one *)
(*                            stands for all                               *)
(* The five lists always grow together, so one stands for all too, and its *)
(* points for what the counter grew by: the time each is divided by is not *)
(* kept.                                                                   *)
(*                                                                         *)
(* Times are seconds of the browser's clock, which may be set back.  The   *)
(* time stamps lastRefresh and lastRender are kept as their age when the   *)
(* last request ended; a drawing after that has a negative age.            *)
(***************************************************************************)
EXTENDS Sparklines

CONSTANTS Successor,        \* what the server may say, and what after what
          FirstInfo,        \* what it may say when the page is opened
          Elapsed,          \* times from the end of a request to the end of the next
          ClickTimes,       \* times from the end of a request to a click before the next
          TaskFilters,
          TaskStatesAt,     \* the states of the tasks of each version
          Null,             \* no query
          MaxFailures,      \* bound: failed requests
          MaxSetBack        \* bound: how far behind lastRender the clock may be

VARIABLES server,           \* a member of DOMAIN Successor, or Null once the query is removed
          query, lastSnapshotStage, lastSnapshotTasks, stageRefresh, taskRefresh, taskFilter,
          initialized, ended,
          lastCounter, lastRefresh, history,
          charts,           \* lastRender, the points the charts show (drawn), and
                            \* whether the query text has been highlighted
          timer, inFlight, failures,
          baseline, setBack \* history: the counter of the first answer if that was not
                            \* plotted, and whether the clock was ever set back by more
                            \* than the time between two answers; in charts, slipped:
                            \* it was set back since the last drawing

snapshots == << lastSnapshotStage, lastSnapshotTasks, stageRefresh, taskRefresh, taskFilter >>
plots == << lastCounter, lastRefresh, history, baseline, setBack >>
vars == << server, query, snapshots, initialized, ended, plots, charts, timer, inFlight, failures >>

Init ==
    /\ server \in FirstInfo
    /\ query = Null
    /\ lastSnapshotStage = 0 /\ lastSnapshotTasks = 0
    /\ stageRefresh = TRUE /\ taskRefresh = TRUE /\ taskFilter = "ALL"
    /\ initialized = FALSE /\ ended = FALSE
    /\ lastCounter = 0 /\ lastRefresh = Null /\ history = << >>
    /\ charts = [lastRender |-> Null, drawn |-> << >>, highlighted |-> FALSE, slipped |-> FALSE]
    /\ timer = FALSE /\ inFlight = 1 /\ failures = 0
    /\ baseline = 0 /\ setBack = FALSE

-----------------------------------------------------------------------------

resetTimer(q, end) == timer' = (q = Null \/ ~end)

refreshLoop ==
    /\ timer
    /\ timer' = FALSE
    /\ inFlight' = inFlight + 1
    /\ UNCHANGED << server, query, snapshots, initialized, ended, plots, charts, failures >>

\* A time stamp when some time has passed.
Older(stamp, time) == IF stamp = Null THEN Null ELSE stamp + time

\* componentDidUpdate draws at most once a second, and not at all while the clock is
\* behind the last drawing.  Before the page shows the query the elements to draw in
\* and to highlight do not exist, but lastRender is set all the same.
componentDidUpdate(c, q, points) ==
    IF c.lastRender = Null \/ c.lastRender >= 1
    THEN [lastRender |-> 0,
          drawn |-> IF q # Null THEN points ELSE c.drawn,
          highlighted |-> c.highlighted \/ (c.lastRender = Null /\ q # Null),
          slipped |-> FALSE]
    ELSE c

\* An update some time after the end of the last request.
UpdatedAt(time, c, q, points) ==
    LET updated == componentDidUpdate([c EXCEPT !.lastRender = Older(@, time)], q, points)
    IN  [updated EXCEPT !.lastRender = @ - time]

\* "don't show sparklines if we've already decided not to update or if we don't have
\* one previous measurement"
Plotted(info) == ~(ended \/ (lastRefresh = Null /\ info.state = "RUNNING"))

\* Time from the measurement before, which for a query first seen when it is not
\* running is its creation.
SecsSinceLastRefresh(info, elapsed) == IF lastRefresh = Null THEN info.elapsed ELSE lastRefresh + elapsed

\* The charts when a request ends: three seconds and more after the one before it, so a
\* shorter time means that the clock was set back.
ChartsAtEnd(elapsed) ==
    [charts EXCEPT !.lastRender = Older(@, elapsed), !.slipped = @ \/ elapsed < 3]
ClockIsNear == charts'.lastRender >= -MaxSetBack

Snapshot(on, old, info) == IF on THEN info.outputStage ELSE old

\* The success callback: the first setState and its update, the point, the second
\* setState and its update, some time (pause) after the first.
ReceiveQuery(elapsed, pause) ==
    /\ inFlight > 0 /\ server # Null
    /\ inFlight' = inFlight - 1
    /\ query' = server
    /\ lastSnapshotStage' = Snapshot(stageRefresh, lastSnapshotStage, server)
    /\ lastSnapshotTasks' = Snapshot(taskRefresh, lastSnapshotTasks, server)
    /\ lastCounter' = server.counter
    /\ initialized' = TRUE
    /\ ended' = server.final
    /\ lastRefresh' = 0
    /\ LET secs == SecsSinceLastRefresh(server, elapsed)
           first == componentDidUpdate(ChartsAtEnd(elapsed), server, history)
       IN  IF Plotted(server) /\ secs >= 0
           THEN /\ history' = addToHistory(server.counter - lastCounter, history)
                /\ charts' = UpdatedAt(pause, first, server, history')
                /\ UNCHANGED setBack
           ELSE /\ pause = 0
                /\ charts' = first
                /\ setBack' = (setBack \/ secs < 0)
                /\ UNCHANGED history
    /\ ClockIsNear
    /\ baseline' = IF lastRefresh = Null /\ server.state = "RUNNING" THEN server.counter ELSE baseline
    /\ resetTimer(query', ended')
    /\ UNCHANGED << server, stageRefresh, taskRefresh, taskFilter, failures >>

\* The error callback: the server is not reached, or does not know the query, and then
\* no answer will be compared with lastRefresh any more.
ReceiveError(elapsed) ==
    /\ inFlight > 0
    /\ IF server = Null THEN UNCHANGED << failures, lastRefresh >>
                        ELSE /\ failures < MaxFailures /\ failures' = failures + 1
                             /\ lastRefresh' = Older(lastRefresh, elapsed)
    /\ inFlight' = inFlight - 1
    /\ initialized' = TRUE
    /\ charts' = componentDidUpdate(ChartsAtEnd(elapsed), query, history)
    /\ ClockIsNear
    /\ resetTimer(query, ended)
    /\ UNCHANGED << server, query, snapshots, ended, lastCounter, history, baseline, setBack >>

\* A click on a page that shows its query.
Clicked(time) ==
    /\ query # Null
    /\ charts' = UpdatedAt(time, charts, query, history)
    /\ UNCHANGED << server, query, initialized, ended, plots, timer, inFlight, failures >>

handleTaskRefreshClick(time) ==
    /\ Clicked(time)
    /\ taskRefresh' = ~taskRefresh
    /\ lastSnapshotTasks' = IF taskRefresh THEN query.outputStage ELSE lastSnapshotTasks
    /\ UNCHANGED << lastSnapshotStage, stageRefresh, taskFilter >>

\* It stores the stages in lastSnapshotStages, which nothing reads.
handleStageRefreshClick(time) ==
    /\ Clicked(time)
    /\ stageRefresh' = ~stageRefresh
    /\ UNCHANGED << lastSnapshotStage, lastSnapshotTasks, taskRefresh, taskFilter >>

handleTaskFilterClick(filter, time) ==
    /\ Clicked(time)
    /\ taskFilter' = filter
    /\ UNCHANGED << lastSnapshotStage, lastSnapshotTasks, stageRefresh, taskRefresh >>

\* The server's side: the query moves on, ends, and is removed.
ServerStep ==
    /\ server # Null
    /\ server' \in Successor[server]
    /\ UNCHANGED << query, snapshots, initialized, ended, plots, charts, timer, inFlight, failures >>

Receive ==
    \E elapsed \in Elapsed :
        \/ \E pause \in 0..1 : ReceiveQuery(elapsed, pause)
        \/ ReceiveError(elapsed)

Click ==
    \E time \in ClickTimes :
        \/ handleTaskRefreshClick(time)
        \/ handleStageRefreshClick(time)
        \/ \E filter \in TaskFilters : handleTaskFilterClick(filter, time)

Next == refreshLoop \/ Receive \/ Click \/ ServerStep

Spec == Init /\ [][Next]_vars

-----------------------------------------------------------------------------
(* What is on the screen. *)

TASK_FILTER(filter, state) ==
    CASE filter = "ALL" -> TRUE
      [] filter = "FAILED" -> state \in {"FAILED", "ABORTED", "CANCELED"}
      [] OTHER -> state = filter

\* The task list under a filter (taskFilter's): nothing before the query has stages.
renderTasks(filter) == SelectSeq(TaskStatesAt[lastSnapshotTasks], LAMBDA state : TASK_FILTER(filter, state))

renderTaskRefreshButton == IF taskRefresh THEN "Auto-Refresh: On" ELSE "Auto-Refresh: Off"
renderStageRefreshButton == IF stageRefresh THEN "Auto-Refresh: On" ELSE "Auto-Refresh: Off"

Label == IF query = Null \/ ~initialized
         THEN IF initialized THEN "Query not found" ELSE "Loading..."
         ELSE ""

-----------------------------------------------------------------------------
(* Properties. *)

\* Each answer draws the charts before it adds its point, so they may lag, but by no
\* more than the last point, whatever the clicks in between draw: throttling never piles
\* up points that are not shown, unless the browser's clock was set back since the last
\* drawing.
ChartsLagOnePoint ==
    query # Null => \/ charts.drawn = history
                    \/ history # << >> /\ history = addToHistory(history[Len(history)], charts.drawn)
                    \/ charts.slipped

\* The sum of the points.
SumOf(points) ==
    LET sum[i \in 0..Len(points)] == IF i = 0 THEN 0 ELSE sum[i - 1] + points[i]
    IN  sum[Len(points)]

\* Rates are differences of counters over the time between two answers: as long as
\* no point is dropped, multiplied out again they give what the query has done since
\* the measurement they start from, lost and failed requests included, unless the
\* browser's clock was set back by more than that time, which leaves a gap.
RatesAddUp ==
    Len(history) <= MAX_HISTORY =>
        LET plotted == SumOf(history)
        IN  /\ plotted <= lastCounter - baseline
            /\ ~setBack => plotted = lastCounter - baseline

\* What the user has frozen, as the button beside it says, does not change, no list
\* ever goes back in time, and a query that was shown never becomes one not found.
ListsNeverGoBack ==
    /\ lastSnapshotTasks' >= lastSnapshotTasks /\ lastSnapshotStage' >= lastSnapshotStage
    /\ renderTaskRefreshButton = "Auto-Refresh: Off" /\ UNCHANGED taskRefresh => UNCHANGED lastSnapshotTasks
    /\ renderStageRefreshButton = "Auto-Refresh: Off" /\ UNCHANGED stageRefresh => UNCHANGED lastSnapshotStage
    /\ Label = "" => Label' = ""

\* Every task of the list is under exactly one of the four filters, whichever
\* snapshot is shown: none can be found only under "All".
EveryTaskHasAFilter ==
    \A i \in DOMAIN renderTasks("ALL") :
        \E f \in {"PLANNED", "RUNNING", "FINISHED", "FAILED"} :
            \A g \in {"PLANNED", "RUNNING", "FINISHED", "FAILED"} :
                (\E k \in DOMAIN renderTasks(g) : renderTasks(g)[k] = renderTasks("ALL")[i]) <=> g = f

\* The query text is highlighted as soon as it is shown, unless a request failed
\* before the first answer: componentDidUpdate only does it when lastRender is null.
QueryIsHighlighted == query # Null /\ failures = 0 => charts.highlighted

\* A query that stays known to the server is shown to its end, and then polling stops.
EndIsShown == server = Null \/ (ended /\ query.final /\ ~timer /\ inFlight = 0)
=============================================================================
