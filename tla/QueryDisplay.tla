---------------------------- MODULE QueryDisplay ----------------------------
(***************************************************************************)
(* How the web UI words, colours and measures the state of a query or a    *)
(* stage (webapp/src/utils.js, "Query display") and the header that the    *)
(* three query pages share (QueryHeader.jsx).  A query is the part of the  *)
(* BasicQueryInfo / QueryInfo JSON these functions read:                   *)
(*   state, errorType, errorCode   as the server names them                *)
(*   scheduled, fullyBlocked       BOOLEAN                                 *)
(*   totalDrivers, runningDrivers, queuedDrivers, completedDrivers          *)
(*   memoryPool                    "general" or "reserved"                 *)
(*   progressPercentage            in tenths of a percent, 0 when absent   *)
(* A label is a sequence of words, since " (" + ... + ")" only appends.    *)
(***************************************************************************)
EXTENDS Integers, Sequences

ErrorTypes == {"USER_ERROR", "INTERNAL_ERROR", "INSUFFICIENT_RESOURCES", "EXTERNAL"}

-----------------------------------------------------------------------------

FailureColor(q) ==
    CASE q.errorType = "USER_ERROR" /\ q.errorCode = "USER_CANCELED" -> "CANCELED"
      [] q.errorType = "USER_ERROR" /\ q.errorCode # "USER_CANCELED" -> "USER_ERROR"
      [] q.errorType = "EXTERNAL"               -> "EXTERNAL_ERROR"
      [] q.errorType = "INSUFFICIENT_RESOURCES" -> "INSUFFICIENT_RESOURCES"
      [] OTHER                                  -> "UNKNOWN_ERROR"

getQueryStateColor(q) ==
    CASE q.state \in {"PLANNING", "FINISHED"} -> q.state
      [] q.state \in {"STARTING", "FINISHING", "RUNNING"} ->
            IF q.fullyBlocked THEN "BLOCKED" ELSE "RUNNING"
      [] q.state = "FAILED" -> FailureColor(q)
      [] OTHER -> "QUEUED"

getStageStateColor(stage) ==
    CASE stage.state = "PLANNED" -> "QUEUED"
      [] stage.state \in {"SCHEDULING", "SCHEDULING_SPLITS", "SCHEDULED"} -> "PLANNING"
      [] stage.state = "RUNNING" -> IF stage.fullyBlocked THEN "BLOCKED" ELSE "RUNNING"
      [] stage.state = "FINISHED" -> "FINISHED"
      [] stage.state \in {"CANCELED", "ABORTED"} -> "CANCELED"
      [] stage.state = "FAILED" -> "UNKNOWN_ERROR"

\* The words for a failure; an error type the UI does not know leaves "FAILED".
FailureWords(q) ==
    CASE q.errorType = "USER_ERROR" /\ q.errorCode = "USER_CANCELED" -> << "USER CANCELED" >>
      [] q.errorType = "USER_ERROR" /\ q.errorCode # "USER_CANCELED" -> << "USER ERROR" >>
      [] q.errorType = "INTERNAL_ERROR"         -> << "INTERNAL ERROR" >>
      [] q.errorType = "INSUFFICIENT_RESOURCES" -> << "INSUFFICIENT RESOURCES" >>
      [] q.errorType = "EXTERNAL"               -> << "EXTERNAL ERROR" >>
      [] OTHER                                  -> << q.state >>

getHumanReadableState(q) ==
    IF q.state = "RUNNING" /\ q.scheduled /\ q.totalDrivers > 0 /\ q.runningDrivers >= 0
    THEN (IF q.fullyBlocked THEN << "BLOCKED" >> \o q.blockedReasons ELSE << "RUNNING" >>)
         \o (IF q.memoryPool = "reserved" THEN << "RESERVED" >> ELSE << >>)
    ELSE IF q.state = "FAILED" THEN FailureWords(q) ELSE << q.state >>

\* Math.round of a number of tenths.
RoundTenths(n) == (n + 5) \div 10

getProgressBarPercentage(q) ==
    IF q.progressPercentage = 0 \/ q.state # "RUNNING" THEN 100
    ELSE RoundTenths(q.progressPercentage)

getProgressBarTitle(q) ==
    [words   |-> getHumanReadableState(q),
     percent |-> IF q.progressPercentage # 0 /\ q.state = "RUNNING"
                 THEN getProgressBarPercentage(q) ELSE -1]

isQueryEnded(q) == q.state \in {"FINISHED", "FAILED", "CANCELED"}

-----------------------------------------------------------------------------
(* QueryHeader: the bar with its two buttons, and the tabs of one query.   *)

renderProgressBar(q) ==
    [width   |-> getProgressBarPercentage(q),
     color   |-> getQueryStateColor(q),
     title   |-> getProgressBarTitle(q),
     buttons |-> IF isQueryEnded(q) THEN {} ELSE {"Preempt", "Kill"}]

QueryTabs == {"query.html", "plan.html", "stage.html", "timeline.html"}

\* The tab of the page being shown is disabled.
renderTab(path, page) == [href |-> path, disabled |-> path = page]

renderQueryHeader(q, page) ==
    [bar |-> renderProgressBar(q), tabs |-> {renderTab(t, page) : t \in QueryTabs}]
=============================================================================
