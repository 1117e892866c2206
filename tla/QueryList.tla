----------------------------- MODULE QueryList -----------------------------
(***************************************************************************)
(* The list of queries on the UI's front page (QueryList.jsx): a poll of   *)
(* /v1/query every second, a toolbar of filters, sort and search, and a    *)
(* search field with a 200 ms debounce.  Two timers, one request and the   *)
(* user's clicks interleave; each callback runs to its end, setState       *)
(* included (outside a batch React applies it at once).                    *)
(*                                                                         *)
(* A query is an id and a profile: the profile stands for the fields of    *)
(* its BasicQueryInfo that change (Info gives them), the id for those that *)
(* do not.  The list the server answers with is a partial function from    *)
(* ids to profiles: its order only decides ties of the sort, which is not  *)
(* stable in every browser, so ties fall either way.                       *)
(*                                                                         *)
(* Time: age is how long ago, in seconds, the list was last reordered, cut *)
(* off at the longest interval.  It is read only when an answer arrives.   *)
(***************************************************************************)
EXTENDS QueryDisplay, SequencesExt

CONSTANTS QueryId,
          Profile,         \* what a query's changing fields can be
          Info,            \* their values
          Successor,       \* what a profile can become from one answer to the next
          CreateTime,      \* of each query
          SearchTerm,      \* what the user may type; "" is the empty field
          TextHits,        \* ids whose id, text, user, source or resource group has it
          LabelHits,       \* words of the human readable state that have it
          MaxQueriesItems, \* the Show menu; 0 is "All queries"
          ReorderItems,    \* the Reorder Interval menu, in seconds; 0 is "Off"
          SortItems,       \* the Sort menu
          FilterButtons,   \* the state filters the user touches
          ErrorTypeItems,  \* the error type filters the user touches
          InitialMaxQueries, InitialReorderInterval,
          MaxElapsed,      \* bound: seconds between two answers
          MaxFailures      \* bound: failed requests

VARIABLES allQueries, displayedQueries,
          reorderInterval, sortType, sortOrder,
          stateFilters, errorTypeFilters, searchString, maxQueries,
          age, initialized,
          timer,           \* timeoutId is armed
          searchTimer,     \* searchTimeoutId is armed
          inFlight,        \* requests sent and not yet answered
          failures

menu == << reorderInterval, sortType, sortOrder, stateFilters, errorTypeFilters, maxQueries >>
vars == << allQueries, displayedQueries, menu, searchString, age, initialized,
           timer, searchTimer, inFlight, failures >>

-----------------------------------------------------------------------------
(* Filters, sorting, the limit. *)

\* The queries of an answer, each as the object the page keeps.
Queries(list) == {[id |-> i, profile |-> list[i]] : i \in DOMAIN list}

FILTER_TYPE(f, q) ==
    CASE f = "RUNNING"  -> Info[q.profile].state \notin {"QUEUED", "FINISHED", "FAILED"}
      [] f = "QUEUED"   -> Info[q.profile].state = "QUEUED"
      [] f = "FINISHED" -> Info[q.profile].state = "FINISHED"

ERROR_TYPE(e, q) == Info[q.profile].state = "FAILED" /\ Info[q.profile].errorType = e

SORT_TYPE(t, q) ==
    IF t = "CREATED" THEN CreateTime[q.id] ELSE Info[q.profile].stats[t]

Matches(q, term) ==
    \/ term = ""
    \/ q.id \in TextHits[term]
    \/ \E w \in ToSet(getHumanReadableState(Info[q.profile])) : w \in LabelHits[term]

filterQueries(qs, states, errors, term) ==
    {q \in qs : /\ \/ \E f \in states : FILTER_TYPE(f, q)
                   \/ \E e \in errors : ERROR_TYPE(e, q)
                /\ Matches(q, term)}

\* The comparator of the sort is not positive on (q, r).
NotAfter(q, r, type, order) ==
    IF order = "ASCENDING" THEN SORT_TYPE(type, q) <= SORT_TYPE(type, r)
                           ELSE SORT_TYPE(type, q) >= SORT_TYPE(type, r)

Limit(s, max) == IF max # 0 /\ Len(s) > max THEN SubSeq(s, 1, max) ELSE s

\* Every order the browser's sort may leave the queries in.
Sorted(qs, type, order) ==
    {s \in SetToSeqs(qs) : \A i, j \in DOMAIN s : i < j => NotAfter(s[i], s[j], type, order)}

sortAndLimitQueries(qs, type, order, max) == {Limit(s, max) : s \in Sorted(qs, type, order)}

\* What the toolbar asks for, from the list of the last answer.
Selected == filterQueries(Queries(allQueries), stateFilters, errorTypeFilters, searchString)

-----------------------------------------------------------------------------

Init ==
    /\ allQueries = << >>
    /\ displayedQueries = << >>
    /\ reorderInterval = InitialReorderInterval
    /\ sortType = "CREATED" /\ sortOrder = "DESCENDING"
    /\ stateFilters = {"RUNNING", "QUEUED"}
    /\ errorTypeFilters = ErrorTypes \ {"USER_ERROR"}
    /\ searchString = ""
    /\ maxQueries = InitialMaxQueries
    /\ age = 0
    /\ initialized = FALSE
    /\ timer = FALSE /\ searchTimer = FALSE
    /\ inFlight = 1                          \* componentDidMount
    /\ failures = 0

\* The timer of resetTimer fires.  A search that waits for its debounce is lost.
refreshLoop ==
    /\ timer
    /\ timer' = FALSE
    /\ searchTimer' = FALSE
    /\ inFlight' = inFlight + 1
    /\ UNCHANGED << allQueries, displayedQueries, menu, searchString, age, initialized, failures >>

\* The lists the server may answer with after the one the page has: queries
\* appear, move on and are forgotten.
Answers ==
    {a \in UNION {[D -> Profile] : D \in SUBSET QueryId} :
        \A i \in DOMAIN a \cap DOMAIN allQueries : a[i] \in Successor[allQueries[i]]}

\* The queries already displayed, in their order, as the answer has them.
Updated(answer) ==
    LET kept == SelectSeq(displayedQueries, LAMBDA q : q.id \in DOMAIN answer)
    IN  [i \in DOMAIN kept |-> [id |-> kept[i].id, profile |-> answer[kept[i].id]]]

NewQueries(answer) ==
    filterQueries({q \in Queries(answer) : \A i \in DOMAIN displayedQueries : displayedQueries[i].id # q.id},
                  stateFilters, errorTypeFilters, searchString)

ReorderDue(elapsed) == reorderInterval # 0 /\ elapsed >= reorderInterval

Reordered(answer) ==
    Sorted(filterQueries(ToSet(Updated(answer)), stateFilters, errorTypeFilters, searchString)
           \cup NewQueries(answer), sortType, sortOrder)

\* mutant: new queries go before the displayed ones
PrependNew(answer) ==
    {s \o Updated(answer) : s \in Sorted(NewQueries(answer), sortType, sortOrder)}

AppendNew(answer) ==
    {Updated(answer) \o s : s \in Sorted(NewQueries(answer), sortType, sortOrder)}

ResetTimer == timer' = TRUE      \* state.query and state.ended are never set here

\* The success callback of refreshLoop.
ReceiveQueries(answer, elapsed) ==
    /\ inFlight > 0
    /\ inFlight' = inFlight - 1
    /\ \E s \in (IF ReorderDue(age + elapsed) THEN Reordered(answer) ELSE AppendNew(answer)) :
          displayedQueries' = Limit(s, maxQueries)
    /\ age' = IF ReorderDue(age + elapsed) THEN 0 ELSE Min({age + elapsed, Max(ReorderItems)})
    /\ allQueries' = answer
    /\ initialized' = TRUE
    /\ ResetTimer
    /\ UNCHANGED << menu, searchString, searchTimer, failures >>

ReceiveError(elapsed) ==
    /\ inFlight > 0
    /\ failures < MaxFailures
    /\ failures' = failures + 1
    /\ inFlight' = inFlight - 1
    /\ age' = Min({age + elapsed, Max(ReorderItems)})
    /\ initialized' = TRUE
    /\ ResetTimer
    /\ UNCHANGED << allQueries, displayedQueries, menu, searchString, searchTimer >>

handleSearchStringChange(term) ==
    /\ term # searchString
    /\ searchString' = term
    /\ searchTimer' = TRUE
    /\ UNCHANGED << allQueries, displayedQueries, menu, age, initialized, timer, inFlight, failures >>

executeSearch ==
    /\ searchTimer
    /\ searchTimer' = FALSE
    /\ displayedQueries' \in sortAndLimitQueries(Selected, sortType, sortOrder, maxQueries)
    /\ UNCHANGED << allQueries, menu, searchString, age, initialized, timer, inFlight, failures >>

\* The part of the page no click on the toolbar touches.
NoClick == << allQueries, searchString, age, initialized, timer, searchTimer, inFlight, failures >>

handleMaxQueriesClick(max) ==
    /\ maxQueries' = max
    /\ displayedQueries' \in sortAndLimitQueries(Selected, sortType, sortOrder, max)
    /\ UNCHANGED << NoClick, reorderInterval, sortType, sortOrder, stateFilters, errorTypeFilters >>

handleReorderClick(interval) ==
    /\ reorderInterval # interval
    /\ reorderInterval' = interval
    /\ UNCHANGED << NoClick, displayedQueries, sortType, sortOrder, stateFilters, errorTypeFilters, maxQueries >>

handleSortClick(type) ==
    /\ sortType' = type
    /\ sortOrder' = IF sortType = type /\ sortOrder = "DESCENDING" THEN "ASCENDING" ELSE "DESCENDING"
    /\ displayedQueries' \in sortAndLimitQueries(Selected, type, sortOrder', maxQueries)
    /\ UNCHANGED << NoClick, reorderInterval, stateFilters, errorTypeFilters, maxQueries >>

Toggle(set, e) == IF e \in set THEN set \ {e} ELSE set \cup {e}

\* The two filter handlers call sortAndLimitQueries without maxQueries: no limit.
handleStateFilterClick(f) ==
    /\ stateFilters' = Toggle(stateFilters, f)
    /\ displayedQueries' \in sortAndLimitQueries(
          filterQueries(Queries(allQueries), stateFilters', errorTypeFilters, searchString), sortType, sortOrder, 0)
    /\ UNCHANGED << NoClick, reorderInterval, sortType, sortOrder, errorTypeFilters, maxQueries >>

handleErrorTypeFilterClick(e) ==
    /\ errorTypeFilters' = Toggle(errorTypeFilters, e)
    /\ displayedQueries' \in sortAndLimitQueries(
          filterQueries(Queries(allQueries), stateFilters, errorTypeFilters', searchString), sortType, sortOrder, 0)
    /\ UNCHANGED << NoClick, reorderInterval, sortType, sortOrder, stateFilters, maxQueries >>

\* One second passes before every request but the first.
Receive ==
    \E elapsed \in (IF initialized THEN 1 ELSE 0)..MaxElapsed :
        \/ \E answer \in Answers : ReceiveQueries(answer, elapsed)
        \/ ReceiveError(elapsed)

Click ==
    \/ \E max \in MaxQueriesItems : handleMaxQueriesClick(max)
    \/ \E interval \in ReorderItems : handleReorderClick(interval)
    \/ \E type \in SortItems : handleSortClick(type)
    \/ \E f \in FilterButtons : handleStateFilterClick(f)
    \/ \E e \in ErrorTypeItems : handleErrorTypeFilterClick(e)

Next ==
    \/ refreshLoop
    \/ Receive
    \/ \E term \in SearchTerm : handleSearchStringChange(term)
    \/ executeSearch
    \/ Click

Spec == Init /\ [][Next]_vars

-----------------------------------------------------------------------------
(* What is on the screen. *)

EmptyLabel ==
    IF displayedQueries # << >> THEN ""
    ELSE IF ~initialized THEN "Loading..."
    ELSE IF allQueries = << >> THEN "No queries" ELSE "No queries matched filters"

\* One row: a query that has ended shows no running and no queued split.
QueryListItem(q) ==
    LET info == Info[q.profile]
        over == info.state \in {"FINISHED", "FAILED"}
    IN  [id        |-> q.id,
         completed |-> info.completedDrivers,
         running   |-> IF over THEN 0 ELSE info.runningDrivers,
         queued    |-> IF over THEN 0 ELSE info.queuedDrivers,
         color     |-> getQueryStateColor(info),
         width     |-> getProgressBarPercentage(info),
         title     |-> getProgressBarTitle(info)]

Rows == [i \in DOMAIN displayedQueries |-> QueryListItem(displayedQueries[i])]

\* The toolbar: which entry of each menu and which buttons are highlighted.
Toolbar ==
    [show    |-> {m \in MaxQueriesItems : m = maxQueries},
     reorder |-> {r \in ReorderItems : r = reorderInterval},
     sort    |-> {[type |-> t, arrow |-> sortOrder] : t \in SortItems \cap {sortType}},
     states  |-> {f \in {"RUNNING", "QUEUED", "FINISHED"} : f \in stateFilters},
     errors  |-> {e \in ErrorTypes : e \in errorTypeFilters},
     search  |-> searchString]

\* The whole of render: the toolbar, and the rows or what is said instead.
Screen ==
    [toolbar |-> Toolbar,
     rows    |-> Rows,
     label   |-> EmptyLabel]

-----------------------------------------------------------------------------
(* Properties. *)

\* Whatever order answers, searches and clicks come in, the list shows each query
\* once (its queryId is the React key) and as the last answer has it: neither a
\* query the server forgot nor an older state of one.
DisplayedAreCurrent ==
    /\ \A i, j \in DOMAIN displayedQueries : displayedQueries[i].id = displayedQueries[j].id => i = j
    /\ ToSet(displayedQueries) \subseteq Queries(allQueries)

\* A row of a query that has ended says so everywhere: full bar without a
\* percentage, no live splits, and "USER CANCELED" exactly when the colour does; the
\* pages about the query have the same bar, with buttons to end it if it goes on.  The
\* list without rows says why, and the menus show the settings in force.
RowsAgree ==
    /\ Screen.rows = << >> <=> Screen.label # ""
    /\ Screen.toolbar.show = {maxQueries} /\ Screen.toolbar.reorder = {reorderInterval}
    /\ \A i \in DOMAIN Screen.rows :
        LET r == Screen.rows[i]
            header == renderQueryHeader(Info[displayedQueries[i].profile], "query.html")
        IN  /\ [header.bar EXCEPT !.buttons = {}] = [width |-> r.width, color |-> r.color, title |-> r.title, buttons |-> {}]
            /\ header.bar.buttons = {} <=> isQueryEnded(Info[displayedQueries[i].profile])
            /\ Cardinality({t \in header.tabs : t.disabled}) = 1
            /\ isQueryEnded(Info[displayedQueries[i].profile])
                 => r.width = 100 /\ r.title.percent = -1 /\ r.running = 0 /\ r.queued = 0
            /\ r.color = "CANCELED" <=> r.title.words = << "USER CANCELED" >>
            /\ r.title.percent # -1 => r.title.percent = r.width

\* The step is a successful answer.
Received == inFlight' < inFlight /\ failures' = failures

\* A refresh hides no query that the toolbar asks for unless the list is full, so
\* what is said in place of rows ("No queries matched filters", 556) is then true.
RefreshShowsWhatFits ==
    Received =>
        LET selected == Selected'
        IN  /\ \/ selected \subseteq ToSet(displayedQueries')
               \/ maxQueries # 0 /\ Len(displayedQueries') = maxQueries
            /\ EmptyLabel' = "No queries" => allQueries' = << >>
            /\ EmptyLabel' = "No queries matched filters" => selected = {}

\* A refresh that is due for a reorder leaves exactly the best queries under the
\* filters, best first: every one it leaves out sorts no better than those shown.
ReorderShowsTheBest ==
    Received /\ age' = 0 =>
        LET selected == Selected'
        IN  /\ ToSet(displayedQueries') \subseteq selected
            /\ \A i \in DOMAIN displayedQueries' :
                  \A q \in selected \ {displayedQueries'[j] : j \in 1..i} :
                      NotAfter(displayedQueries'[i], q, sortType, sortOrder)

\* Between two reorders the list does not jump: the queries on the screen keep
\* their order and new ones come after them.
StableBetweenReorders ==
    Received /\ age' # 0 =>
        \A i, j \in DOMAIN displayedQueries' :
            LET Old(k) == {m \in DOMAIN displayedQueries : displayedQueries[m].id = displayedQueries'[k].id}
            IN  i < j => \/ Old(j) = {}
                         \/ \E m \in Old(i), n \in Old(j) : m < n

\* As long as reordering is on, filters and search terms take effect: again and
\* again every query on the screen passes all of them, though a refresh may cancel
\* the debounce of a search and requests may fail.
FiltersHold == ToSet(displayedQueries) \subseteq Selected
=============================================================================
