-------------------------- MODULE WorkerThreadList --------------------------
(***************************************************************************)
(* The thread snapshots of a worker (WorkerThreadList.jsx).  A thread is   *)
(* its id, its state, the group its name gives it (the name up to the      *)
(* first dash and number) and whether the name is that of a split of a     *)
(* query.  Snapshots are taken on demand; nothing stops the user from      *)
(* asking again while a request is under way.                              *)
(***************************************************************************)
EXTENDS Integers, Sequences, FiniteSetsExt

CONSTANTS ALL_THREADS, ALL_THREAD_STATE,
          StatesOfThreads,  \* THREAD_STATES without ALL
          Snapshots,        \* what the worker may answer: sequences of threads
          MaxRequests, MaxFailures,  \* bounds
          Null

VARIABLES threads,          \* the threads of each group, or Null
          initialized, selectedGroup, selectedThreadState,
          page,             \* "shown", or "blank" once drawing it has failed
          inFlight, requests, failures

vars == << threads, initialized, selectedGroup, selectedThreadState, page, inFlight, requests, failures >>

Init ==
    /\ threads = Null /\ initialized = FALSE
    /\ selectedGroup = ALL_THREADS /\ selectedThreadState = ALL_THREAD_STATE
    /\ page = "shown"
    /\ inFlight = 0 /\ requests = 0 /\ failures = 0

\* The list of the query threads is never made, and adding to it fails.
ProcessThrows(snapshot) == \E i \in DOMAIN snapshot : snapshot[i].ofQuery

threadGroup(thread) == thread.group

\* The threads by group, and all of them.
processThreads(snapshot) ==
    LET groups == {threadGroup(snapshot[i]) : i \in DOMAIN snapshot}
    IN  [ g \in groups \cup {ALL_THREADS} |->
            IF g = ALL_THREADS THEN snapshot ELSE SelectSeq(snapshot, LAMBDA t : threadGroup(t) = g) ]

filterThreads(list, st) == SelectSeq(list, LAMBDA t : t.state = st \/ st = ALL_THREAD_STATE)

\* Drawing the page fails on a selected group that the snapshot does not have.
Draw(list, group) == IF page = "shown" /\ (list = Null \/ group \in DOMAIN list) THEN "shown" ELSE "blank"

\* An answer: the page is as it was if the threads cannot be processed.
ReceiveThreads(snapshot) ==
    /\ inFlight > 0 /\ page = "shown"
    /\ inFlight' = inFlight - 1
    /\ IF ProcessThrows(snapshot)
       THEN UNCHANGED << threads, initialized, page >>
       ELSE /\ threads' = processThreads(snapshot)
            /\ initialized' = TRUE
            /\ page' = Draw(threads', selectedGroup)
    /\ UNCHANGED << selectedGroup, selectedThreadState, requests, failures >>

\* No answer.
ReceiveError ==
    /\ inFlight > 0 /\ page = "shown"
    /\ failures < MaxFailures /\ failures' = failures + 1
    /\ inFlight' = inFlight - 1
    /\ initialized' = TRUE
    /\ UNCHANGED << threads, selectedGroup, selectedThreadState, page, requests >>

\* The user asks for a snapshot with the button "Capture Snapshot" of a page that has
\* none, or the button "New Snapshot" of one that has.
HasButton == page = "shown" /\ (threads # Null \/ ~initialized)

handleNewSnapshotClick ==
    /\ HasButton
    /\ requests < MaxRequests /\ requests' = requests + 1
    /\ initialized' = FALSE
    /\ inFlight' = inFlight + 1
    /\ UNCHANGED << threads, selectedGroup, selectedThreadState, page, failures >>

\* The user chooses from the two menus.
handleGroupClick(group) ==
    /\ page = "shown" /\ threads # Null
    /\ selectedGroup' = group
    /\ UNCHANGED << threads, initialized, selectedThreadState, page, inFlight, requests, failures >>

handleThreadStateClick(st) ==
    /\ page = "shown" /\ threads # Null
    /\ selectedThreadState' = st
    /\ UNCHANGED << threads, initialized, selectedGroup, page, inFlight, requests, failures >>

Next ==
    \/ \E snapshot \in Snapshots : ReceiveThreads(snapshot)
    \/ ReceiveError
    \/ handleNewSnapshotClick
    \/ threads # Null /\ \E group \in DOMAIN threads : handleGroupClick(group)
    \/ \E st \in StatesOfThreads \cup {ALL_THREAD_STATE} : handleThreadStateClick(st)

Spec == Init /\ [][Next]_vars

-----------------------------------------------------------------------------
(* What the page shows. *)

\* The entries of the menus, with the number of threads each would show.
renderGroupListItem(group) == Len(filterThreads(threads[group], selectedThreadState))
renderThreadStateListItem(st) == Len(filterThreads(threads[selectedGroup], st))

renderThread(thread) == [id |-> thread.id, state |-> thread.state]

\* The message shown when there is no thread to show.
EmptyMessage ==
    IF selectedThreadState = ALL_THREAD_STATE THEN "No threads in group"
    ELSE IF selectedGroup = ALL_THREADS THEN "No threads with state"
    ELSE "No threads in group with state"

Screen ==
    CASE page = "blank" -> [page |-> "blank"]
      [] page = "shown" /\ threads = Null ->
             [page |-> IF initialized THEN "Thread snapshot could not be loaded" ELSE "Capture Snapshot"]
      [] OTHER ->
             LET shown == filterThreads(threads[selectedGroup], selectedThreadState)
             IN  [ page |-> "snapshot",
                   groups |-> [g \in DOMAIN threads |-> renderGroupListItem(g)],
                   states |-> [st \in StatesOfThreads \cup {ALL_THREAD_STATE} |-> renderThreadStateListItem(st)],
                   message |-> IF shown = << >> THEN EmptyMessage ELSE "",
                   list |-> [i \in DOMAIN shown |-> renderThread(shown[i])] ]

-----------------------------------------------------------------------------
(* Properties. *)

\* The menus agree with each other and with the list: every thread is in one group and
\* in one state, so that the entries but that for all add up to it, and the list is as
\* long as the selected entries say.
CountsAddUp ==
    Screen.page = "snapshot" =>
        /\ Screen.groups[ALL_THREADS] = MapThenSumSet(LAMBDA g : Screen.groups[g], DOMAIN threads \ {ALL_THREADS})
        /\ Screen.states[ALL_THREAD_STATE] = MapThenSumSet(LAMBDA st : Screen.states[st], StatesOfThreads)
        /\ Screen.groups[selectedGroup] = Len(Screen.list)
        /\ Screen.states[selectedThreadState] = Len(Screen.list)

\* The user can always ask for another snapshot of a page that is drawn, except when the
\* first one could not be had.
StuckOnlyWithoutAnswer == page = "shown" /\ inFlight = 0 /\ ~HasButton => threads = Null /\ failures > 0
=============================================================================
