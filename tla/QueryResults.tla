---------------------------- MODULE QueryResults ----------------------------
(***************************************************************************)
(* How the coordinator hands out the rows of a query (Query.java).  A      *)
(* request names a token; its answer is made once, from the pages that     *)
(* have arrived in the exchange client, and kept until the next one is     *)
(* made, so that a request repeated after a lost answer gets the same      *)
(* rows.  Rows are numbered.                                               *)
(***************************************************************************)
EXTENDS Naturals

CONSTANTS Total,       \* the number of rows of a query with an output stage
          MaxEmpty,    \* bound: answers made before there are rows or the end
          Null

\* The rows after the one numbered from, up to the one numbered to.
Intervals == [from : Nat, to : Nat]

\* An answer: the token of the next one, whether it has columns, its rows, an error.
Results == [next : Nat \cup {Null}, columns : BOOLEAN, data : Intervals, error : BOOLEAN]

ASSUME ResultsAssumption ==
    /\ Total \in Nat /\ MaxEmpty \in Nat
    /\ Null \notin Nat /\ Null \notin Results

VARIABLES hasOutput,   \* the query has an output stage; if not, its only row is "true"
          state,       \* "QUEUED", "RUNNING", "FINISHED" or "FAILED"
          final,       \* its information is final
          columns,     \* the columns are known
          arrived, ended,  \* rows in or through the exchange client; no more will come
          polled,      \* rows taken from it
          closed,      \* it is closed
          resultId, lastResult, lastResultPath

exchange == << arrived, ended >>
serverVars == << hasOutput, state, final, columns, exchange, polled, closed, resultId, lastResult, lastResultPath >>

ServerInit ==
    /\ hasOutput \in BOOLEAN
    /\ state = "QUEUED" /\ final = FALSE /\ columns = FALSE
    /\ arrived = 0 /\ ended = FALSE /\ polled = 0 /\ closed = FALSE
    /\ resultId = 0 /\ lastResult = Null /\ lastResultPath = Null

\* The rows a reader gets.
RowCount == IF hasOutput THEN Total ELSE 1

isDone == state \in {"FINISHED", "FAILED"}

\* The query advances: it is submitted by the first request for its results and starts,
\* with its columns if it has output; rows arrive and the stream of them ends; the query
\* finishes, with its final information later; or it fails.
Start ==
    /\ state = "QUEUED" /\ lastResult # Null
    /\ state' = "RUNNING" /\ columns' = hasOutput
    /\ UNCHANGED << hasOutput, final, exchange, polled, closed, resultId, lastResult, lastResultPath >>

Arrive ==
    /\ state = "RUNNING" /\ hasOutput /\ arrived < Total
    /\ arrived' = arrived + 1
    /\ UNCHANGED << hasOutput, state, final, columns, ended, polled, closed, resultId, lastResult, lastResultPath >>

End ==
    /\ state = "RUNNING" /\ hasOutput /\ arrived = Total /\ ~ended
    /\ ended' = TRUE
    /\ UNCHANGED << hasOutput, state, final, columns, arrived, polled, closed, resultId, lastResult, lastResultPath >>

Finish ==
    /\ state = "RUNNING" /\ (hasOutput => ended)
    /\ state' = "FINISHED" /\ final' = ~hasOutput
    /\ UNCHANGED << hasOutput, columns, exchange, polled, closed, resultId, lastResult, lastResultPath >>

Finalize ==
    /\ isDone /\ ~final
    /\ final' = TRUE
    /\ UNCHANGED << hasOutput, state, columns, exchange, polled, closed, resultId, lastResult, lastResultPath >>

Fail ==
    /\ state \in {"QUEUED", "RUNNING"} /\ lastResult # Null
    /\ state' = "FAILED" /\ final' = ~hasOutput
    /\ UNCHANGED << hasOutput, columns, exchange, polled, closed, resultId, lastResult, lastResultPath >>

ServerStep == Start \/ Arrive \/ End \/ Finish \/ Finalize \/ Fail

\* The rows polled for an answer: pages that have arrived, as many as its size allows,
\* and at least one if there is one.  Polling past the last page closes the exchange client.
CanPoll(rows, closes) ==
    IF closed \/ state = "QUEUED"
    THEN rows = 0 /\ ~closes
    ELSE /\ rows <= arrived - polled
         /\ rows = 0 => arrived = polled /\ closes = ended
         /\ closes => ended /\ polled + rows = arrived

\* mutant: answers are made anew
NothingCached(token) == FALSE

\* The last answer is asked for once more.
IsCached(token) == lastResultPath # Null /\ token = lastResultPath

\* A request for the answer after the last one.
IsNext(token) == IF lastResult = Null THEN token = 0 ELSE lastResult.next # Null /\ token = lastResult.next

\* Whether there is a next answer.
HasNext(closedNow) == (~final /\ state # "FAILED") \/ ~closedNow

\* mutant: such a query has neither a row nor columns
FakeRowNot == FALSE

\* The row "true" of a finished query without output.
FakeRow == state = "FINISHED" /\ ~hasOutput

\* The answer made from the given rows.
nextResult(rows, closes) ==
    LET closedNow == closed \/ closes \/ state = "FAILED" \/ (isDone /\ ~hasOutput)
    IN  [ result |-> [ next |-> IF HasNext(closedNow) THEN resultId + 1 ELSE Null,
                       columns |-> columns \/ FakeRow,
                       data |-> IF FakeRow THEN [from |-> 0, to |-> 1] ELSE [from |-> polled, to |-> polled + rows],
                       error |-> state = "FAILED" ],
          closed |-> closedNow, columns |-> columns \/ FakeRow ]

\* getNextResult, for a request that is not refused: the answer is in the primed lastResult.
getNextResult(token, rows, closes) ==
    IF IsCached(token)
    THEN UNCHANGED serverVars
    ELSE LET made == nextResult(rows, closes)
         IN  /\ IsNext(token) /\ CanPoll(rows, closes)
             /\ rows = 0 /\ made.result.next # Null => resultId < polled + MaxEmpty
             /\ polled' = polled + rows
             /\ closed' = made.closed /\ columns' = made.columns
             /\ resultId' = IF made.result.next = Null THEN resultId ELSE made.result.next
             /\ lastResultPath' = IF lastResult = Null THEN Null ELSE lastResult.next
             /\ lastResult' = made.result
             /\ UNCHANGED << hasOutput, state, final, exchange >>

\* A request that is refused: GONE or NOT FOUND.
Refused(token) == ~IsCached(token) /\ ~IsNext(token)
=============================================================================
