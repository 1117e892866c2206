--------------------------- MODULE StatementClient --------------------------
(***************************************************************************)
(* The client of the Tableau connector (presto-client.js) and the two ways *)
(* presto-connector.html uses it: to feed a query to Tableau, headers      *)
(* first and then the rows on demand, and to fill the menus of catalogs    *)
(* and schemas.  Requests are synchronous and may fail; one that failed    *)
(* may still be served, or be lost.                                        *)
(***************************************************************************)
EXTENDS QueryResults, Sequences

CONSTANTS Uses,        \* what the client may be used for: "tableau", "menu"
          MaxFailures  \* bound

ASSUME UsesAssumption == Uses \subseteq {"tableau", "menu"} /\ MaxFailures \in Nat

VARIABLES use,
          pc,          \* "post", "headers", "data", "menu": in a request made there;
                       \* "idle": Tableau's turn; "spin", "hung", "aborted", "over": no more
          request,     \* the token of the request under way
          currentResults, valid,
          headersPushed, getTableDataCalled, buffer, errorMessage,
          delivered,   \* the rows Tableau or the menu has been given
          orphans,     \* requests that failed for the client and may yet be served
          failures

connector == << headersPushed, getTableDataCalled, buffer, errorMessage >>
clientVars == << use, pc, request, currentResults, valid, connector, delivered, orphans, failures >>
vars == << serverVars, clientVars >>

Init ==
    /\ ServerInit
    /\ use \in Uses
    /\ pc = "post" /\ request = 0
    /\ currentResults = Null /\ valid = TRUE
    /\ headersPushed = FALSE /\ getTableDataCalled = FALSE /\ buffer = << >> /\ errorMessage = FALSE
    /\ delivered = << >> /\ orphans = {} /\ failures = 0

Rows(data) == [i \in 1..(data.to - data.from) |-> data.from + i]
HasData(response) == response.data.from < response.data.to

\* One step of advance: the next request, or the end.  next is the token of the results
\* at hand, and after the place to go on at when there is none.
advance(next, where, after) ==
    IF next = Null
    THEN valid' = FALSE /\ pc' = after /\ UNCHANGED request
    ELSE pc' = where /\ request' = next /\ UNCHANGED valid

\* mutant: the rows that come with the headers are dropped
pushDataUnlessCalled(data) ==
    IF use = "menu" \/ getTableDataCalled
    THEN delivered' = delivered \o Rows(data) /\ UNCHANGED buffer
    ELSE UNCHANGED << delivered, buffer >>

\* The rows of an answer go to the menu, to Tableau once it has asked for rows, and
\* into the buffer before.
pushDataToTableau(data) ==
    IF use = "menu" \/ getTableDataCalled
    THEN delivered' = delivered \o Rows(data) /\ UNCHANGED buffer
    ELSE buffer' = Append(buffer, data) /\ UNCHANGED delivered

responseHandler(response) ==
    /\ errorMessage' = (errorMessage \/ response.error)
    /\ headersPushed' = (headersPushed \/ response.columns)
    /\ IF HasData(response) THEN pushDataToTableau(response.data) ELSE UNCHANGED << delivered, buffer >>
    /\ UNCHANGED getTableDataCalled

\* After an answer or a failure, the loops of getColumnHeaders, getTableData and the
\* menus; returned: advance returns, as it does on rows and errors.
continue(returned, next) ==
    CASE use = "menu" -> advance(next, "menu", "over")
      [] use = "tableau" /\ pc = "data" ->
             IF returned THEN pc' = (IF delivered' # delivered THEN "idle" ELSE "hung") /\ UNCHANGED << request, valid >>
             ELSE advance(next, "data", "over")
      [] OTHER ->
             IF returned /\ errorMessage' THEN pc' = "aborted" /\ UNCHANGED << request, valid >>
             ELSE IF returned /\ headersPushed' THEN pc' = "idle" /\ UNCHANGED << request, valid >>
             ELSE advance(next, "headers", IF errorMessage' THEN "aborted" ELSE IF headersPushed' THEN "idle" ELSE "spin")

\* A request is served and the answer arrives.
Receive(rows, closes) ==
    /\ pc \in {"post", "headers", "data", "menu"}
    /\ getNextResult(request, rows, closes)
    /\ currentResults' = lastResult'
    /\ responseHandler(lastResult')
    /\ continue(pc = "post" \/ HasData(lastResult') \/ lastResult'.error, lastResult'.next)
    /\ UNCHANGED << use, orphans, failures >>

\* A request fails: it may have reached the server.
ReceiveError ==
    /\ pc \in {"post", "headers", "data", "menu"}
    /\ failures < MaxFailures /\ failures' = failures + 1
    /\ orphans' = IF pc = "post" THEN orphans ELSE orphans \cup {request}
    /\ errorMessage' = TRUE
    /\ UNCHANGED << serverVars, use, currentResults, headersPushed, getTableDataCalled, buffer, delivered >>
    /\ continue(TRUE, IF currentResults = Null THEN Null ELSE currentResults.next)

\* A request that failed for the client is served nevertheless, refused, or lost.
ServeOrphan(token, rows, closes) ==
    /\ token \in orphans
    /\ orphans' = orphans \ {token}
    /\ getNextResult(token, rows, closes)
    /\ UNCHANGED << use, pc, request, currentResults, valid, connector, delivered, failures >>

LoseOrphan(token) ==
    /\ token \in orphans
    /\ orphans' = orphans \ {token}
    /\ UNCHANGED << serverVars, use, pc, request, currentResults, valid, connector, delivered, failures >>

\* Tableau asks for rows: what is in the buffer, or the next results.
getTableData ==
    /\ pc = "idle" /\ use = "tableau"
    /\ getTableDataCalled' = TRUE
    /\ IF buffer # << >>
       THEN /\ delivered' = delivered \o Rows(Head(buffer))
            /\ buffer' = Tail(buffer)
            /\ UNCHANGED << pc, request, valid >>
       ELSE /\ advance(currentResults.next, "data", "over")
            /\ UNCHANGED << delivered, buffer >>
    /\ UNCHANGED << serverVars, use, currentResults, headersPushed, errorMessage, orphans, failures >>

Step == \E rows \in 0..Total, closes \in BOOLEAN : Receive(rows, closes)

Next ==
    \/ ServerStep /\ UNCHANGED clientVars
    \/ Step
    \/ ReceiveError
    \/ \E token \in orphans, rows \in 0..Total, closes \in BOOLEAN : ServeOrphan(token, rows, closes)
    \/ \E token \in orphans : LoseOrphan(token)
    \/ getTableData

Spec == Init /\ [][Next]_vars

\* A query that runs makes progress, requests are answered, and Tableau goes on asking.
Progress == Start \/ Arrive \/ End \/ Finish \/ Finalize
LiveSpec ==
    /\ Spec
    /\ WF_vars(Progress /\ UNCHANGED clientVars)
    /\ WF_vars(Step)
    /\ WF_vars(getTableData)

-----------------------------------------------------------------------------
(* Properties. *)

\* The client asks for what the server can answer: the token of the last answer, which is
\* kept, or of the next one.
NeverRefused == pc \in {"post", "headers", "data", "menu"} => ~Refused(request)

\* What Tableau and the menus are given is the stream of the query's rows, also when
\* requests are repeated and the query fails: each row once, none left out, in order.
\* They are told the end of it after the last one; an answer with an error is no end.
Over == pc = "over" /\ currentResults # Null /\ ~currentResults.error
Stream == INSTANCE RowStream WITH total <- RowCount, over <- Over
ImplementsRowStream == Stream!Spec

\* The end is reached, also by a statement without output, whose answers get columns only
\* with the last one: by a menu whatever failed, by Tableau if no request and not the query did.
EndIsReached == <>(pc = "over" \/ (use = "tableau" /\ (failures > 0 \/ state = "FAILED")))
=============================================================================
