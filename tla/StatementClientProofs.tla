----------------------- MODULE StatementClientProofs ------------------------
(***************************************************************************)
(* The coordinator and the client of the Tableau connector together hand   *)
(* out each row once and in order, for results of any size and any number  *)
(* of requests that fail and are served late.                              *)
(***************************************************************************)
EXTENDS StatementClient, SequenceTheorems, TLAPS

\* Every row that reaches Tableau or a menu is the next one.
RowsOnceInOrder == delivered = [i \in 1..Len(delivered) |-> i]

ServerTypes ==
    /\ state \in {"QUEUED", "RUNNING", "FINISHED", "FAILED"}
    /\ hasOutput \in BOOLEAN /\ final \in BOOLEAN /\ columns \in BOOLEAN /\ ended \in BOOLEAN /\ closed \in BOOLEAN
    /\ arrived \in 0..Total /\ polled \in 0..arrived /\ resultId \in Nat
    /\ lastResult \in Results \cup {Null} /\ lastResultPath \in Nat \cup {Null}

\* What an answer says about the answers made: if there is a next one it has the last
\* token and comes after the rows polled; if there is none, it has an error or the last row.
Consistent(result) ==
    /\ result.data.from <= result.data.to /\ result.data.to <= RowCount
    /\ result.next # Null => result.next = resultId /\ result.data.to = polled
    /\ result.next = Null => result.error \/ result.data.to = RowCount
    /\ lastResultPath # Null /\ result.next # Null => lastResultPath < resultId

ServerInv ==
    /\ ServerTypes
    /\ final => isDone
    /\ isDone /\ ~hasOutput => final
    /\ ended => hasOutput /\ arrived = Total
    /\ ~hasOutput => arrived = 0
    /\ closed => state = "FAILED" \/ (isDone /\ ~hasOutput) \/ (ended /\ polled = arrived)
    /\ lastResult = Null => polled = 0 /\ resultId = 0 /\ lastResultPath = Null
    /\ lastResult # Null => Consistent(lastResult)

\* The intervals of b follow one another and lead from row a to row z.
Chain(b, a, z) ==
    IF b = << >> THEN a = z
    ELSE /\ b[1].from = a /\ b[Len(b)].to = z
         /\ \A i \in 1..Len(b) : b[i].from <= b[i].to /\ b[i].to <= z
         /\ \A i \in 1..(Len(b) - 1) : b[i].to = b[i + 1].from

ClientTypes ==
    /\ use \in {"tableau", "menu"}
    /\ pc \in {"post", "headers", "data", "menu", "idle", "spin", "hung", "aborted", "over"}
    /\ request \in Nat /\ currentResults \in Results \cup {Null}
    /\ headersPushed \in BOOLEAN /\ getTableDataCalled \in BOOLEAN /\ errorMessage \in BOOLEAN
    /\ buffer \in Seq(Intervals) /\ delivered \in Seq(Nat) /\ orphans \subseteq Nat

\* The rows the client has been sent.
Position == IF currentResults = Null THEN 0 ELSE currentResults.data.to

\* The client has the last answer, or the one before it: then only the request it is
\* to make again, or an older one, can still be on its way.
InStep ==
    IF currentResults = Null THEN lastResult = Null /\ orphans = {}
    ELSE /\ lastResult # Null
         /\ \/ currentResults = lastResult
            \/ /\ currentResults.next # Null /\ lastResultPath = currentResults.next
               /\ lastResult.data.from = currentResults.data.to
         /\ currentResults.next # Null => \A token \in orphans : token <= currentResults.next

\* Where the client is: its request is for the answer after the one it has, and rows
\* wait in the buffer only until Tableau asks.
Control ==
    /\ pc = "post" => currentResults = Null /\ request = 0
    /\ pc \in {"headers", "data", "menu"} => currentResults # Null /\ currentResults.next # Null /\ request = currentResults.next
    /\ pc = "idle" => currentResults # Null
    /\ pc = "menu" => use = "menu"
    /\ pc \in {"headers", "data", "idle"} => use = "tableau"
    /\ use = "menu" \/ pc = "data" => buffer = << >>
    /\ pc \in {"post", "headers"} => ~getTableDataCalled
    /\ pc = "data" => getTableDataCalled

ClientInv ==
    /\ ClientTypes
    /\ InStep
    /\ Control
    /\ RowsOnceInOrder
    /\ Chain(buffer, Len(delivered), Position)

Inv == ServerInv /\ ClientInv

-----------------------------------------------------------------------------
(* Sequences. *)

\* Rows that come right after the ones delivered continue them.
LEMMA RowsContinue ==
    ASSUME NEW s \in Seq(Nat), s = [i \in 1..Len(s) |-> i],
           NEW d \in Intervals, d.from = Len(s), d.from <= d.to
    PROVE  /\ s \o Rows(d) \in Seq(Nat) /\ Len(s \o Rows(d)) = d.to
           /\ s \o Rows(d) = [i \in 1..d.to |-> i]
<1>1. d.from \in Nat /\ d.to \in Nat /\ d.to - d.from \in Nat
  BY DEF Intervals
<1>2. Rows(d) \in Seq(Nat) /\ Len(Rows(d)) = d.to - d.from /\ \A i \in 1..(d.to - d.from) : Rows(d)[i] = d.from + i
  <2> DEFINE n == d.to - d.from
             r == [i \in 1..n |-> d.from + i]
  <2>1. n \in Nat /\ r \in [1..n -> Nat]
    BY <1>1
  <2>2. r \in Seq(Nat)
    <3> HIDE DEF n, r
    <3> QED
      BY <2>1, SeqDef
  <2>3. Len(r) = n
    <3>1. DOMAIN r = 1..n /\ DOMAIN r = 1..Len(r) /\ Len(r) \in Nat
      BY <2>1, <2>2, LenProperties
    <3> HIDE DEF n, r
    <3> QED
      BY <2>1, <3>1
  <2> QED
    BY <2>2, <2>3, Zenon DEF Rows
<1>3. \A i \in 1..Len(s) : s[i] = i
  OBVIOUS
<1> DEFINE t == s \o Rows(d)
<1>4. /\ t \in Seq(Nat) /\ Len(t) = Len(s) + Len(Rows(d))
      /\ \A i \in 1 .. Len(s) + Len(Rows(d)) : t[i] = IF i <= Len(s) THEN s[i] ELSE Rows(d)[i - Len(s)]
  BY <1>2, ConcatProperties, SMTT(30)
<1> HIDE DEF t
<1>5. Len(t) = d.to /\ \A i \in 1..d.to : t[i] = i
  <2>1. Len(s) \in Nat /\ Len(t) = d.to
    BY <1>1, <1>2, <1>4
  <2>2. ASSUME NEW i \in 1..d.to
        PROVE  t[i] = i
    <3>1. i \in 1..Len(s) + Len(Rows(d)) /\ i \in Int
      BY <1>1, <1>2, <2>1
    <3>2. CASE i <= Len(s)
      BY <1>3, <1>4, <2>1, <3>1, <3>2
    <3>3. CASE ~(i <= Len(s))
      <4>1. PICK j \in 1..(d.to - d.from) : j = i - Len(s)
        <5>1. i \in Int /\ i <= d.to /\ i > d.from /\ d.from = Len(s)
          BY <1>1, <2>1, <3>1, <3>3
        <5>2. i - d.from \in 1..(d.to - d.from)
          BY <1>1, <5>1
        <5> QED
          BY <5>1, <5>2
      <4>2. t[i] = Rows(d)[j]
        BY <1>4, <3>1, <3>3, <4>1
      <4>3. Rows(d)[j] = d.from + j
        BY <1>2
      <4> QED
        BY <1>1, <2>1, <3>1, <4>1, <4>2, <4>3
    <3> QED
      BY <3>2, <3>3
  <2> QED
    BY <2>1, <2>2
<1>6. t = [i \in 1..d.to |-> i]
  <2>1. DOMAIN t = 1..d.to /\ t \in [1..d.to -> Nat]
    BY <1>4, <1>5, LenProperties
  <2> QED
    BY <1>5, <2>1
<1> QED
  BY <1>4, <1>5, <1>6, Zenon DEF t

\* An interval put behind a chain.
LEMMA ChainAppend ==
    ASSUME NEW b \in Seq(Intervals), NEW a \in Nat, NEW z \in Nat, Chain(b, a, z),
           NEW d \in Intervals, d.from = z, d.from <= d.to
    PROVE  Append(b, d) \in Seq(Intervals) /\ Chain(Append(b, d), a, d.to)
<1> DEFINE c == Append(b, d)
<1>1. c \in Seq(Intervals) /\ Len(c) = Len(b) + 1 /\ c # << >> /\ c[Len(c)] = d /\ Len(b) \in Nat
  OBVIOUS
<1>2. \A i \in 1..Len(b) : c[i] = b[i]
  OBVIOUS
<1> HIDE DEF c
<1>3. CASE b = << >>
  <2>1. a = z /\ Len(c) = 1 /\ c[1] = d /\ d.to \in Nat
    BY <1>1, <1>3, EmptySeq DEF Chain, Intervals
  <2> QED
    BY <1>1, <2>1 DEF Chain, c
<1>4. CASE b # << >>
  <2>1. Len(b) > 0 /\ b[1].from = a /\ b[Len(b)].to = z
    BY <1>4 DEF Chain
  <2>2. c[1].from = a /\ c[Len(c)].to = d.to
    BY <1>1, <1>2, <2>1
  <2>3. ASSUME NEW i \in 1..Len(c)
        PROVE  c[i].from <= c[i].to /\ c[i].to <= d.to
    <3>1. CASE i = Len(c)
      BY <1>1, <3>1 DEF Intervals
    <3>2. CASE i \in 1..Len(b)
      <4>1. c[i] = b[i] /\ b[i] \in Intervals /\ b[i].from <= b[i].to /\ b[i].to <= z
        BY <1>2, <1>4, <3>2 DEF Chain
      <4> QED
        BY <4>1 DEF Intervals
    <3> QED
      BY <1>1, <3>1, <3>2
  <2>4. ASSUME NEW i \in 1..(Len(c) - 1)
        PROVE  c[i].to = c[i + 1].from
    <3>1. CASE i = Len(b)
      BY <1>1, <1>2, <2>1, <3>1
    <3>2. CASE i < Len(b)
      <4>1. i \in 1..(Len(b) - 1) /\ i \in 1..Len(b) /\ i + 1 \in 1..Len(b)
        BY <1>1, <3>2
      <4> QED
        BY <1>2, <1>4, <4>1 DEF Chain
    <3> QED
      BY <1>1, <3>1, <3>2
  <2> QED
    BY <1>1, <2>2, <2>3, <2>4 DEF Chain, c
<1> QED
  BY <1>3, <1>4

\* The first interval taken from a chain.
LEMMA ChainTail ==
    ASSUME NEW b \in Seq(Intervals), b # << >>, NEW a \in Nat, NEW z \in Nat, Chain(b, a, z)
    PROVE  /\ Head(b) \in Intervals /\ Head(b).from = a /\ Head(b).from <= Head(b).to /\ Head(b).to <= z
           /\ Tail(b) \in Seq(Intervals) /\ Chain(Tail(b), Head(b).to, z)
<1> DEFINE c == Tail(b)
<1>1. c \in Seq(Intervals) /\ Len(c) = Len(b) - 1 /\ Len(b) \in Nat \ {0} /\ Head(b) = b[1] /\ b[1] \in Intervals
  OBVIOUS
<1>2. \A i \in 1..Len(c) : c[i] = b[i + 1]
  OBVIOUS
<1>3. /\ b[1].from = a /\ b[Len(b)].to = z
      /\ \A i \in 1..Len(b) : b[i].from <= b[i].to /\ b[i].to <= z
      /\ \A i \in 1..(Len(b) - 1) : b[i].to = b[i + 1].from
  BY DEF Chain
<1> HIDE DEF c
<1>4. CASE c = << >>
  <2>1. Len(b) = 1
    BY <1>1, <1>4
  <2> QED
    BY <1>1, <1>3, <1>4, <2>1 DEF Chain, c
<1>5. CASE c # << >>
  <2>1. Len(c) > 0
    BY <1>1, <1>5
  <2>2. c[1].from = b[1].to /\ c[Len(c)].to = z
    BY <1>1, <1>2, <1>3, <2>1
  <2>3. \A i \in 1..Len(c) : c[i].from <= c[i].to /\ c[i].to <= z
    BY <1>1, <1>2, <1>3
  <2>4. \A i \in 1..(Len(c) - 1) : c[i].to = c[i + 1].from
    BY <1>1, <1>2, <1>3, SMTT(30)
  <2> QED
    BY <1>1, <1>3, <1>5, <2>2, <2>3, <2>4 DEF Chain, c
<1> QED
  BY <1>4, <1>5

-----------------------------------------------------------------------------
(* The coordinator. *)

\* The answer that is made: its rows come after those polled before.
LEMMA MadeAnswer ==
    ASSUME ServerInv, NEW token \in Nat, NEW rows \in 0..Total, NEW closes \in BOOLEAN,
           ~IsCached(token), getNextResult(token, rows, closes)
    PROVE  /\ IsNext(token)
           /\ ServerInv'
           /\ lastResult' \in Results /\ lastResult' # Null
           /\ lastResult'.data.from = (IF lastResult = Null THEN 0 ELSE lastResult.data.to)
           /\ lastResultPath' = (IF lastResult = Null THEN Null ELSE lastResult.next)
           /\ lastResult'.next # Null => lastResult'.next = resultId + 1
<1> DEFINE closedNow == closed \/ closes \/ state = "FAILED" \/ (isDone /\ ~hasOutput)
<1>0. PICK result : result = nextResult(rows, closes).result
  OBVIOUS
<1>1. /\ IsNext(token) /\ CanPoll(rows, closes)
      /\ polled' = polled + rows
      /\ closed' = nextResult(rows, closes).closed /\ columns' = nextResult(rows, closes).columns
      /\ resultId' = IF result.next = Null THEN resultId ELSE result.next
      /\ lastResultPath' = IF lastResult = Null THEN Null ELSE lastResult.next
      /\ lastResult' = result
      /\ UNCHANGED << hasOutput, state, final, arrived, ended >>
  BY <1>0 DEF getNextResult, exchange
<1>2. /\ result.next = IF HasNext(closedNow) THEN resultId + 1 ELSE Null
      /\ result.data = IF FakeRow THEN [from |-> 0, to |-> 1] ELSE [from |-> polled, to |-> polled + rows]
      /\ result = [next |-> result.next, columns |-> result.columns, data |-> result.data, error |-> result.error]
      /\ result.columns \in BOOLEAN /\ result.error \in BOOLEAN
  BY <1>0, Zenon DEF nextResult, ServerInv, ServerTypes
<1>2a. result.error = (state = "FAILED")
  BY <1>0 DEF nextResult
<1>3. (closed' <=> closedNow) /\ closed' \in BOOLEAN /\ columns' \in BOOLEAN
  BY <1>1, Zenon DEF nextResult, ServerInv, ServerTypes
<1>4. /\ Total \in Nat /\ arrived \in 0..Total /\ polled \in 0..arrived /\ resultId \in Nat /\ rows \in Nat
      /\ resultId + 1 \in Nat /\ polled + rows \in Nat /\ Null \notin Nat /\ Null \notin Results
  BY ResultsAssumption DEF ServerInv, ServerTypes
<1>5. /\ rows <= arrived - polled
      /\ closed => rows = 0
      /\ closes => ended /\ polled + rows = arrived
  BY <1>1, <1>4 DEF CanPoll
<1>6. /\ FakeRow => polled = 0 /\ rows = 0 /\ RowCount = 1
      /\ arrived <= RowCount /\ RowCount' = RowCount /\ RowCount \in Nat
  BY ResultsAssumption, <1>1, <1>4, <1>5 DEF FakeRow, ServerInv, RowCount
<1>7. result.data.from = polled /\ result.data.to \in Nat /\ result.data \in Intervals
  BY <1>2, <1>4, <1>6 DEF Intervals
<1>8. result \in Results /\ result # Null
  BY <1>2, <1>4, <1>7 DEF Results
<1>9. polled = (IF lastResult = Null THEN 0 ELSE lastResult.data.to)
  BY <1>1 DEF ServerInv, Consistent, IsNext
<1>10. ServerTypes'
  <2>1. polled' \in 0..arrived' /\ arrived' \in 0..Total
    BY <1>1, <1>4, <1>5
  <2>2. resultId' \in Nat
    BY <1>1, <1>2, <1>4
  <2>3. lastResultPath' \in Nat \cup {Null} /\ lastResult' \in Results \cup {Null}
    BY <1>1, <1>8 DEF ServerInv, ServerTypes, Results
  <2> QED
    BY <1>1, <1>3, <2>1, <2>2, <2>3 DEF ServerInv, ServerTypes
<1>11. closed' => state' = "FAILED" \/ (isDone' /\ ~hasOutput') \/ (ended' /\ polled' = arrived')
  <2>1. closed => rows = 0 /\ polled + rows = polled
    BY <1>4, <1>5
  <2> QED
    BY <1>1, <1>3, <1>5, <2>1 DEF ServerInv, isDone
<1>12. Consistent(result)'
  <2>1. result.data.from <= result.data.to /\ result.data.to <= RowCount
    BY <1>2, <1>4, <1>5, <1>6
  <2>2. result.next # Null => result.next = resultId' /\ result.next = resultId + 1
    BY <1>1, <1>2
  <2>3. result.next # Null => result.data.to = polled'
    <3> SUFFICES ASSUME result.next # Null, FakeRow PROVE FALSE
      BY <1>1, <1>2
    <3>1. isDone /\ ~hasOutput /\ state # "FAILED" /\ closedNow
      BY DEF FakeRow, isDone
    <3>2. ~final
      BY <1>2, <3>1 DEF HasNext
    <3> QED
      BY <3>1, <3>2 DEF ServerInv
  <2>4. ASSUME result.next = Null, ~result.error
        PROVE  result.data.to = RowCount
    <3>1. final /\ closedNow /\ state # "FAILED"
      BY <1>2, <1>2a, <1>4, <2>4, Zenon DEF HasNext
    <3>2. state = "FINISHED"
      BY <3>1 DEF ServerInv, isDone
    <3>3. CASE ~hasOutput
      BY <1>2, <1>6, <3>2, <3>3 DEF FakeRow
    <3>4. CASE hasOutput
      <4>1. ended /\ polled + rows = arrived
        <5>1. CASE closes
          BY <1>5, <5>1
        <5>2. CASE closed
          BY <1>4, <1>5, <3>1, <3>4, <5>2 DEF ServerInv
        <5> QED
          BY <3>1, <3>4, <5>1, <5>2
      <4>2. arrived = RowCount /\ ~FakeRow
        BY <3>4, <4>1 DEF ServerInv, FakeRow, RowCount
      <4> QED
        BY <1>2, <4>1, <4>2
    <3> QED
      BY <3>3, <3>4
  <2>5. lastResultPath' # Null /\ result.next # Null => lastResultPath' < resultId'
    BY <1>1, <1>4, <2>2 DEF IsNext, ServerInv, Consistent
  <2> QED
    BY <1>1, <1>6, <2>1, <2>2, <2>3, <2>4, <2>5 DEF Consistent
<1>13. ServerInv'
  BY <1>1, <1>8, <1>10, <1>11, <1>12 DEF ServerInv, isDone
<1> QED
  BY <1>1, <1>2, <1>7, <1>8, <1>9, <1>13

\* A step that leaves the server alone keeps its invariant.
LEMMA ServerInvStays ==
    ASSUME ServerInv, UNCHANGED << hasOutput, state, final, columns, arrived, ended, polled, closed, resultId, lastResult, lastResultPath >>
    PROVE  ServerInv'
<1>1. ServerTypes'
  BY DEF ServerInv, ServerTypes
<1>2. lastResult # Null => Consistent(lastResult)'
  BY Zenon DEF ServerInv, Consistent, RowCount
<1> QED
  BY <1>1, <1>2, Zenon DEF ServerInv, isDone

\* The query goes on by itself.
LEMMA ServerStepInv ==
    ASSUME ServerInv, ServerStep
    PROVE  ServerInv' /\ UNCHANGED << lastResult, lastResultPath >>
<1>1. UNCHANGED << hasOutput, polled, closed, resultId, lastResult, lastResultPath >>
  BY DEF ServerStep, Start, Arrive, End, Finish, Finalize, Fail
<1>2. /\ Total \in Nat /\ arrived \in 0..Total /\ polled \in 0..arrived /\ hasOutput \in BOOLEAN
      /\ final \in BOOLEAN /\ ended \in BOOLEAN
  BY ResultsAssumption DEF ServerInv, ServerTypes
<1>3. ServerTypes'
  <2>1. arrived' \in 0..Total /\ polled' \in 0..arrived'
    BY <1>1, <1>2 DEF ServerStep, Start, Arrive, End, Finish, Finalize, Fail, exchange
  <2>2. /\ state' \in {"QUEUED", "RUNNING", "FINISHED", "FAILED"}
        /\ final' \in BOOLEAN /\ columns' \in BOOLEAN /\ ended' \in BOOLEAN
    BY <1>2, Zenon DEF ServerStep, Start, Arrive, End, Finish, Finalize, Fail, exchange, ServerInv, ServerTypes
  <2> QED
    BY <1>1, <2>1, <2>2 DEF ServerInv, ServerTypes
<1>4. /\ final' => isDone'
      /\ isDone' /\ ~hasOutput' => final'
  <2>1. CASE Start
    BY <2>1 DEF Start, ServerInv, isDone
  <2>2. CASE Arrive \/ End \/ Finalize
    BY <2>2 DEF Arrive, End, Finalize, ServerInv, isDone
  <2>3. CASE Finish
    BY <2>3, Zenon DEF Finish, isDone
  <2>4. CASE Fail
    BY <2>4, Zenon DEF Fail, isDone
  <2> QED
    BY <2>1, <2>2, <2>3, <2>4 DEF ServerStep
<1>5. /\ ended' => hasOutput' /\ arrived' = Total
      /\ ~hasOutput' => arrived' = 0
  BY <1>2 DEF ServerStep, Start, Arrive, End, Finish, Finalize, Fail, ServerInv, exchange
<1>6. closed' => state' = "FAILED" \/ (isDone' /\ ~hasOutput') \/ (ended' /\ polled' = arrived')
  BY <1>1, <1>2 DEF ServerStep, Start, Arrive, End, Finish, Finalize, Fail, ServerInv, exchange, isDone
<1>7. lastResult' # Null => Consistent(lastResult)'
  BY <1>1 DEF ServerInv, Consistent, RowCount
<1> QED
  BY <1>1, <1>3, <1>4, <1>5, <1>6, <1>7 DEF ServerInv

-----------------------------------------------------------------------------
(* The client. *)

LEMMA InitInv == Init => Inv
<1> SUFFICES ASSUME Init PROVE Inv
  OBVIOUS
<1>1. ServerInv
  <2>1. arrived \in 0..Total /\ polled \in 0..arrived /\ resultId \in Nat
    BY ResultsAssumption DEF Init, ServerInit
  <2>2. ServerTypes
    BY <2>1, Zenon DEF Init, ServerInit, ServerTypes
  <2> QED
    BY <2>2 DEF Init, ServerInit, ServerInv, isDone
<1>2. ClientTypes
  <2>1. buffer \in Seq(Intervals) /\ delivered \in Seq(Nat) /\ orphans \subseteq Nat /\ request \in Nat
    BY EmptySeq DEF Init
  <2>2. use \in {"tableau", "menu"}
    BY UsesAssumption DEF Init
  <2> QED
    BY <2>1, <2>2, Zenon DEF Init, ClientTypes
<1>3. RowsOnceInOrder
  BY DEF Init, RowsOnceInOrder
<1>4. InStep /\ Control /\ Chain(buffer, Len(delivered), Position)
  BY DEF Init, ServerInit, InStep, Control, Chain, Position
<1> QED
  BY <1>1, <1>2, <1>3, <1>4 DEF Inv, ClientInv

\* The client's request is for the answer it does not have yet, made or not.
LEMMA Requested ==
    ASSUME Inv, pc \in {"post", "headers", "data", "menu"}
    PROVE  /\ ~Refused(request)
           /\ IsCached(request) => /\ currentResults # Null /\ currentResults # lastResult
                                   /\ lastResultPath = currentResults.next
                                   /\ lastResult.data.from = currentResults.data.to
           /\ ~IsCached(request) => currentResults = lastResult
<1>1. CASE pc = "post"
  BY <1>1 DEF Inv, ClientInv, Control, InStep, ServerInv, IsCached, IsNext, Refused
<1>2. CASE pc \in {"headers", "data", "menu"}
  <2>1. currentResults # Null /\ currentResults.next # Null /\ request = currentResults.next /\ lastResult # Null
    BY <1>2 DEF Inv, ClientInv, Control, InStep
  <2>2. resultId \in Nat /\ lastResultPath \in Nat \cup {Null} /\ Null \notin Nat
    BY ResultsAssumption DEF Inv, ServerInv, ServerTypes
  <2>3. CASE currentResults = lastResult
    <3>1. request = resultId /\ (lastResultPath # Null => lastResultPath < resultId)
      BY <2>1, <2>3 DEF Inv, ServerInv, Consistent
    <3>2. ~IsCached(request)
      BY <2>2, <3>1 DEF IsCached
    <3> QED
      BY <2>1, <2>3, <3>2 DEF Refused, IsNext
  <2>4. CASE currentResults # lastResult
    <3>1. lastResultPath = currentResults.next /\ lastResult.data.from = currentResults.data.to
      BY <2>1, <2>4 DEF Inv, ClientInv, InStep
    <3> QED
      BY <2>1, <2>4, <3>1 DEF Refused, IsCached
  <2> QED
    BY <2>3, <2>4
<1> QED
  BY <1>1, <1>2

\* The answer that arrives comes right after the rows the client has, and no request
\* still on its way is for a later one.
LEMMA Arriving ==
    ASSUME Inv, NEW rows \in 0..Total, NEW closes \in BOOLEAN,
           pc \in {"post", "headers", "data", "menu"}, getNextResult(request, rows, closes)
    PROVE  /\ ServerInv' /\ lastResult' \in Results /\ lastResult' # Null
           /\ lastResult'.data.from = Position /\ lastResult'.data.from <= lastResult'.data.to
           /\ lastResult'.next # Null => \A token \in orphans : token <= lastResult'.next
<1>1. ServerInv /\ request \in Nat /\ resultId \in Nat /\ orphans \subseteq Nat /\ Null \notin Nat /\ Null \notin Results
  BY ResultsAssumption DEF Inv, ServerInv, ServerTypes, ClientInv, ClientTypes
<1>2. CASE IsCached(request)
  <2>1. UNCHANGED serverVars
    BY <1>2 DEF getNextResult
  <2>2. UNCHANGED << hasOutput, state, final, columns, arrived, ended, polled, closed, resultId, lastResult, lastResultPath >>
    BY <2>1 DEF serverVars, exchange
  <2>3. /\ currentResults # Null /\ lastResultPath = currentResults.next /\ lastResult # Null
        /\ currentResults.next # Null /\ lastResult.data.from = currentResults.data.to
    BY <1>2, Requested DEF Inv, ClientInv, InStep, IsCached
  <2>4. ServerInv' /\ lastResult' \in Results
    BY <1>1, <2>2, <2>3 DEF ServerInv, ServerTypes, Consistent, RowCount, isDone
  <2>5. lastResult.next # Null => \A token \in orphans : token <= lastResult.next
    <3> SUFFICES ASSUME lastResult.next # Null, NEW token \in orphans PROVE token <= lastResult.next
      OBVIOUS
    <3>1. token <= currentResults.next /\ token \in Nat
      BY <1>1, <2>3 DEF Inv, ClientInv, InStep
    <3>2. lastResult.next = resultId /\ lastResultPath < resultId /\ lastResultPath \in Nat
      BY <1>1, <2>3 DEF ServerInv, ServerTypes, Consistent
    <3> QED
      BY <1>1, <2>3, <3>1, <3>2
  <2>6. lastResult.data.from <= lastResult.data.to
    BY <1>1, <2>3 DEF ServerInv, Consistent
  <2> QED
    BY <2>2, <2>3, <2>4, <2>5, <2>6 DEF Position
<1>3. CASE ~IsCached(request)
  <2>1. currentResults = lastResult /\ IsNext(request)
    BY <1>3, Requested DEF Refused
  <2>2. /\ ServerInv' /\ lastResult' \in Results /\ lastResult' # Null
        /\ lastResult'.data.from = (IF lastResult = Null THEN 0 ELSE lastResult.data.to)
        /\ lastResult'.next # Null => lastResult'.next = resultId + 1
    BY <1>1, <1>3, MadeAnswer
  <2>3. lastResult'.next # Null => \A token \in orphans : token <= lastResult'.next
    <3> SUFFICES ASSUME lastResult'.next # Null, NEW token \in orphans PROVE token <= lastResult'.next
      OBVIOUS
    <3>1. lastResult # Null /\ lastResult.next # Null /\ token <= lastResult.next /\ token \in Nat
      BY <1>1, <2>1 DEF Inv, ClientInv, InStep, IsNext
    <3>2. lastResult.next = resultId
      BY <1>1, <3>1 DEF ServerInv, Consistent
    <3> QED
      BY <1>1, <2>2, <3>1, <3>2
  <2>4. lastResult'.data.from <= lastResult'.data.to
    BY <2>2 DEF ServerInv, Consistent
  <2> QED
    BY <2>1, <2>2, <2>3, <2>4 DEF Position
<1> QED
  BY <1>2, <1>3

\* The rows of an answer reach the reader or the buffer behind those that came before.
LEMMA Handled ==
    ASSUME ClientInv, pc \in {"post", "headers", "data", "menu"},
           NEW result \in Results, result.data.from = Position, result.data.from <= result.data.to,
           responseHandler(result)
    PROVE  /\ headersPushed' \in BOOLEAN /\ errorMessage' \in BOOLEAN /\ getTableDataCalled' = getTableDataCalled
           /\ buffer' \in Seq(Intervals) /\ delivered' \in Seq(Nat)
           /\ RowsOnceInOrder'
           /\ Chain(buffer', Len(delivered'), result.data.to)
           /\ use = "menu" \/ pc = "data" => buffer' = << >>
           /\ \/ delivered' = delivered
              \/ delivered' = [i \in 1..result.data.to |-> i] /\ Len(delivered) < result.data.to
<1>1. /\ buffer \in Seq(Intervals) /\ delivered \in Seq(Nat) /\ Len(delivered) \in Nat
      /\ RowsOnceInOrder /\ Chain(buffer, Len(delivered), Position)
      /\ use = "menu" \/ pc = "data" => buffer = << >>
      /\ pc = "data" => getTableDataCalled
      /\ getTableDataCalled => use = "menu" \/ pc = "data"
  BY DEF ClientInv, ClientTypes, Control
<1>2. result.data \in Intervals /\ result.data.from \in Nat /\ result.data.to \in Nat /\ Position \in Nat
  BY DEF Results, Intervals
<1>3. headersPushed' \in BOOLEAN /\ errorMessage' \in BOOLEAN /\ getTableDataCalled' = getTableDataCalled
  BY Zenon DEF responseHandler
<1>4. CASE ~HasData(result)
  <2>1. delivered' = delivered /\ buffer' = buffer
    BY <1>4 DEF responseHandler
  <2>2. result.data.to = Position
    BY <1>2, <1>4 DEF HasData
  <2> QED
    BY <1>1, <1>3, <2>1, <2>2 DEF RowsOnceInOrder
<1>5. CASE HasData(result) /\ (use = "menu" \/ getTableDataCalled)
  <2>1. delivered' = delivered \o Rows(result.data) /\ buffer' = buffer /\ buffer = << >>
    BY <1>1, <1>5 DEF responseHandler, pushDataToTableau
  <2>2. Len(delivered) = Position
    BY <1>1, <2>1 DEF Chain
  <2>3. /\ delivered' \in Seq(Nat) /\ Len(delivered') = result.data.to
        /\ delivered' = [i \in 1..result.data.to |-> i]
    BY <1>1, <1>2, <2>1, <2>2, RowsContinue, Zenon DEF RowsOnceInOrder
  <2>4. Len(delivered) < result.data.to
    BY <1>2, <1>5, <2>2 DEF HasData
  <2>5. Chain(buffer', Len(delivered'), result.data.to) /\ RowsOnceInOrder'
    BY <2>1, <2>3 DEF Chain, RowsOnceInOrder
  <2> QED
    BY <1>1, <1>3, <2>1, <2>3, <2>4, <2>5
<1>6. CASE HasData(result) /\ ~(use = "menu" \/ getTableDataCalled)
  <2>1. delivered' = delivered /\ buffer' = Append(buffer, result.data)
    BY <1>6 DEF responseHandler, pushDataToTableau
  <2>2. buffer' \in Seq(Intervals) /\ Chain(buffer', Len(delivered), result.data.to)
    BY <1>1, <1>2, <2>1, ChainAppend
  <2> QED
    BY <1>1, <1>3, <1>6, <2>1, <2>2 DEF RowsOnceInOrder
<1> QED
  BY <1>4, <1>5, <1>6

\* The loops go on with the request for the answer after the one at hand.
LEMMA Continued ==
    ASSUME ClientInv, pc \in {"post", "headers", "data", "menu"}, NEW returned \in BOOLEAN,
           currentResults' \in Results, Null \notin Results,
           continue(returned, currentResults'.next),
           use' = use, getTableDataCalled' = getTableDataCalled,
           use = "menu" \/ pc = "data" => buffer' = << >>
    PROVE  /\ Control' /\ request' \in Nat
           /\ pc' \in {"post", "headers", "data", "menu", "idle", "spin", "hung", "aborted", "over"}
           /\ pc' = "over" => currentResults'.next = Null /\ buffer' = << >>
<1>1. /\ use \in {"tableau", "menu"} /\ request \in Nat
      /\ pc = "menu" => use = "menu"
      /\ pc \in {"headers", "data"} => use = "tableau"
      /\ pc \in {"post", "headers"} => ~getTableDataCalled
      /\ pc = "data" => getTableDataCalled
      /\ currentResults'.next \in Nat \cup {Null} /\ currentResults' # Null
  BY DEF ClientInv, ClientTypes, Control, Results
<1>2. CASE use = "menu"
  <2>1. advance(currentResults'.next, "menu", "over")
    BY <1>2 DEF continue
  <2> QED
    BY <1>1, <1>2, <2>1 DEF advance, Control
<1>3. CASE use = "tableau" /\ pc = "data"
  <2>1. \/ pc' \in {"idle", "hung"} /\ request' = request
        \/ advance(currentResults'.next, "data", "over")
    BY <1>3 DEF continue
  <2> QED
    BY <1>1, <1>3, <2>1 DEF advance, Control
<1>4. CASE use = "tableau" /\ pc # "data"
  <2>1. \/ pc' \in {"aborted", "idle"} /\ request' = request
        \/ \E after \in {"aborted", "idle", "spin"} : advance(currentResults'.next, "headers", after)
    BY <1>4 DEF continue
  <2> QED
    BY <1>1, <1>4, <2>1 DEF advance, Control
<1> QED
  BY <1>1, <1>2, <1>3, <1>4

LEMMA ReceiveInv ==
    ASSUME Inv, NEW rows \in 0..Total, NEW closes \in BOOLEAN, Receive(rows, closes)
    PROVE  /\ Inv'
           /\ \/ delivered' = delivered
              \/ delivered' = [i \in 1..currentResults'.data.to |-> i] /\ Len(delivered) < currentResults'.data.to
           /\ pc' = "over" => currentResults'.next = Null /\ buffer' = << >>
<1>1. /\ pc \in {"post", "headers", "data", "menu"} /\ getNextResult(request, rows, closes)
      /\ currentResults' = lastResult' /\ responseHandler(lastResult')
      /\ use' = use /\ orphans' = orphans
      /\ continue(pc = "post" \/ HasData(lastResult') \/ lastResult'.error, lastResult'.next)
  BY DEF Receive
<1>2. /\ ServerInv' /\ lastResult' \in Results /\ lastResult' # Null
      /\ lastResult'.data.from = Position /\ lastResult'.data.from <= lastResult'.data.to
      /\ lastResult'.next # Null => \A token \in orphans : token <= lastResult'.next
  BY <1>1, Arriving
<1>3. ClientInv /\ Null \notin Results
  BY ResultsAssumption DEF Inv
<1>4. /\ headersPushed' \in BOOLEAN /\ errorMessage' \in BOOLEAN /\ getTableDataCalled' = getTableDataCalled
      /\ buffer' \in Seq(Intervals) /\ delivered' \in Seq(Nat)
      /\ RowsOnceInOrder'
      /\ Chain(buffer', Len(delivered'), lastResult'.data.to)
      /\ use = "menu" \/ pc = "data" => buffer' = << >>
      /\ \/ delivered' = delivered
         \/ delivered' = [i \in 1..lastResult'.data.to |-> i] /\ Len(delivered) < lastResult'.data.to
  BY <1>1, <1>2, <1>3, Handled
<1>5. PICK returned \in BOOLEAN : continue(returned, currentResults'.next)
  <2>1. (pc = "post" \/ HasData(lastResult') \/ lastResult'.error) \in BOOLEAN
    OBVIOUS
  <2> QED
    BY <1>1, <2>1, Zenon
<1>6. /\ Control' /\ request' \in Nat
      /\ pc' \in {"post", "headers", "data", "menu", "idle", "spin", "hung", "aborted", "over"}
      /\ pc' = "over" => currentResults'.next = Null /\ buffer' = << >>
  BY <1>1, <1>2, <1>3, <1>4, <1>5, Continued
<1>7. ClientTypes'
  BY <1>1, <1>2, <1>3, <1>4, <1>6 DEF ClientInv, ClientTypes
<1>8. InStep'
  BY <1>1, <1>2 DEF InStep
<1>9. Position' = lastResult'.data.to
  BY <1>1, <1>2 DEF Position
<1> QED
  BY <1>1, <1>2, <1>4, <1>6, <1>7, <1>8, <1>9 DEF Inv, ClientInv

LEMMA ReceiveErrorInv ==
    ASSUME Inv, ReceiveError
    PROVE  Inv' /\ delivered' = delivered /\ (pc' = "over" => currentResults' = Null)
<1>1. /\ pc \in {"post", "headers", "data", "menu"}
      /\ orphans' = IF pc = "post" THEN orphans ELSE orphans \cup {request}
      /\ errorMessage' = TRUE
      /\ UNCHANGED << serverVars, use, currentResults, headersPushed, getTableDataCalled, buffer, delivered >>
      /\ continue(TRUE, IF currentResults = Null THEN Null ELSE currentResults.next)
  BY Zenon DEF ReceiveError
<1>2. UNCHANGED << hasOutput, state, final, columns, arrived, ended, polled, closed, resultId, lastResult, lastResultPath >>
  BY <1>1 DEF serverVars, exchange
<1>3. ServerInv'
  BY <1>2 DEF Inv, ServerInv, ServerTypes, Consistent, RowCount, isDone
<1>4. /\ ClientTypes /\ InStep /\ Control /\ RowsOnceInOrder /\ Chain(buffer, Len(delivered), Position)
      /\ Null \notin Nat
  BY ResultsAssumption DEF Inv, ClientInv
<1>5. /\ Control' /\ request' \in Nat
      /\ pc' \in {"post", "headers", "data", "menu", "idle", "spin", "hung", "aborted", "over"}
      /\ pc' = "over" => currentResults' = Null
  <2>1. CASE use = "menu" /\ pc = "post"
    <3>1. advance(Null, "menu", "over") /\ currentResults = Null
      BY <1>1, <1>4, <2>1 DEF continue, Control
    <3> QED
      BY <1>1, <1>4, <2>1, <3>1 DEF advance, Control, ClientTypes
  <2>2. CASE use = "menu" /\ pc # "post"
    <3>1. advance(currentResults.next, "menu", "over") /\ currentResults # Null /\ currentResults.next # Null
      BY <1>1, <1>4, <2>2 DEF continue, Control
    <3>2. pc' = "menu" /\ request' = currentResults.next /\ request = currentResults.next
      BY <1>1, <1>4, <2>2, <3>1 DEF advance, Control
    <3> QED
      BY <1>1, <1>4, <2>2, <3>1, <3>2 DEF Control, ClientTypes
  <2>3. CASE use = "tableau"
    <3>1. pc' \in {"hung", "aborted"} /\ request' = request
      BY <1>1, <2>3 DEF continue
    <3> QED
      BY <1>1, <1>4, <2>3, <3>1 DEF Control, ClientTypes
  <2> QED
    BY <1>4, <2>1, <2>2, <2>3 DEF ClientTypes
<1>6. ClientTypes'
  BY <1>1, <1>4, <1>5, Zenon DEF ClientTypes
<1>7. InStep'
  <2>1. CASE pc = "post"
    BY <1>1, <1>2, <1>4, <2>1 DEF InStep, Control
  <2>2. CASE pc # "post"
    <3>1. currentResults # Null /\ currentResults.next = request /\ request \in Nat
      BY <1>1, <1>4, <2>2 DEF Control, ClientTypes
    <3>2. \A token \in orphans' : token <= currentResults.next
      BY <1>1, <1>4, <3>1 DEF InStep
    <3> QED
      BY <1>1, <1>2, <1>4, <3>1, <3>2 DEF InStep
  <2> QED
    BY <2>1, <2>2
<1> QED
  BY <1>1, <1>3, <1>4, <1>5, <1>6, <1>7 DEF Inv, ClientInv, RowsOnceInOrder, Position

LEMMA ServeOrphanInv ==
    ASSUME Inv, NEW token \in orphans, NEW rows \in 0..Total, NEW closes \in BOOLEAN, ServeOrphan(token, rows, closes)
    PROVE  Inv' /\ UNCHANGED << delivered, pc, currentResults >>
<1>1. /\ orphans' = orphans \ {token} /\ getNextResult(token, rows, closes)
      /\ UNCHANGED << use, pc, request, currentResults, headersPushed, getTableDataCalled, buffer, errorMessage, delivered >>
  BY DEF ServeOrphan, connector
<1>2. /\ ServerInv /\ ClientTypes /\ InStep /\ Control /\ RowsOnceInOrder /\ Chain(buffer, Len(delivered), Position)
      /\ Null \notin Nat /\ token \in Nat
  BY ResultsAssumption DEF Inv, ClientInv, ClientTypes
<1>3. currentResults # Null /\ lastResult # Null
  BY <1>2 DEF InStep
<1>4. ServerInv' /\ InStep'
  <2>1. CASE IsCached(token)
    <3>1. UNCHANGED << hasOutput, state, final, columns, arrived, ended, polled, closed, resultId, lastResult, lastResultPath >>
      BY <1>1, <2>1, Zenon DEF getNextResult, serverVars, exchange
    <3> QED
      BY <1>1, <1>2, <3>1, Zenon DEF ServerInv, ServerTypes, Consistent, RowCount, isDone, InStep
  <2>2. CASE ~IsCached(token)
    <3>1. /\ IsNext(token) /\ ServerInv' /\ lastResult' # Null
          /\ lastResult'.data.from = lastResult.data.to /\ lastResultPath' = lastResult.next
      BY <1>1, <1>2, <1>3, <2>2, MadeAnswer
    <3>2. lastResult.next # Null /\ token = lastResult.next /\ token = resultId
      BY <1>2, <1>3, <3>1 DEF IsNext, ServerInv, Consistent
    <3>3. currentResults = lastResult
      <4> SUFFICES ASSUME currentResults # lastResult PROVE FALSE
        OBVIOUS
      <4>1. /\ lastResultPath = currentResults.next /\ lastResultPath # Null
            /\ token <= lastResultPath
        BY <1>2, <1>3 DEF InStep
      <4>2. lastResultPath < resultId /\ lastResultPath \in Nat
        BY <1>2, <1>3, <3>2, <4>1 DEF ServerInv, ServerTypes, Consistent
      <4> QED
        BY <1>2, <3>2, <4>1, <4>2
    <3> QED
      BY <1>1, <1>2, <1>3, <3>1, <3>2, <3>3, Zenon DEF InStep
  <2> QED
    BY <2>1, <2>2
<1> QED
  BY <1>1, <1>2, <1>4, Zenon DEF Inv, ClientInv, ClientTypes, Control, RowsOnceInOrder, Position

LEMMA LoseOrphanInv ==
    ASSUME Inv, NEW token \in orphans, LoseOrphan(token)
    PROVE  Inv' /\ UNCHANGED << delivered, pc, currentResults >>
<1>1. /\ orphans' = orphans \ {token}
      /\ UNCHANGED << hasOutput, state, final, columns, arrived, ended, polled, closed, resultId, lastResult, lastResultPath >>
      /\ UNCHANGED << use, pc, request, currentResults, headersPushed, getTableDataCalled, buffer, errorMessage, delivered >>
  BY DEF LoseOrphan, serverVars, exchange, connector
<1>2. ServerInv'
  BY <1>1 DEF Inv, ServerInv, ServerTypes, Consistent, RowCount, isDone
<1>3. InStep'
  BY <1>1, Zenon DEF Inv, ClientInv, InStep
<1> QED
  BY <1>1, <1>2, <1>3, Zenon DEF Inv, ClientInv, ClientTypes, Control, RowsOnceInOrder, Position

\* Tableau takes rows from the buffer, or makes the client ask for more.
LEMMA getTableDataInv ==
    ASSUME Inv, getTableData
    PROVE  /\ Inv' /\ currentResults' = currentResults
           /\ \/ delivered' = delivered
              \/ /\ pc' = "idle"
                 /\ \E n \in Nat : delivered' = [i \in 1..n |-> i] /\ Len(delivered) < n /\ n <= Position
           /\ pc' = "over" => currentResults.next = Null /\ buffer' = << >> /\ delivered' = delivered
<1>1. /\ pc = "idle" /\ use = "tableau" /\ getTableDataCalled' = TRUE
      /\ UNCHANGED << use, currentResults, headersPushed, errorMessage, orphans >>
      /\ UNCHANGED << hasOutput, state, final, columns, arrived, ended, polled, closed, resultId, lastResult, lastResultPath >>
  BY DEF getTableData, serverVars, exchange
<1>2. /\ ServerInv /\ ClientTypes /\ InStep /\ Control /\ RowsOnceInOrder /\ Chain(buffer, Len(delivered), Position)
      /\ currentResults # Null
  BY <1>1 DEF Inv, ClientInv, Control
<1>3. ServerInv' /\ InStep' /\ Position' = Position
  <2>1. ServerInv'
    BY <1>1, <1>2, ServerInvStays, Zenon
  <2> QED
    BY <1>1, <1>2, <2>1, Zenon DEF InStep, Position
<1>4. Position \in Nat /\ Len(delivered) \in Nat /\ buffer \in Seq(Intervals) /\ delivered \in Seq(Nat)
      /\ request \in Nat /\ currentResults.next \in Nat \cup {Null}
  BY <1>2 DEF ClientTypes, Position, Results, Intervals
<1>5. CASE buffer # << >>
  <2>1. delivered' = delivered \o Rows(Head(buffer)) /\ buffer' = Tail(buffer) /\ UNCHANGED << pc, request >>
    BY <1>5 DEF getTableData
  <2>2. PICK d \in Intervals :
            /\ d = Head(buffer) /\ d.from = Len(delivered) /\ d.from <= d.to /\ d.to <= Position
            /\ Tail(buffer) \in Seq(Intervals) /\ Chain(Tail(buffer), d.to, Position)
    BY <1>2, <1>4, <1>5, ChainTail
  <2>3. /\ delivered' \in Seq(Nat) /\ Len(delivered') = d.to
        /\ delivered' = [i \in 1..d.to |-> i]
    BY <1>2, <1>4, <2>1, <2>2, RowsContinue, Zenon DEF RowsOnceInOrder
  <2>4. RowsOnceInOrder' /\ Chain(buffer', Len(delivered'), Position')
    BY <1>3, <2>1, <2>2, <2>3, Zenon DEF RowsOnceInOrder
  <2>5. ClientTypes' /\ Control'
    BY <1>1, <1>2, <2>1, <2>2, <2>3, Zenon DEF ClientTypes, Control
  <2>6. d.to \in Nat /\ (d.to = Len(delivered) => delivered' = delivered)
    BY <1>2, <2>2, <2>3 DEF Intervals, RowsOnceInOrder
  <2>7. d.to # Len(delivered) => Len(delivered) < d.to
    BY <1>4, <2>2, <2>6
  <2> QED
    BY <1>1, <1>3, <2>1, <2>2, <2>3, <2>4, <2>5, <2>6, <2>7, Zenon DEF Inv, ClientInv
<1>6. CASE buffer = << >>
  <2>1. advance(currentResults.next, "data", "over") /\ delivered' = delivered /\ buffer' = buffer
    BY <1>6 DEF getTableData
  <2>2. RowsOnceInOrder' /\ Chain(buffer', Len(delivered'), Position')
    BY <1>2, <1>3, <2>1 DEF RowsOnceInOrder
  <2>3. ClientTypes' /\ Control'
    BY <1>1, <1>2, <1>4, <1>6, <2>1, Zenon DEF ClientTypes, Control, advance
  <2>4. pc' = "over" => currentResults.next = Null
    BY <2>1 DEF advance
  <2> QED
    BY <1>1, <1>3, <1>6, <2>1, <2>2, <2>3, <2>4 DEF Inv, ClientInv
<1> QED
  BY <1>5, <1>6

\* The steps that are not of the client leave the invariant and what it has alone.
LEMMA OtherStepsInv ==
    ASSUME Inv, (ServerStep /\ UNCHANGED clientVars) \/ UNCHANGED vars
    PROVE  Inv' /\ UNCHANGED << delivered, pc, currentResults >>
<1>1. UNCHANGED << use, pc, request, currentResults, valid, headersPushed, getTableDataCalled, buffer, errorMessage,
                   delivered, orphans, failures >>
  BY DEF clientVars, vars, connector
<1>2. ServerInv' /\ UNCHANGED << lastResult, lastResultPath >>
  <2>1. CASE ServerStep
    BY <2>1, ServerStepInv DEF Inv
  <2>2. CASE UNCHANGED vars
    <3>1. UNCHANGED << hasOutput, state, final, columns, arrived, ended, polled, closed, resultId, lastResult, lastResultPath >>
      BY <2>2 DEF vars, serverVars, exchange
    <3> QED
      BY <3>1, ServerInvStays, Zenon DEF Inv
  <2> QED
    BY <2>1, <2>2
<1>3. InStep'
  BY <1>1, <1>2 DEF Inv, ClientInv, InStep
<1> QED
  BY <1>1, <1>2, <1>3 DEF Inv, ClientInv, ClientTypes, Control, RowsOnceInOrder, Position

\* Inv is an invariant of the coordinator and the client.
THEOREM StatementInvariant == Spec => []Inv
<1>1. Inv /\ [Next]_vars => Inv'
  <2> SUFFICES ASSUME Inv, [Next]_vars PROVE Inv'
    OBVIOUS
  <2>1. CASE (ServerStep /\ UNCHANGED clientVars) \/ UNCHANGED vars
    BY <2>1, OtherStepsInv
  <2>2. CASE Step
    BY <2>2, ReceiveInv DEF Step
  <2>3. CASE ReceiveError
    BY <2>3, ReceiveErrorInv
  <2>4. CASE \E token \in orphans, rows \in 0..Total, closes \in BOOLEAN : ServeOrphan(token, rows, closes)
    BY <2>4, ServeOrphanInv
  <2>5. CASE \E token \in orphans : LoseOrphan(token)
    BY <2>5, LoseOrphanInv
  <2>6. CASE getTableData
    BY <2>6, getTableDataInv
  <2> QED
    BY <2>1, <2>2, <2>3, <2>4, <2>5, <2>6 DEF Next
<1> QED
  BY <1>1, InitInv, PTL DEF Spec

\* Query.getNextResult and StatementClient.advance: whatever requests fail or are served
\* late, and though the query may fail, rows are delivered once and in order.
THEOREM RowsAreDeliveredInOrder == Spec => []RowsOnceInOrder
<1>1. Inv => RowsOnceInOrder
  BY DEF Inv, ClientInv
<1> QED
  BY <1>1, StatementInvariant, PTL

\* Query.getCachedResult: the token a client repeats or goes on to is never refused.
THEOREM TokensAreAccepted == Spec => []NeverRefused
<1>1. Inv => NeverRefused
  BY Requested DEF NeverRefused
<1> QED
  BY <1>1, StatementInvariant, PTL

-----------------------------------------------------------------------------
(* The rows are a stream of rows. *)

\* The client has been sent no more than there is, and all of it once an answer without
\* error has no next one.
LEMMA Complete ==
    ASSUME Inv
    PROVE  /\ RowCount \in Nat /\ Position \in Nat /\ Position <= RowCount
           /\ currentResults # Null /\ currentResults.next = Null => currentResults.error \/ Position = RowCount
<1>1. Total \in Nat /\ RowCount \in Nat /\ Null \notin Results
  BY ResultsAssumption DEF RowCount
<1>2. CASE currentResults = Null
  BY <1>1, <1>2 DEF Position
<1>3. CASE currentResults # Null
  <2>1. /\ currentResults \in Results /\ lastResult \in Results /\ Consistent(lastResult)
        /\ \/ currentResults = lastResult
           \/ currentResults.next # Null /\ lastResult.data.from = currentResults.data.to
    BY <1>3, Zenon DEF Inv, ServerInv, ServerTypes, ClientInv, ClientTypes, InStep
  <2>2. currentResults.data \in Intervals /\ lastResult.data \in Intervals /\ Position = currentResults.data.to
    BY <1>3, <2>1 DEF Results, Position
  <2> QED
    BY <1>1, <2>1, <2>2 DEF Consistent, Intervals
<1> QED
  BY <1>2, <1>3

\* The number of rows does not change.
LEMMA SameRowCount ==
    ASSUME [Next]_vars
    PROVE  RowCount' = RowCount
<1>1. hasOutput' = hasOutput
  BY Zenon DEF Next, vars, serverVars, ServerStep, Start, Arrive, End, Finish, Finalize, Fail, Step, Receive, ReceiveError,
         ServeOrphan, LoseOrphan, getTableData, getNextResult
<1> QED
  BY <1>1 DEF RowCount

\* Every step of the two delivers rows, ends the stream, or is none of the reader's.
LEMMA StreamStep ==
    ASSUME Inv, [Next]_vars
    PROVE  [Stream!Next]_<< RowCount, delivered, Over >>
<1>0. RowCount' = RowCount /\ RowCount \in Nat /\ Len(delivered) \in Nat /\ Null \notin Results
  BY ResultsAssumption, SameRowCount, Complete DEF Inv, ClientInv, ClientTypes
<1>1. CASE Step
  <2>1. PICK rows \in 0..Total, closes \in BOOLEAN : Receive(rows, closes)
    BY <1>1 DEF Step
  <2>2. pc \in {"post", "headers", "data", "menu"} /\ currentResults' = lastResult'
    BY <2>1 DEF Receive
  <2>3. /\ Inv'
        /\ \/ delivered' = delivered
           \/ delivered' = [i \in 1..currentResults'.data.to |-> i] /\ Len(delivered) < currentResults'.data.to
        /\ pc' = "over" => currentResults'.next = Null /\ buffer' = << >>
    BY <2>1, ReceiveInv
  <2>4. currentResults' # Null /\ currentResults' \in Results /\ lastResult' # Null
    BY <2>1, <2>2, Arriving DEF Receive
  <2>5. PICK n \in Nat : n = currentResults'.data.to
    BY <2>4 DEF Results, Intervals
  <2>6. Over = FALSE /\ Over' \in BOOLEAN /\ (Over' => pc' = "over" /\ ~currentResults'.error)
    BY <2>2, Zenon DEF Over
  <2>7. n <= RowCount /\ (Over' => n = RowCount)
    BY <1>0, <2>2, <2>3, <2>4, <2>5, <2>6, Zenon DEF Inv, ServerInv, Consistent
  <2>8. Over' => Len(delivered') = n
    BY <2>3, <2>4, <2>5, <2>6, Zenon DEF Inv, ClientInv, Chain, Position
  <2>9. CASE delivered' = delivered
    <3>1. CASE Over' = TRUE
      BY <1>0, <2>6, <2>7, <2>8, <2>9, <3>1, Zenon DEF Stream!Next, Stream!End
    <3>2. CASE Over' = FALSE
      BY <1>0, <2>6, <2>9, <3>2, Zenon
    <3> QED
      BY <2>6, <3>1, <3>2, Zenon
  <2>10. CASE delivered' = [i \in 1..n |-> i] /\ Len(delivered) < n
    <3>1. n \in Len(delivered) + 1 .. RowCount
      BY <1>0, <2>7, <2>10
    <3>2. Over' \in {FALSE, n = RowCount}
      BY <2>6, <2>7, Zenon
    <3> QED
      BY <1>0, <2>6, <2>10, <3>1, <3>2, Zenon DEF Stream!Next, Stream!Deliver
  <2> QED
    BY <2>3, <2>5, <2>9, <2>10
<1>2. CASE getTableData
  <2>1. /\ currentResults' = currentResults
        /\ \/ delivered' = delivered
           \/ /\ pc' = "idle"
              /\ \E n \in Nat : delivered' = [i \in 1..n |-> i] /\ Len(delivered) < n /\ n <= Position
        /\ pc' = "over" => currentResults.next = Null /\ buffer' = << >> /\ delivered' = delivered
    BY <1>2, getTableDataInv
  <2>2. pc = "idle" /\ currentResults # Null /\ Inv'
    BY <1>2, getTableDataInv, Zenon DEF getTableData, Inv, ClientInv, Control
  <2>3. /\ Position \in Nat /\ Position <= RowCount
        /\ currentResults.next = Null => currentResults.error \/ Position = RowCount
    BY <2>2, Complete
  <2>4. Over = FALSE /\ Over' \in BOOLEAN /\ (Over' => pc' = "over" /\ ~currentResults.error)
    BY <2>1, <2>2, Zenon DEF Over
  <2>5. CASE Over'
    <3>1. Len(delivered') = Position' /\ Position' = Position
      BY <2>1, <2>2, <2>4, <2>5, Zenon DEF Inv, ClientInv, Chain, Position
    <3> QED
      BY <1>0, <2>1, <2>3, <2>4, <2>5, <3>1, Zenon DEF Stream!Next, Stream!End
  <2>6. CASE ~Over' /\ delivered' # delivered
    <3>1. PICK n \in Nat : delivered' = [i \in 1..n |-> i] /\ Len(delivered) < n /\ n <= Position
      BY <2>1, <2>6
    <3>2. n \in Len(delivered) + 1 .. RowCount
      BY <1>0, <2>3, <3>1
    <3>3. Over' = FALSE
      BY <2>4, <2>6
    <3> QED
      BY <1>0, <2>4, <3>1, <3>2, <3>3, Zenon DEF Stream!Next, Stream!Deliver
  <2>7. CASE ~Over' /\ delivered' = delivered
    <3>1. Over' = Over
      BY <2>4, <2>7, Zenon
    <3> QED
      BY <1>0, <2>7, <3>1
  <2> QED
    BY <2>5, <2>6, <2>7
<1>3. CASE ReceiveError
  <2>1. delivered' = delivered /\ pc # "over" /\ (pc' = "over" => currentResults' = Null)
    BY <1>3, ReceiveErrorInv, Zenon DEF ReceiveError
  <2>2. Over' = Over
    BY <2>1 DEF Over
  <2> QED
    BY <1>0, <2>1, <2>2
<1>4. CASE UNCHANGED << delivered, pc, currentResults >>
  <2>1. Over' = Over
    BY <1>4 DEF Over
  <2> QED
    BY <1>0, <1>4, <2>1
<1> QED
  <2>1. CASE (ServerStep /\ UNCHANGED clientVars) \/ UNCHANGED vars
    BY <2>1, <1>4, OtherStepsInv
  <2>2. CASE \E token \in orphans, rows \in 0..Total, closes \in BOOLEAN : ServeOrphan(token, rows, closes)
    BY <2>2, <1>4, ServeOrphanInv
  <2>3. CASE \E token \in orphans : LoseOrphan(token)
    BY <2>3, <1>4, LoseOrphanInv
  <2> QED
    BY <1>1, <1>2, <1>3, <2>1, <2>2, <2>3 DEF Next

\* The client and the coordinator implement RowStream: what Tableau or a menu is given is
\* the rows of the query, and the end comes with or after the last, unless it is an error.
THEOREM RowsAreAStream == Spec => ImplementsRowStream
<1>1. Init => Stream!Init
  <2> SUFFICES ASSUME Init PROVE Stream!Init
    OBVIOUS
  <2>1. RowCount \in Nat
    BY ResultsAssumption DEF RowCount
  <2>2. Over = FALSE
    BY DEF Init, Over
  <2> QED
    BY <2>1, <2>2 DEF Init, Stream!Init
<1>2. Inv /\ [Next]_vars => [Stream!Next]_<< RowCount, delivered, Over >>
  BY StreamStep
<1> QED
  BY <1>1, <1>2, StatementInvariant, PTL DEF Spec, ImplementsRowStream, Stream!Spec, Stream!vars
=============================================================================
