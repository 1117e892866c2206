---------------------------- MODULE WorkerStatus ----------------------------
(***************************************************************************)
(* The page of a worker (WorkerStatus.jsx), which polls the worker's       *)
(* status every second, over the worker's memory pools.  The worker reads  *)
(* its pools one after the other (LocalMemoryManager.getInfo), while       *)
(* queries reserve, free and move.  Of the four charts the one of the heap *)
(* and the one of the memory outside it are kept; the two of the           *)
(* processor are treated as the first.                                     *)
(***************************************************************************)
EXTENDS MemoryPool, Sparklines

CONSTANTS HeapUsed, HeapAvailable,  \* what the heap may hold, and its size
          NonHeapUsed,              \* what may be used outside it
          MaxAnswers, MaxFailures   \* bounds

VARIABLES serverInfo,  \* what the page knows, or Null
          initialized,
          heapPercentUsed, nonHeapUsed,
          timer,
          request,     \* its phase, "none", "sent" or "half", and then what the first pool said
          answers, failures

pageVars == << serverInfo, initialized, heapPercentUsed, nonHeapUsed, timer, request, answers, failures >>
vars == << poolVars, pageVars >>

Init ==
    /\ PoolInit
    /\ serverInfo = Null /\ initialized = FALSE
    /\ heapPercentUsed = << >> /\ nonHeapUsed = << >>
    /\ timer = FALSE /\ request = [phase |-> "sent"]
    /\ answers = 0 /\ failures = 0

\* What a pool says of itself; reserved or revocable bytes that are zero have no entry.
getInfo(p) ==
    LET Entries(f) == [q \in {x \in Queries : f[x] > 0} |-> f[q]]
    IN  [ maxBytes |-> maxBytes[p],
          reservedBytes |-> reservedBytes[p],
          reservedRevocableBytes |-> reservedRevocableBytes[p],
          queryMemoryReservations |-> Entries(queryMemoryReservations[p]),
          queryMemoryRevocableReservations |-> Entries(queryMemoryRevocableReservations[p]) ]

\* mutant: the general pool first
GeneralFirst == << GENERAL_POOL, RESERVED_POOL >>

\* The order in which the worker reads its pools, the order they were made in.
PoolOrder == << RESERVED_POOL, GENERAL_POOL >>

\* A pool is read under its monitor, which a move holds on the general one.
Readable(p) == moving # Null => p # GENERAL_POOL

\* The worker reads its first pool.
readFirstPool ==
    /\ request.phase = "sent" /\ Readable(PoolOrder[1])
    /\ request' = [phase |-> "half", info |-> getInfo(PoolOrder[1])]
    /\ UNCHANGED << poolVars, serverInfo, initialized, heapPercentUsed, nonHeapUsed, timer, answers, failures >>

\* There is no query and no end on this page.
resetTimer == timer' = TRUE

refreshLoop ==
    /\ timer
    /\ timer' = FALSE /\ request' = [phase |-> "sent"]
    /\ UNCHANGED << poolVars, serverInfo, initialized, heapPercentUsed, nonHeapUsed, answers, failures >>

\* The worker reads the other pool and answers.
ReceiveStatus(heap, nonHeap) ==
    /\ request.phase = "half" /\ Readable(PoolOrder[2])
    /\ answers < MaxAnswers /\ answers' = answers + 1
    /\ request' = [phase |-> "none"]
    /\ serverInfo' = [ pools |-> [p \in Pools |-> IF p = PoolOrder[1] THEN request.info ELSE getInfo(p)],
                       heapAvailable |-> HeapAvailable, heapUsed |-> heap, nonHeapUsed |-> nonHeap ]
    /\ initialized' = TRUE
    /\ heapPercentUsed' = addToHistory((heap * 100) \div HeapAvailable, heapPercentUsed)
    /\ nonHeapUsed' = addToHistory(nonHeap * 100, nonHeapUsed)
    /\ resetTimer
    /\ UNCHANGED << poolVars, failures >>

ReceiveError ==
    /\ request.phase # "none"
    /\ failures < MaxFailures /\ failures' = failures + 1
    /\ request' = [phase |-> "none"] /\ initialized' = TRUE
    /\ resetTimer
    /\ UNCHANGED << poolVars, serverInfo, heapPercentUsed, nonHeapUsed, answers >>

Next ==
    \/ PoolNext /\ UNCHANGED pageVars
    \/ refreshLoop
    \/ readFirstPool
    \/ \E heap \in HeapUsed, nonHeap \in NonHeapUsed : ReceiveStatus(heap, nonHeap)
    \/ ReceiveError

Spec == Init /\ [][Next]_vars

-----------------------------------------------------------------------------
(* What the page shows. *)

\* Math.round(n * 100.0 / size), halves up.
Percent(n, size) == (200 * n + size) \div (2 * size)

\* The width of a part of the bar: nothing for nothing, else at least 15.
Part(n, size) == IF n = 0 THEN 0 ELSE IF Percent(n, size) < 15 THEN 15 ELSE Percent(n, size)

renderPoolBar(pool) ==
    LET nonRevocable == pool.reservedBytes - pool.reservedRevocableBytes
        percentageReservedNonRevocable == Part(nonRevocable, pool.maxBytes)
        percentageRevocable == Part(pool.reservedRevocableBytes, pool.maxBytes)
    IN  [ total |-> pool.maxBytes,
          reserved |-> [width |-> percentageReservedNonRevocable, bytes |-> nonRevocable],
          revocable |-> [width |-> percentageRevocable, bytes |-> pool.reservedRevocableBytes],
          free |-> [width |-> 100 - (percentageRevocable + percentageReservedNonRevocable),
                    bytes |-> pool.maxBytes - pool.reservedBytes] ]

\* The queries a pool's table has a row for; none: "No queries using pool".
listedQueries(pool) == DOMAIN pool.queryMemoryReservations \cup DOMAIN pool.queryMemoryRevocableReservations

renderPoolQuery(query, reserved, rev, total) ==
    [query |-> query, percent |-> Percent(reserved, total), reserved |-> reserved, revocable |-> rev]

renderPoolQueries(pool) ==
    LET Entry(f, q) == IF q \in DOMAIN f THEN f[q] ELSE 0
    IN  { renderPoolQuery(q, Entry(pool.queryMemoryReservations, q), Entry(pool.queryMemoryRevocableReservations, q),
                          pool.maxBytes) : q \in listedQueries(pool) }

\* Before the first answer.
Unloaded == [page |-> IF initialized THEN "Node information could not be loaded" ELSE "Loading..."]

Screen ==
    IF serverInfo = Null THEN Unloaded
    ELSE [ page |-> "node",
           heap |-> serverInfo.heapAvailable,
           heapUtilization |-> heapPercentUsed[Len(heapPercentUsed)],
           nonHeapMemoryUsed |-> nonHeapUsed[Len(nonHeapUsed)],
           bars |-> [p \in Pools |-> renderPoolBar(serverInfo.pools[p])],
           rows |-> [p \in Pools |-> renderPoolQueries(serverInfo.pools[p])] ]

-----------------------------------------------------------------------------
(* Properties. *)

\* No query has a row in both tables, whatever moves while the worker reads its pools:
\* it reads the pool queries move to first.
QueryIsInOnePool ==
    serverInfo # Null =>
        \A r \in Screen.rows[GENERAL_POOL], s \in Screen.rows[RESERVED_POOL] : r.query # s.query

\* The rows of a table, one for each query with bytes of either kind, add up to what the
\* pool says it holds.
RowsAddUp ==
    serverInfo # Null =>
        \A p \in Pools :
            LET pool == serverInfo.pools[p]
                rows == Screen.rows[p]
            IN  /\ MapThenSumSet(LAMBDA r : r.reserved, rows) = pool.reservedBytes
                /\ MapThenSumSet(LAMBDA r : r.revocable, rows) = pool.reservedRevocableBytes
                /\ Cardinality({r.query : r \in rows}) = Cardinality(rows)

\* The page never stops asking, and asks once at a time.
PollingNeverStops == timer # (request.phase # "none")
=============================================================================
