----------------------------- MODULE MemoryPool -----------------------------
(***************************************************************************)
(* The general and the reserved memory pool of a worker (MemoryPool.java)  *)
(* and the query contexts through which drivers reserve and free memory    *)
(* (QueryContext.java).  A pool is a monitor: each operation on it is one  *)
(* step, except a move, which holds the monitor of the query and of the    *)
(* pool the query leaves while it takes that of the other pool twice.      *)
(***************************************************************************)
EXTENDS Integers, FiniteSetsExt

CONSTANTS Queries, Drivers,
          DriverQuery,      \* the query a driver works for
          Tags,             \* the operators memory is reserved for
          MOVE_QUERY_TAG,
          GENERAL_POOL, RESERVED_POOL,
          maxBytes,         \* the size of each pool
          Sizes,            \* the bytes of one call
          MaxBytesOfQuery,  \* bound: bytes of a kind one query has
          Null

Pools == {GENERAL_POOL, RESERVED_POOL}

ASSUME PoolAssumption ==
    /\ IsFiniteSet(Queries) /\ IsFiniteSet(Tags)
    /\ DriverQuery \in [Drivers -> Queries]
    /\ MOVE_QUERY_TAG \notin Tags
    /\ GENERAL_POOL # RESERVED_POOL
    /\ Null \notin Pools /\ Null \notin Queries
    /\ maxBytes \in [Pools -> Nat \ {0}]
    /\ Sizes \subseteq Nat
    /\ MaxBytesOfQuery \in Nat

VARIABLES reservedBytes, reservedRevocableBytes,
          future,                              \* a pool's future exists and is not done
          queryMemoryReservations, queryMemoryRevocableReservations,
          taggedMemoryAllocations,             \* zero: no entry
          memoryPool,                          \* the pool of a query
          waiting,                             \* the pool whose future a driver waits for, or Null
          moving,                              \* the query being moved, or Null
          moveFuture                           \* the pool whose future a move waits for, or Null

amounts == << reservedBytes, queryMemoryReservations, taggedMemoryAllocations >>
revocable == << reservedRevocableBytes, queryMemoryRevocableReservations >>
poolVars == << amounts, revocable, future, memoryPool, waiting, moving, moveFuture >>

PoolInit ==
    /\ reservedBytes = [p \in Pools |-> 0] /\ reservedRevocableBytes = [p \in Pools |-> 0]
    /\ future = [p \in Pools |-> FALSE]
    /\ queryMemoryReservations = [p \in Pools |-> [q \in Queries |-> 0]]
    /\ queryMemoryRevocableReservations = [p \in Pools |-> [q \in Queries |-> 0]]
    /\ taggedMemoryAllocations = [p \in Pools |-> [q \in Queries |-> [t \in Tags \cup {MOVE_QUERY_TAG} |-> 0]]]
    /\ memoryPool = [q \in Queries |-> GENERAL_POOL]
    /\ waiting = [d \in Drivers |-> Null]
    /\ moving = Null /\ moveFuture = [q \in Queries |-> Null]

getFreeBytes(p) == maxBytes[p] - reservedBytes[p] - reservedRevocableBytes[p]

\* The monitors of the query and of its pool are not held by a move.
Unlocked(q) == moving # Null => moving # q /\ memoryPool[q] # GENERAL_POOL

\* The wait for pool p that a reservation leaves, with the given bytes free after it.
Blocking(p, free) == IF free <= 0 THEN p ELSE Null

\* mutant: the drivers of a moved query are forgotten
completeFutureOnly(p, free) ==
    IF free > 0 /\ future[p]
    THEN /\ future' = [future EXCEPT ![p] = FALSE]
         /\ waiting' = [d \in Drivers |-> IF waiting[d] = p THEN Null ELSE waiting[d]]
         /\ moveFuture' = [q \in Queries |-> IF moveFuture[q] = p THEN Null ELSE moveFuture[q]]
    ELSE UNCHANGED << future, waiting, moveFuture >>

\* A release leaves the given bytes free: the future is completed if there are some,
\* which wakes who waits for it, and the drivers of the queries whose move waits for it.
completeFuture(p, free) ==
    IF free > 0 /\ future[p]
    THEN /\ future' = [future EXCEPT ![p] = FALSE]
         /\ waiting' = [d \in Drivers |->
                           IF \/ waiting[d] = p
                              \/ moveFuture[DriverQuery[d]] = p /\ moving # DriverQuery[d]
                           THEN Null ELSE waiting[d]]
         /\ moveFuture' = [q \in Queries |-> IF moveFuture[q] = p THEN Null ELSE moveFuture[q]]
    ELSE UNCHANGED << future, waiting, moveFuture >>

\* The bytes of a query and of a tag change by delta.
updateReservation(p, q, tag, delta) ==
    /\ queryMemoryReservations' = [queryMemoryReservations EXCEPT ![p][q] = @ + delta]
    /\ taggedMemoryAllocations' =
           [taggedMemoryAllocations EXCEPT ![p][q] =
               IF delta < 0 /\ queryMemoryReservations[p][q] + delta = 0
               THEN [t \in Tags \cup {MOVE_QUERY_TAG} |-> 0]
               ELSE [taggedMemoryAllocations[p][q] EXCEPT ![tag] = @ + delta]]
    /\ reservedBytes' = [reservedBytes EXCEPT ![p] = @ + delta]

updateRevocable(p, q, delta) ==
    /\ queryMemoryRevocableReservations' = [queryMemoryRevocableReservations EXCEPT ![p][q] = @ + delta]
    /\ reservedRevocableBytes' = [reservedRevocableBytes EXCEPT ![p] = @ + delta]

\* A driver that does not wait reserves memory and waits if there is none left.
reserve(d, tag, bytes) ==
    LET q == DriverQuery[d]
        p == memoryPool[q]
        free == getFreeBytes(p) - bytes
    IN  /\ waiting[d] = Null /\ Unlocked(q)
        /\ queryMemoryReservations[p][q] + bytes <= MaxBytesOfQuery
        /\ updateReservation(p, q, tag, bytes)
        /\ future' = [future EXCEPT ![p] = @ \/ free <= 0]
        /\ waiting' = [waiting EXCEPT ![d] = Blocking(p, free)]
        /\ UNCHANGED << revocable, memoryPool, moving, moveFuture >>

reserveRevocable(d, bytes) ==
    LET q == DriverQuery[d]
        p == memoryPool[q]
        free == getFreeBytes(p) - bytes
    IN  /\ waiting[d] = Null /\ Unlocked(q)
        /\ queryMemoryRevocableReservations[p][q] + bytes <= MaxBytesOfQuery
        /\ updateRevocable(p, q, bytes)
        /\ future' = [future EXCEPT ![p] = @ \/ free <= 0]
        /\ waiting' = [waiting EXCEPT ![d] = Blocking(p, free)]
        /\ UNCHANGED << amounts, memoryPool, moving, moveFuture >>

\* Memory is reserved only if there is enough; nobody waits.
tryReserve(d, tag, bytes) ==
    LET q == DriverQuery[d]
        p == memoryPool[q]
    IN  /\ waiting[d] = Null /\ Unlocked(q)
        /\ getFreeBytes(p) - bytes >= 0
        /\ queryMemoryReservations[p][q] + bytes <= MaxBytesOfQuery
        /\ updateReservation(p, q, tag, bytes)
        /\ UNCHANGED << revocable, future, waiting, memoryPool, moving, moveFuture >>

\* A query frees memory it has reserved for a tag, which the pool checks against what
\* it and the query have reserved.
free(q, tag, bytes) ==
    LET p == memoryPool[q]
    IN  /\ Unlocked(q)
        /\ bytes > 0 /\ bytes <= taggedMemoryAllocations[p][q][tag]
        /\ bytes <= reservedBytes[p] /\ bytes <= queryMemoryReservations[p][q]
        /\ updateReservation(p, q, tag, -bytes)
        /\ completeFuture(p, getFreeBytes(p) + bytes)
        /\ UNCHANGED << revocable, memoryPool, moving >>

freeRevocable(q, bytes) ==
    LET p == memoryPool[q]
    IN  /\ Unlocked(q)
        /\ bytes > 0 /\ bytes <= queryMemoryRevocableReservations[p][q]
        /\ bytes <= reservedRevocableBytes[p]
        /\ updateRevocable(p, q, -bytes)
        /\ completeFuture(p, getFreeBytes(p) + bytes)
        /\ UNCHANGED << amounts, memoryPool, moving >>

\* The first half of a move: the bytes are reserved in the other pool.
beginMoveQuery(q) ==
    LET bytes == queryMemoryReservations[GENERAL_POOL][q]
        left == getFreeBytes(RESERVED_POOL) - bytes
    IN  /\ moving = Null /\ memoryPool[q] = GENERAL_POOL
        /\ updateReservation(RESERVED_POOL, q, MOVE_QUERY_TAG, bytes)
        /\ future' = [future EXCEPT ![RESERVED_POOL] = @ \/ left <= 0]
        /\ moveFuture' = [moveFuture EXCEPT ![q] = Blocking(RESERVED_POOL, left)]
        /\ moving' = q
        /\ UNCHANGED << revocable, memoryPool, waiting >>

\* The tags a moved query has in its new pool.
movedTags(q) == taggedMemoryAllocations[GENERAL_POOL][q]

\* The second half: the bytes are freed here, the revocable ones change pool, the tags
\* are handed over, and the drivers of the query are woken unless the move must wait.
endMoveQuery ==
    LET q == moving
        bytes == queryMemoryReservations[GENERAL_POOL][q]
        revocableBytes == queryMemoryRevocableReservations[GENERAL_POOL][q]
        left == getFreeBytes(RESERVED_POOL) - revocableBytes
        released == getFreeBytes(GENERAL_POOL) + bytes + revocableBytes > 0 /\ bytes + revocableBytes > 0
    IN  /\ moving # Null
        /\ bytes <= reservedBytes[GENERAL_POOL] /\ revocableBytes <= reservedRevocableBytes[GENERAL_POOL]
        /\ queryMemoryReservations' = [queryMemoryReservations EXCEPT ![GENERAL_POOL][q] = 0]
        /\ reservedBytes' = [reservedBytes EXCEPT ![GENERAL_POOL] = @ - bytes]
        /\ queryMemoryRevocableReservations' =
               [queryMemoryRevocableReservations EXCEPT ![GENERAL_POOL][q] = 0, ![RESERVED_POOL][q] = @ + revocableBytes]
        /\ reservedRevocableBytes' =
               [reservedRevocableBytes EXCEPT ![GENERAL_POOL] = @ - revocableBytes, ![RESERVED_POOL] = @ + revocableBytes]
        /\ taggedMemoryAllocations' =
               [taggedMemoryAllocations EXCEPT ![GENERAL_POOL][q] = [t \in Tags \cup {MOVE_QUERY_TAG} |-> 0],
                                               ![RESERVED_POOL][q] = movedTags(q)]
        /\ future' = [future EXCEPT ![GENERAL_POOL] = @ /\ ~released, ![RESERVED_POOL] = @ \/ left <= 0]
        /\ waiting' = [d \in Drivers |->
                          IF \/ waiting[d] = GENERAL_POOL /\ released
                             \/ DriverQuery[d] = q /\ moveFuture[q] = Null
                          THEN Null ELSE waiting[d]]
        /\ memoryPool' = [memoryPool EXCEPT ![q] = RESERVED_POOL]
        /\ moving' = Null
        /\ UNCHANGED moveFuture

PoolNext ==
    \/ \E d \in Drivers, tag \in Tags, bytes \in Sizes : reserve(d, tag, bytes) \/ tryReserve(d, tag, bytes)
    \/ \E d \in Drivers, bytes \in Sizes : reserveRevocable(d, bytes)
    \/ \E q \in Queries, tag \in Tags, bytes \in Sizes : free(q, tag, bytes)
    \/ \E q \in Queries, bytes \in Sizes : freeRevocable(q, bytes)
    \/ \E q \in Queries : beginMoveQuery(q)
    \/ endMoveQuery

PoolSpec == PoolInit /\ [][PoolNext]_poolVars

-----------------------------------------------------------------------------
(* Properties. *)

PoolTypeOK ==
    /\ reservedBytes \in [Pools -> Nat] /\ reservedRevocableBytes \in [Pools -> Nat]
    /\ future \in [Pools -> BOOLEAN]
    /\ queryMemoryReservations \in [Pools -> [Queries -> Nat]]
    /\ queryMemoryRevocableReservations \in [Pools -> [Queries -> Nat]]
    /\ taggedMemoryAllocations \in [Pools -> [Queries -> [Tags \cup {MOVE_QUERY_TAG} -> Nat]]]
    /\ memoryPool \in [Queries -> Pools]
    /\ waiting \in [Drivers -> Pools \cup {Null}]
    /\ moving \in Queries \cup {Null}
    /\ moveFuture \in [Queries -> {RESERVED_POOL, Null}]

\* Nobody misses the wake-up: a driver waits only while the pool its query is in now,
\* moved or not, has nothing free.
WaitsOnlyWhenFull ==
    \A d \in Drivers : waiting[d] # Null => getFreeBytes(memoryPool[DriverQuery[d]]) <= 0

\* What the proof of WaitsOnlyWhenFull rests on: a future exists only in a full pool;
\* a driver, and the move of a query, wait for a future that exists; and a driver waits
\* for the future of its query's pool, or its query was moved and the move waits too.
PoolInv ==
    /\ PoolTypeOK
    /\ \A p \in Pools : future[p] => getFreeBytes(p) <= 0
    /\ \A d \in Drivers : waiting[d] # Null => future[waiting[d]]
    /\ \A q \in Queries : moveFuture[q] # Null => future[RESERVED_POOL]
    /\ moving # Null => memoryPool[moving] = GENERAL_POOL
    /\ \A d \in Drivers : waiting[d] # Null =>
          \/ waiting[d] = memoryPool[DriverQuery[d]]
          \/ memoryPool[DriverQuery[d]] = RESERVED_POOL /\ moveFuture[DriverQuery[d]] = RESERVED_POOL

\* The bytes of a pool are the bytes of its queries, and a query that is not being moved
\* has bytes in its own pool alone.
BytesAddUp ==
    \A p \in Pools :
        /\ reservedBytes[p] = MapThenSumSet(LAMBDA q : queryMemoryReservations[p][q], Queries)
        /\ reservedRevocableBytes[p] = MapThenSumSet(LAMBDA q : queryMemoryRevocableReservations[p][q], Queries)
        /\ \A q \in Queries : moving # q /\ memoryPool[q] # p =>
              queryMemoryReservations[p][q] = 0 /\ queryMemoryRevocableReservations[p][q] = 0

\* The tagged bytes of a query are all its bytes, and the tag of a move is not visible
\* once it is done, so that each operator can give back what it reserved.
TagsAddUp ==
    \A p \in Pools, q \in Queries :
        /\ queryMemoryReservations[p][q] =
              MapThenSumSet(LAMBDA t : taggedMemoryAllocations[p][q][t], Tags \cup {MOVE_QUERY_TAG})
        /\ moving # q => taggedMemoryAllocations[p][q][MOVE_QUERY_TAG] = 0
=============================================================================
