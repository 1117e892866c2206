-------------------------- MODULE MemoryPoolProofs --------------------------
(***************************************************************************)
(* Proofs about MemoryPool, the memory of a worker, for any queries,       *)
(* drivers, tags and pool sizes: types are kept, no driver is left waiting *)
(* by a pool with free memory, and the bytes of a pool are those of its    *)
(* queries and of their tags, whatever is reserved, freed and moved in     *)
(* between.  And about WorkerStatus, the page that shows them: each query  *)
(* is in one table, and the tables add up.                                 *)
(***************************************************************************)
EXTENDS WorkerStatus, SumTheorems

-----------------------------------------------------------------------------
(* The memory pools: who waits. *)


\* The pools are two, and the values that are not pools or queries are none.
LEMMA PoolFacts ==
    /\ GENERAL_POOL \in Pools /\ RESERVED_POOL \in Pools /\ GENERAL_POOL # RESERVED_POOL
    /\ Null \notin Pools /\ Null \notin Queries
    /\ \A p \in Pools : maxBytes[p] \in Nat
    /\ \A d \in Drivers : DriverQuery[d] \in Queries
    /\ \A bytes \in Sizes : bytes \in Nat
BY PoolAssumption DEF Pools

\* The free bytes of a pool are a number.
LEMMA FreeBytesType ==
    ASSUME PoolTypeOK, NEW p \in Pools
    PROVE  getFreeBytes(p) \in Int
BY PoolFacts DEF PoolTypeOK, getFreeBytes

\* updateReservation keeps the types when the query and the tag have as many bytes as
\* are taken away, and changes the pool's total by delta.
LEMMA UpdateReservationType ==
    ASSUME PoolTypeOK, NEW p \in Pools, NEW q \in Queries, NEW tag \in Tags \cup {MOVE_QUERY_TAG}, NEW delta \in Int,
           reservedBytes[p] + delta \in Nat,
           queryMemoryReservations[p][q] + delta \in Nat,
           taggedMemoryAllocations[p][q][tag] + delta \in Nat,
           updateReservation(p, q, tag, delta)
    PROVE  /\ reservedBytes' \in [Pools -> Nat]
           /\ queryMemoryReservations' \in [Pools -> [Queries -> Nat]]
           /\ taggedMemoryAllocations' \in [Pools -> [Queries -> [Tags \cup {MOVE_QUERY_TAG} -> Nat]]]
           /\ reservedBytes' = [reservedBytes EXCEPT ![p] = @ + delta]
<1>1. reservedBytes' \in [Pools -> Nat]
  BY DEF PoolTypeOK, updateReservation
<1>2. queryMemoryReservations' \in [Pools -> [Queries -> Nat]]
  BY DEF PoolTypeOK, updateReservation
<1>3. taggedMemoryAllocations' \in [Pools -> [Queries -> [Tags \cup {MOVE_QUERY_TAG} -> Nat]]]
  BY Zenon DEF PoolTypeOK, updateReservation
<1> QED
  BY <1>1, <1>2, <1>3, Zenon DEF updateReservation

\* Initially nothing is reserved and nobody waits.
LEMMA PoolInitInv == PoolInit => PoolInv
<1> SUFFICES ASSUME PoolInit PROVE PoolInv
  OBVIOUS
<1>1. PoolTypeOK
  BY PoolFacts DEF PoolInit, PoolTypeOK
<1> QED
  BY <1>1, PoolFacts DEF PoolInit, PoolInv

\* A reservation in pool p of a driver that does not wait, which makes the pool's
\* future if nothing is left: the rest of PoolInv.
LEMMA ReservationStep ==
    ASSUME PoolInv, NEW d \in Drivers, NEW p \in Pools, NEW left \in Int, PoolTypeOK',
           p = memoryPool[DriverQuery[d]], left <= getFreeBytes(p),
           waiting[d] = Null,
           getFreeBytes(p)' = left, \A r \in Pools \ {p} : getFreeBytes(r)' = getFreeBytes(r),
           future' = [future EXCEPT ![p] = @ \/ left <= 0],
           waiting' = [waiting EXCEPT ![d] = Blocking(p, left)],
           UNCHANGED << memoryPool, moving, moveFuture >>
    PROVE  PoolInv'
<1> DEFINE full == left <= 0
<1>a. \A r \in Pools : future'[r] <=> (future[r] \/ (r = p /\ full))
  <2>1. future \in [Pools -> BOOLEAN] /\ future' = [future EXCEPT ![p] = @ \/ full]
    BY DEF PoolInv, PoolTypeOK
  <2> HIDE DEF full
  <2> QED
    BY <2>1, Zenon
<1>1. \A r \in Pools : future'[r] => getFreeBytes(r)' <= 0
  <2> SUFFICES ASSUME NEW r \in Pools, future'[r] PROVE getFreeBytes(r)' <= 0
    OBVIOUS
  <2>1. CASE r = p
    <3>1. future[p] => getFreeBytes(p) <= 0
      BY DEF PoolInv
    <3>2. getFreeBytes(p) \in Int
      BY FreeBytesType DEF PoolInv
    <3>3. left <= 0
      BY <1>a, <2>1, <3>1, <3>2
    <3> QED
      BY <2>1, <3>3
  <2>2. CASE r # p
    BY <1>a, <2>2 DEF PoolInv
  <2> QED
    BY <2>1, <2>2
<1>2. \A r \in Pools : future[r] => future'[r]
  BY <1>a
<1>3. \A e \in Drivers : waiting'[e] # Null => future'[waiting'[e]]
  <2> SUFFICES ASSUME NEW e \in Drivers, waiting'[e] # Null PROVE future'[waiting'[e]]
    OBVIOUS
  <2>1. CASE e = d
    <3>1. waiting'[e] = Blocking(p, left)
      BY <2>1 DEF PoolInv, PoolTypeOK
    <3>2. waiting'[e] = p /\ full
      BY <3>1 DEF Blocking
    <3> QED
      BY <1>a, <3>2
  <2>2. CASE e # d
    <3>1. waiting'[e] = waiting[e] /\ waiting[e] \in Pools
      BY <2>2 DEF PoolInv, PoolTypeOK
    <3> QED
      BY <1>2, <3>1 DEF PoolInv
  <2> QED
    BY <2>1, <2>2
<1>4. \A q \in Queries : moveFuture'[q] # Null => future'[RESERVED_POOL]
  BY <1>2, PoolFacts DEF PoolInv, PoolTypeOK
<1>5. \A e \in Drivers : waiting'[e] # Null =>
          \/ waiting'[e] = memoryPool'[DriverQuery[e]]
          \/ memoryPool'[DriverQuery[e]] = RESERVED_POOL /\ moveFuture'[DriverQuery[e]] = RESERVED_POOL
  BY PoolFacts DEF PoolInv, PoolTypeOK, Blocking
<1> QED
  BY <1>1, <1>3, <1>4, <1>5 DEF PoolInv

\* A release in pool p, which completes the pool's future if something is left: the
\* rest of PoolInv.
LEMMA ReleaseStep ==
    ASSUME PoolInv, NEW p \in Pools, NEW left \in Int, PoolTypeOK',
           getFreeBytes(p)' = left, \A r \in Pools \ {p} : getFreeBytes(r)' = getFreeBytes(r),
           completeFuture(p, left),
           UNCHANGED << memoryPool, moving >>
    PROVE  PoolInv'
<1>1. CASE left > 0 /\ future[p]
  <2>1. /\ future' = [future EXCEPT ![p] = FALSE]
        /\ waiting' = [d \in Drivers |->
                          IF \/ waiting[d] = p
                             \/ moveFuture[DriverQuery[d]] = p /\ moving # DriverQuery[d]
                          THEN Null ELSE waiting[d]]
        /\ moveFuture' = [q \in Queries |-> IF moveFuture[q] = p THEN Null ELSE moveFuture[q]]
    BY <1>1 DEF completeFuture
  <2>2. \A r \in Pools : future'[r] => getFreeBytes(r)' <= 0
    BY <2>1 DEF PoolInv, PoolTypeOK
  <2>3. \A d \in Drivers : waiting'[d] # Null => future'[waiting'[d]]
    BY <2>1, PoolFacts DEF PoolInv, PoolTypeOK
  <2>4. \A q \in Queries : moveFuture'[q] # Null => future'[RESERVED_POOL]
    BY <2>1, PoolFacts DEF PoolInv, PoolTypeOK
  <2>5. ASSUME NEW d \in Drivers, waiting'[d] # Null
        PROVE  \/ waiting'[d] = memoryPool'[DriverQuery[d]]
               \/ memoryPool'[DriverQuery[d]] = RESERVED_POOL /\ moveFuture'[DriverQuery[d]] = RESERVED_POOL
    <3> DEFINE q == DriverQuery[d]
    <3>1. q \in Queries /\ memoryPool' = memoryPool
      BY PoolFacts
    <3> HIDE DEF q
    <3>2. waiting'[d] = waiting[d] /\ ~(moveFuture[q] = p /\ moving # q)
      BY <2>1, <2>5 DEF q
    <3>3. waiting[d] = memoryPool[q] \/ (memoryPool[q] = RESERVED_POOL /\ moveFuture[q] = RESERVED_POOL)
      BY <2>5, <3>2 DEF PoolInv, q
    <3>4. CASE memoryPool[q] = RESERVED_POOL /\ moveFuture[q] = RESERVED_POOL
      <4>1. moving # q
        BY <3>1, <3>4, PoolFacts DEF PoolInv
      <4>2. moveFuture'[q] = moveFuture[q]
        BY <2>1, <3>1, <3>2, <4>1
      <4> QED
        BY <3>1, <3>4, <4>2 DEF q
    <3> QED
      BY <3>1, <3>2, <3>3, <3>4 DEF q
  <2> QED
    BY <2>2, <2>3, <2>4, <2>5 DEF PoolInv
<1>2. CASE ~(left > 0 /\ future[p])
  <2>1. UNCHANGED << future, waiting, moveFuture >>
    BY <1>2 DEF completeFuture
  <2>2. \A r \in Pools : future'[r] => getFreeBytes(r)' <= 0
    <3>1. \A r \in Pools : future[r] => getFreeBytes(r) <= 0
      BY DEF PoolInv
    <3>2. future[p] => left <= 0
      BY <1>2
    <3> QED
      BY <2>1, <3>1, <3>2
  <2> QED
    BY <2>1, <2>2 DEF PoolInv
<1> QED
  BY <1>1, <1>2

\* What a reservation of driver d in its query's pool does to PoolInv, whatever kind of
\* memory it is.
LEMMA DriverPool ==
    ASSUME PoolInv, NEW d \in Drivers, NEW bytes \in Nat
    PROVE  \E q \in Queries, p \in Pools, left \in Int :
              /\ q = DriverQuery[d] /\ p = memoryPool[q] /\ left = getFreeBytes(p) - bytes
              /\ left <= getFreeBytes(p)
<1>1. DriverQuery[d] \in Queries /\ memoryPool[DriverQuery[d]] \in Pools /\ PoolTypeOK
  BY PoolFacts, Zenon DEF PoolInv, PoolTypeOK
<1>2. \A p \in Pools : getFreeBytes(p) \in Int
  BY <1>1, FreeBytesType
<1> QED
  BY <1>1, <1>2

\* The bytes of one query and tag of a pool change, and nothing else of its totals.
LEMMA FreeBytesStep ==
    ASSUME PoolTypeOK, NEW p \in Pools, NEW delta \in Int,
           \/ /\ reservedBytes' = [reservedBytes EXCEPT ![p] = @ + delta]
              /\ reservedRevocableBytes' = reservedRevocableBytes
           \/ /\ reservedRevocableBytes' = [reservedRevocableBytes EXCEPT ![p] = @ + delta]
              /\ reservedBytes' = reservedBytes
    PROVE  /\ getFreeBytes(p)' = getFreeBytes(p) - delta
           /\ \A r \in Pools \ {p} : getFreeBytes(r)' = getFreeBytes(r)
BY PoolFacts DEF PoolTypeOK, getFreeBytes

\* updateRevocable keeps the types when the query has as many bytes as are taken away.
LEMMA UpdateRevocableType ==
    ASSUME PoolTypeOK, NEW p \in Pools, NEW q \in Queries, NEW delta \in Int,
           reservedRevocableBytes[p] + delta \in Nat,
           queryMemoryRevocableReservations[p][q] + delta \in Nat,
           updateRevocable(p, q, delta)
    PROVE  /\ reservedRevocableBytes' \in [Pools -> Nat]
           /\ queryMemoryRevocableReservations' \in [Pools -> [Queries -> Nat]]
           /\ reservedRevocableBytes' = [reservedRevocableBytes EXCEPT ![p] = @ + delta]
BY DEF PoolTypeOK, updateRevocable

\* A step of the futures and the waits keeps their types.
LEMMA ReserveWaitType ==
    ASSUME PoolTypeOK, NEW d \in Drivers, NEW p \in Pools, NEW left \in Int,
           future' = [future EXCEPT ![p] = @ \/ left <= 0],
           waiting' = [waiting EXCEPT ![d] = Blocking(p, left)]
    PROVE  future' \in [Pools -> BOOLEAN] /\ waiting' \in [Drivers -> Pools \cup {Null}]
BY DEF PoolTypeOK, Blocking

LEMMA reserveInv ==
    ASSUME PoolInv, NEW d \in Drivers, NEW tag \in Tags, NEW bytes \in Sizes, reserve(d, tag, bytes)
    PROVE  PoolInv'
<1>1. bytes \in Nat /\ bytes \in Int /\ PoolTypeOK /\ tag \in Tags \cup {MOVE_QUERY_TAG}
  BY PoolFacts DEF PoolInv
<1>2. PICK q \in Queries, p \in Pools, left \in Int :
              /\ q = DriverQuery[d] /\ p = memoryPool[q] /\ left = getFreeBytes(p) - bytes
              /\ left <= getFreeBytes(p)
  BY <1>1, DriverPool
<1>3. /\ updateReservation(p, q, tag, bytes)
      /\ waiting[d] = Null
      /\ future' = [future EXCEPT ![p] = @ \/ left <= 0]
      /\ waiting' = [waiting EXCEPT ![d] = Blocking(p, left)]
      /\ UNCHANGED << reservedRevocableBytes, queryMemoryRevocableReservations, memoryPool, moving, moveFuture >>
  BY <1>2 DEF reserve, revocable
<1>4. /\ reservedBytes[p] + bytes \in Nat /\ queryMemoryReservations[p][q] + bytes \in Nat
      /\ taggedMemoryAllocations[p][q][tag] + bytes \in Nat
  BY <1>1 DEF PoolTypeOK
<1>5. /\ reservedBytes' \in [Pools -> Nat]
      /\ queryMemoryReservations' \in [Pools -> [Queries -> Nat]]
      /\ taggedMemoryAllocations' \in [Pools -> [Queries -> [Tags \cup {MOVE_QUERY_TAG} -> Nat]]]
      /\ reservedBytes' = [reservedBytes EXCEPT ![p] = @ + bytes]
  BY <1>1, <1>3, <1>4, UpdateReservationType, Zenon
<1>6. PoolTypeOK'
  BY <1>1, <1>3, <1>5, ReserveWaitType, Zenon DEF PoolTypeOK
<1>7. getFreeBytes(p)' = left /\ \A r \in Pools \ {p} : getFreeBytes(r)' = getFreeBytes(r)
  BY <1>1, <1>2, <1>3, <1>5, FreeBytesStep, Zenon
<1> QED
  BY <1>2, <1>3, <1>6, <1>7, ReservationStep, Zenon

LEMMA reserveRevocableInv ==
    ASSUME PoolInv, NEW d \in Drivers, NEW bytes \in Sizes, reserveRevocable(d, bytes)
    PROVE  PoolInv'
<1>1. bytes \in Nat /\ bytes \in Int /\ PoolTypeOK
  BY PoolFacts DEF PoolInv
<1>2. PICK q \in Queries, p \in Pools, left \in Int :
              /\ q = DriverQuery[d] /\ p = memoryPool[q] /\ left = getFreeBytes(p) - bytes
              /\ left <= getFreeBytes(p)
  BY <1>1, DriverPool
<1>3. /\ updateRevocable(p, q, bytes)
      /\ waiting[d] = Null
      /\ future' = [future EXCEPT ![p] = @ \/ left <= 0]
      /\ waiting' = [waiting EXCEPT ![d] = Blocking(p, left)]
      /\ UNCHANGED << amounts, memoryPool, moving, moveFuture >>
  BY <1>2 DEF reserveRevocable
<1>4. reservedRevocableBytes[p] + bytes \in Nat /\ queryMemoryRevocableReservations[p][q] + bytes \in Nat
  BY <1>1 DEF PoolTypeOK
<1>5. /\ reservedRevocableBytes' \in [Pools -> Nat]
      /\ queryMemoryRevocableReservations' \in [Pools -> [Queries -> Nat]]
      /\ reservedRevocableBytes' = [reservedRevocableBytes EXCEPT ![p] = @ + bytes]
  BY <1>1, <1>3, <1>4, UpdateRevocableType
<1>6. PoolTypeOK'
  BY <1>1, <1>3, <1>5, ReserveWaitType, Zenon DEF PoolTypeOK, amounts
<1>7. getFreeBytes(p)' = left /\ \A r \in Pools \ {p} : getFreeBytes(r)' = getFreeBytes(r)
  BY <1>1, <1>2, <1>3, <1>5, FreeBytesStep, Zenon DEF amounts
<1> QED
  BY <1>2, <1>3, <1>6, <1>7, ReservationStep, Zenon

LEMMA tryReserveInv ==
    ASSUME PoolInv, NEW d \in Drivers, NEW tag \in Tags, NEW bytes \in Sizes, tryReserve(d, tag, bytes)
    PROVE  PoolInv'
<1>1. bytes \in Nat /\ bytes \in Int /\ PoolTypeOK /\ tag \in Tags \cup {MOVE_QUERY_TAG}
  BY PoolFacts DEF PoolInv
<1>2. PICK q \in Queries, p \in Pools, left \in Int :
              /\ q = DriverQuery[d] /\ p = memoryPool[q] /\ left = getFreeBytes(p) - bytes
              /\ left <= getFreeBytes(p)
  BY <1>1, DriverPool
<1>3. /\ updateReservation(p, q, tag, bytes)
      /\ UNCHANGED << reservedRevocableBytes, queryMemoryRevocableReservations, future, waiting, memoryPool, moving, moveFuture >>
  BY <1>2, Zenon DEF tryReserve, revocable
<1>4. /\ reservedBytes[p] + bytes \in Nat /\ queryMemoryReservations[p][q] + bytes \in Nat
      /\ taggedMemoryAllocations[p][q][tag] + bytes \in Nat
  BY <1>1 DEF PoolTypeOK
<1>5. /\ reservedBytes' \in [Pools -> Nat]
      /\ queryMemoryReservations' \in [Pools -> [Queries -> Nat]]
      /\ taggedMemoryAllocations' \in [Pools -> [Queries -> [Tags \cup {MOVE_QUERY_TAG} -> Nat]]]
      /\ reservedBytes' = [reservedBytes EXCEPT ![p] = @ + bytes]
  BY <1>1, <1>3, <1>4, UpdateReservationType, Zenon
<1>6. PoolTypeOK'
  BY <1>1, <1>3, <1>5, Zenon DEF PoolTypeOK
<1>7. getFreeBytes(p)' = left /\ \A r \in Pools \ {p} : getFreeBytes(r)' = getFreeBytes(r)
  BY <1>1, <1>2, <1>3, <1>5, FreeBytesStep, Zenon
<1>8. ASSUME NEW r \in Pools, future'[r]
      PROVE  getFreeBytes(r)' <= 0
  <2>1. getFreeBytes(r) <= 0 /\ getFreeBytes(r) \in Int
    BY <1>1, <1>3, <1>8, FreeBytesType DEF PoolInv
  <2>2. CASE r = p
    BY <1>2, <1>7, <2>1, <2>2
  <2>3. CASE r # p
    BY <1>7, <2>1, <2>3
  <2> QED
    BY <2>2, <2>3
<1> QED
  BY <1>3, <1>6, <1>8 DEF PoolInv

\* completeFuture keeps the types of the futures and the waits.
LEMMA CompleteFutureType ==
    ASSUME PoolTypeOK, NEW p \in Pools, NEW left \in Int, completeFuture(p, left)
    PROVE  /\ future' \in [Pools -> BOOLEAN]
           /\ waiting' \in [Drivers -> Pools \cup {Null}]
           /\ moveFuture' \in [Queries -> {RESERVED_POOL, Null}]
BY Zenon DEF PoolTypeOK, completeFuture

LEMMA freeInv ==
    ASSUME PoolInv, NEW q \in Queries, NEW tag \in Tags, NEW bytes \in Sizes, free(q, tag, bytes)
    PROVE  PoolInv'
<1>1. bytes \in Nat /\ -bytes \in Int /\ PoolTypeOK /\ tag \in Tags \cup {MOVE_QUERY_TAG}
  BY PoolFacts DEF PoolInv
<1>2. PICK p \in Pools : p = memoryPool[q]
  BY <1>1 DEF PoolTypeOK
<1>3. PICK left \in Int : left = getFreeBytes(p) + bytes
  BY <1>1, FreeBytesType
<1>4. /\ updateReservation(p, q, tag, -bytes)
      /\ completeFuture(p, left)
      /\ bytes <= taggedMemoryAllocations[p][q][tag]
      /\ bytes <= reservedBytes[p] /\ bytes <= queryMemoryReservations[p][q]
      /\ UNCHANGED << reservedRevocableBytes, queryMemoryRevocableReservations, memoryPool, moving >>
  BY <1>2, <1>3 DEF free, revocable
<1>5. /\ reservedBytes[p] + (-bytes) \in Nat /\ queryMemoryReservations[p][q] + (-bytes) \in Nat
      /\ taggedMemoryAllocations[p][q][tag] + (-bytes) \in Nat
  BY <1>1, <1>4 DEF PoolTypeOK
<1>6. /\ reservedBytes' \in [Pools -> Nat]
      /\ queryMemoryReservations' \in [Pools -> [Queries -> Nat]]
      /\ taggedMemoryAllocations' \in [Pools -> [Queries -> [Tags \cup {MOVE_QUERY_TAG} -> Nat]]]
      /\ reservedBytes' = [reservedBytes EXCEPT ![p] = @ + (-bytes)]
  BY <1>1, <1>4, <1>5, UpdateReservationType, Zenon
<1>7. PoolTypeOK'
  BY <1>1, <1>4, <1>6, CompleteFutureType, Zenon DEF PoolTypeOK
<1>8. getFreeBytes(p)' = left /\ \A r \in Pools \ {p} : getFreeBytes(r)' = getFreeBytes(r)
  <2>1. /\ getFreeBytes(p)' = getFreeBytes(p) - (-bytes)
        /\ \A r \in Pools \ {p} : getFreeBytes(r)' = getFreeBytes(r)
    BY <1>1, <1>4, <1>6, FreeBytesStep, Zenon
  <2> QED
    BY <1>1, <1>3, <2>1, FreeBytesType
<1> QED
  BY <1>4, <1>7, <1>8, ReleaseStep

LEMMA freeRevocableInv ==
    ASSUME PoolInv, NEW q \in Queries, NEW bytes \in Sizes, freeRevocable(q, bytes)
    PROVE  PoolInv'
<1>1. bytes \in Nat /\ -bytes \in Int /\ PoolTypeOK
  BY PoolFacts DEF PoolInv
<1>2. PICK p \in Pools : p = memoryPool[q]
  BY <1>1 DEF PoolTypeOK
<1>3. PICK left \in Int : left = getFreeBytes(p) + bytes
  BY <1>1, FreeBytesType
<1>4. /\ updateRevocable(p, q, -bytes)
      /\ completeFuture(p, left)
      /\ bytes <= reservedRevocableBytes[p] /\ bytes <= queryMemoryRevocableReservations[p][q]
      /\ UNCHANGED << reservedBytes, queryMemoryReservations, taggedMemoryAllocations, memoryPool, moving >>
  BY <1>2, <1>3 DEF freeRevocable, amounts
<1>5. reservedRevocableBytes[p] + (-bytes) \in Nat /\ queryMemoryRevocableReservations[p][q] + (-bytes) \in Nat
  BY <1>1, <1>4 DEF PoolTypeOK
<1>6. /\ reservedRevocableBytes' \in [Pools -> Nat]
      /\ queryMemoryRevocableReservations' \in [Pools -> [Queries -> Nat]]
      /\ reservedRevocableBytes' = [reservedRevocableBytes EXCEPT ![p] = @ + (-bytes)]
  BY <1>1, <1>4, <1>5, UpdateRevocableType
<1>7. PoolTypeOK'
  BY <1>1, <1>4, <1>6, CompleteFutureType, Zenon DEF PoolTypeOK
<1>8. getFreeBytes(p)' = left /\ \A r \in Pools \ {p} : getFreeBytes(r)' = getFreeBytes(r)
  <2>1. /\ getFreeBytes(p)' = getFreeBytes(p) - (-bytes)
        /\ \A r \in Pools \ {p} : getFreeBytes(r)' = getFreeBytes(r)
    BY <1>1, <1>4, <1>6, FreeBytesStep, Zenon
  <2> QED
    BY <1>1, <1>3, <2>1, FreeBytesType
<1> QED
  BY <1>4, <1>7, <1>8, ReleaseStep, Zenon

LEMMA beginMoveQueryInv ==
    ASSUME PoolInv, NEW q \in Queries, beginMoveQuery(q)
    PROVE  PoolInv'
<1>1. PoolTypeOK /\ RESERVED_POOL \in Pools /\ GENERAL_POOL \in Pools /\ MOVE_QUERY_TAG \in Tags \cup {MOVE_QUERY_TAG}
  BY PoolFacts, Zenon DEF PoolInv
<1>2. PICK bytes \in Nat : bytes = queryMemoryReservations[GENERAL_POOL][q]
  BY <1>1 DEF PoolTypeOK
<1>3. PICK left \in Int : left = getFreeBytes(RESERVED_POOL) - bytes
  BY <1>1, FreeBytesType
<1> DEFINE full == left <= 0
<1>4. /\ updateReservation(RESERVED_POOL, q, MOVE_QUERY_TAG, bytes)
      /\ memoryPool[q] = GENERAL_POOL
      /\ future' = [future EXCEPT ![RESERVED_POOL] = @ \/ full]
      /\ moveFuture' = [moveFuture EXCEPT ![q] = Blocking(RESERVED_POOL, left)]
      /\ moving' = q
      /\ UNCHANGED << reservedRevocableBytes, queryMemoryRevocableReservations, memoryPool, waiting >>
  BY <1>2, <1>3 DEF beginMoveQuery, revocable
<1>5. /\ reservedBytes[RESERVED_POOL] + bytes \in Nat /\ queryMemoryReservations[RESERVED_POOL][q] + bytes \in Nat
      /\ taggedMemoryAllocations[RESERVED_POOL][q][MOVE_QUERY_TAG] + bytes \in Nat
      /\ bytes \in Int
  BY <1>1 DEF PoolTypeOK
<1>6. /\ reservedBytes' \in [Pools -> Nat]
      /\ queryMemoryReservations' \in [Pools -> [Queries -> Nat]]
      /\ taggedMemoryAllocations' \in [Pools -> [Queries -> [Tags \cup {MOVE_QUERY_TAG} -> Nat]]]
      /\ reservedBytes' = [reservedBytes EXCEPT ![RESERVED_POOL] = @ + bytes]
  BY <1>1, <1>4, <1>5, UpdateReservationType, Zenon
<1>7. /\ getFreeBytes(RESERVED_POOL)' = left
      /\ \A r \in Pools \ {RESERVED_POOL} : getFreeBytes(r)' = getFreeBytes(r)
  BY <1>1, <1>3, <1>4, <1>5, <1>6, FreeBytesStep, Zenon
<1>8. future' \in [Pools -> BOOLEAN] /\ \A r \in Pools : future'[r] <=> (future[r] \/ (r = RESERVED_POOL /\ full))
  <2>1. future \in [Pools -> BOOLEAN]
    BY <1>1 DEF PoolTypeOK
  <2> HIDE DEF full
  <2> QED
    BY <1>1, <1>4, <2>1, Zenon
<1>9. PoolTypeOK'
  <2>1. moveFuture' \in [Queries -> {RESERVED_POOL, Null}]
    BY <1>1, <1>4 DEF PoolTypeOK, Blocking
  <2> QED
    BY <1>1, <1>4, <1>6, <1>8, <2>1, Zenon DEF PoolTypeOK
<1>10. ASSUME NEW r \in Pools, future'[r]
       PROVE  getFreeBytes(r)' <= 0
  <2>1. CASE r = RESERVED_POOL
    <3>1. future[r] => getFreeBytes(r) <= 0
      BY DEF PoolInv
    <3>2. getFreeBytes(r) \in Int
      BY <1>1, FreeBytesType
    <3> QED
      BY <1>3, <1>7, <1>8, <1>10, <2>1, <3>1, <3>2
  <2>2. CASE r # RESERVED_POOL
    BY <1>7, <1>8, <1>10, <2>2 DEF PoolInv
  <2> QED
    BY <2>1, <2>2
<1>11. \A d \in Drivers : waiting'[d] # Null => future'[waiting'[d]]
  BY <1>1, <1>4, <1>8 DEF PoolInv, PoolTypeOK
<1>12. ASSUME NEW x \in Queries, moveFuture'[x] # Null
       PROVE  future'[RESERVED_POOL]
  <2>1. CASE x = q
    <3>1. moveFuture'[q] = Blocking(RESERVED_POOL, left)
      BY <1>1, <1>4 DEF PoolTypeOK
    <3>2. full
      BY <1>12, <2>1, <3>1 DEF Blocking
    <3> QED
      BY <1>1, <1>8, <3>2
  <2>2. CASE x # q
    <3>1. moveFuture[x] # Null
      BY <1>1, <1>4, <1>12, <2>2 DEF PoolTypeOK
    <3> QED
      BY <1>1, <1>8, <3>1 DEF PoolInv
  <2> QED
    BY <2>1, <2>2
<1>13. ASSUME NEW d \in Drivers, waiting'[d] # Null
       PROVE  \/ waiting'[d] = memoryPool'[DriverQuery[d]]
              \/ memoryPool'[DriverQuery[d]] = RESERVED_POOL /\ moveFuture'[DriverQuery[d]] = RESERVED_POOL
  BY <1>1, <1>4, <1>13, PoolFacts, Zenon DEF PoolInv, PoolTypeOK
<1> QED
  BY <1>4, <1>9, <1>10, <1>11, <1>12, <1>13, Zenon DEF PoolInv

\* What the end of a move does to the totals and the futures of the two pools.
LEMMA EndMoveFacts ==
    ASSUME PoolInv, NEW q \in Queries, q = moving, endMoveQuery
    PROVE  /\ PoolTypeOK'
           /\ \A r \in Pools : future'[r] => getFreeBytes(r)' <= 0
           /\ \A d \in Drivers : waiting'[d] # Null => waiting'[d] = waiting[d] /\ future'[waiting[d]]
           /\ future[RESERVED_POOL] => future'[RESERVED_POOL]
<1>1. PoolTypeOK /\ RESERVED_POOL \in Pools /\ GENERAL_POOL \in Pools /\ GENERAL_POOL # RESERVED_POOL
  BY PoolFacts DEF PoolInv
<1>2. PICK bytes \in Nat, revocableBytes \in Nat :
          /\ bytes = queryMemoryReservations[GENERAL_POOL][q]
          /\ revocableBytes = queryMemoryRevocableReservations[GENERAL_POOL][q]
  BY <1>1 DEF PoolTypeOK
<1>3. PICK left \in Int, freed \in Int : left = getFreeBytes(RESERVED_POOL) - revocableBytes
                            /\ freed = getFreeBytes(GENERAL_POOL) + bytes + revocableBytes
  BY <1>1, FreeBytesType
<1> DEFINE full == left <= 0
           released == freed > 0 /\ bytes + revocableBytes > 0
<1>4. /\ bytes <= reservedBytes[GENERAL_POOL] /\ revocableBytes <= reservedRevocableBytes[GENERAL_POOL]
      /\ queryMemoryReservations' = [queryMemoryReservations EXCEPT ![GENERAL_POOL][q] = 0]
      /\ reservedBytes' = [reservedBytes EXCEPT ![GENERAL_POOL] = @ - bytes]
      /\ queryMemoryRevocableReservations' =
             [queryMemoryRevocableReservations EXCEPT ![GENERAL_POOL][q] = 0, ![RESERVED_POOL][q] = @ + revocableBytes]
      /\ reservedRevocableBytes' =
             [reservedRevocableBytes EXCEPT ![GENERAL_POOL] = @ - revocableBytes, ![RESERVED_POOL] = @ + revocableBytes]
      /\ taggedMemoryAllocations' =
             [taggedMemoryAllocations EXCEPT ![GENERAL_POOL][q] = [t \in Tags \cup {MOVE_QUERY_TAG} |-> 0],
                                             ![RESERVED_POOL][q] = movedTags(q)]
      /\ future' = [future EXCEPT ![GENERAL_POOL] = @ /\ ~released, ![RESERVED_POOL] = @ \/ full]
      /\ waiting' = [d \in Drivers |->
                        IF \/ waiting[d] = GENERAL_POOL /\ released
                           \/ DriverQuery[d] = q /\ moveFuture[q] = Null
                        THEN Null ELSE waiting[d]]
      /\ memoryPool' = [memoryPool EXCEPT ![q] = RESERVED_POOL]
      /\ moving' = Null
      /\ UNCHANGED moveFuture
  BY <1>2, <1>3, Zenon DEF endMoveQuery
<1>5. /\ future' \in [Pools -> BOOLEAN]
      /\ future'[GENERAL_POOL] <=> future[GENERAL_POOL] /\ ~released
      /\ future'[RESERVED_POOL] <=> future[RESERVED_POOL] \/ full
  <2>1. future \in [Pools -> BOOLEAN]
    BY <1>1 DEF PoolTypeOK
  <2> HIDE DEF full, released
  <2> QED
    BY <1>1, <1>4, <2>1, Zenon
<1>6. PoolTypeOK'
  <2>1. reservedBytes' \in [Pools -> Nat]
    BY <1>1, <1>2, <1>4 DEF PoolTypeOK
  <2>2. reservedRevocableBytes' \in [Pools -> Nat]
    <3> DEFINE left0 == [reservedRevocableBytes EXCEPT ![GENERAL_POOL] = @ - revocableBytes]
    <3>1. left0 \in [Pools -> Nat]
      BY <1>1, <1>2, <1>4 DEF PoolTypeOK
    <3>2. reservedRevocableBytes' = [left0 EXCEPT ![RESERVED_POOL] = left0[RESERVED_POOL] + revocableBytes]
      BY <1>1, <1>4, Zenon DEF PoolTypeOK
    <3> HIDE DEF left0
    <3> QED
      BY <1>1, <1>2, <3>1, <3>2
  <2>3. queryMemoryReservations' \in [Pools -> [Queries -> Nat]]
    BY <1>1, <1>4, Zenon DEF PoolTypeOK
  <2>4. queryMemoryRevocableReservations' \in [Pools -> [Queries -> Nat]]
    <3> DEFINE left0 == [queryMemoryRevocableReservations EXCEPT ![GENERAL_POOL][q] = 0]
    <3>1. left0 \in [Pools -> [Queries -> Nat]]
      BY <1>1 DEF PoolTypeOK
    <3>2. queryMemoryRevocableReservations' = [left0 EXCEPT ![RESERVED_POOL][q] = left0[RESERVED_POOL][q] + revocableBytes]
      BY <1>1, <1>4, Zenon DEF PoolTypeOK
    <3> HIDE DEF left0
    <3> QED
      BY <1>1, <1>2, <3>1, <3>2
  <2>5. taggedMemoryAllocations' \in [Pools -> [Queries -> [Tags \cup {MOVE_QUERY_TAG} -> Nat]]]
    <3> DEFINE left0 == [taggedMemoryAllocations EXCEPT ![GENERAL_POOL][q] = [t \in Tags \cup {MOVE_QUERY_TAG} |-> 0]]
    <3>1. left0 \in [Pools -> [Queries -> [Tags \cup {MOVE_QUERY_TAG} -> Nat]]]
      BY <1>1, Zenon DEF PoolTypeOK
    <3>2. movedTags(q) \in [Tags \cup {MOVE_QUERY_TAG} -> Nat]
      <4>1. taggedMemoryAllocations \in [Pools -> [Queries -> [Tags \cup {MOVE_QUERY_TAG} -> Nat]]]
        BY <1>1, Zenon DEF PoolTypeOK
      <4>2. taggedMemoryAllocations[GENERAL_POOL] \in [Queries -> [Tags \cup {MOVE_QUERY_TAG} -> Nat]]
        BY <1>1, <4>1, Zenon
      <4> QED
        BY <4>2, Zenon DEF movedTags
    <3>3. taggedMemoryAllocations' = [left0 EXCEPT ![RESERVED_POOL][q] = movedTags(q)]
      BY <1>4, Zenon
    <3> HIDE DEF left0
    <3> QED
      BY <1>1, <3>1, <3>2, <3>3, Zenon
  <2>6. waiting' \in [Drivers -> Pools \cup {Null}] /\ memoryPool' \in [Queries -> Pools]
    BY <1>1, <1>4, Zenon DEF PoolTypeOK
  <2> QED
    BY <1>1, <1>4, <1>5, <2>1, <2>2, <2>3, <2>4, <2>5, <2>6, Zenon DEF PoolTypeOK
<1>7. getFreeBytes(GENERAL_POOL)' = freed /\ getFreeBytes(RESERVED_POOL)' = left
  <2>1. reservedBytes \in [Pools -> Nat] /\ reservedRevocableBytes \in [Pools -> Nat]
    BY <1>1, Zenon DEF PoolTypeOK
  <2>2. /\ reservedBytes'[GENERAL_POOL] = reservedBytes[GENERAL_POOL] - bytes
        /\ reservedRevocableBytes'[GENERAL_POOL] = reservedRevocableBytes[GENERAL_POOL] - revocableBytes
        /\ reservedBytes'[RESERVED_POOL] = reservedBytes[RESERVED_POOL]
        /\ reservedRevocableBytes'[RESERVED_POOL] = reservedRevocableBytes[RESERVED_POOL] + revocableBytes
    BY <1>4, <2>1, PoolFacts
  <2> QED
    BY <1>2, <1>3, <2>1, <2>2, PoolFacts DEF getFreeBytes
<1>8. ASSUME NEW r \in Pools, future'[r]
      PROVE  getFreeBytes(r)' <= 0
  <2>1. (future[r] => getFreeBytes(r) <= 0) /\ getFreeBytes(r) \in Int
    BY <1>1, FreeBytesType, Zenon DEF PoolInv
  <2>2. CASE r = GENERAL_POOL
    BY <1>2, <1>3, <1>5, <1>7, <1>8, <2>1, <2>2
  <2>3. CASE r = RESERVED_POOL
    BY <1>2, <1>3, <1>5, <1>7, <1>8, <2>1, <2>3
  <2> QED
    BY <2>2, <2>3 DEF Pools
<1>9. ASSUME NEW d \in Drivers, waiting'[d] # Null
      PROVE  waiting'[d] = waiting[d] /\ future'[waiting[d]]
  <2>1. /\ waiting'[d] = waiting[d] /\ waiting[d] # Null /\ ~(waiting[d] = GENERAL_POOL /\ released)
        /\ waiting[d] \in Pools
    BY <1>1, <1>4, <1>9, Zenon DEF PoolTypeOK
  <2>2. future[waiting[d]]
    BY <2>1, Zenon DEF PoolInv
  <2> HIDE DEF full, released
  <2> QED
    BY <1>5, <2>1, <2>2 DEF Pools
<1> QED
  BY <1>5, <1>6, <1>8, <1>9, Zenon

LEMMA endMoveQueryInv ==
    ASSUME PoolInv, endMoveQuery
    PROVE  PoolInv'
<1>1. PICK q \in Queries : q = moving
  BY Zenon DEF endMoveQuery, PoolInv, PoolTypeOK
<1>2. PoolTypeOK /\ PoolTypeOK'
  BY <1>1, EndMoveFacts, Zenon DEF PoolInv
<1>3. /\ moving' = Null /\ moveFuture' = moveFuture
      /\ memoryPool' = [memoryPool EXCEPT ![q] = RESERVED_POOL]
      /\ \A d \in Drivers : DriverQuery[d] = q /\ moveFuture[q] = Null => waiting'[d] = Null
  BY <1>1, <1>2, Zenon DEF endMoveQuery, PoolTypeOK
<1>4. ASSUME NEW d \in Drivers, waiting'[d] # Null
      PROVE  \/ waiting'[d] = memoryPool'[DriverQuery[d]]
             \/ memoryPool'[DriverQuery[d]] = RESERVED_POOL /\ moveFuture'[DriverQuery[d]] = RESERVED_POOL
  <2>1. waiting'[d] = waiting[d] /\ DriverQuery[d] \in Queries
    BY <1>1, <1>4, EndMoveFacts, PoolFacts, Zenon
  <2>2. CASE DriverQuery[d] = q
    BY <1>2, <1>3, <1>4, <2>2 DEF PoolTypeOK
  <2>3. CASE DriverQuery[d] # q
    BY <1>2, <1>3, <1>4, <2>1, <2>3, Zenon DEF PoolInv, PoolTypeOK
  <2> QED
    BY <2>2, <2>3, Zenon
<1>5. \A x \in Queries : moveFuture'[x] # Null => future'[RESERVED_POOL]
  BY <1>1, <1>3, EndMoveFacts, Zenon DEF PoolInv
<1> QED
  BY <1>1, <1>2, <1>3, <1>4, <1>5, EndMoveFacts, Zenon DEF PoolInv

\* PoolInv is inductive.
LEMMA PoolStepInv == PoolInv /\ [PoolNext]_poolVars => PoolInv'
<1> SUFFICES ASSUME PoolInv, [PoolNext]_poolVars PROVE PoolInv'
  OBVIOUS
<1>1. CASE \E d \in Drivers, tag \in Tags, bytes \in Sizes : reserve(d, tag, bytes) \/ tryReserve(d, tag, bytes)
  BY <1>1, reserveInv, tryReserveInv
<1>2. CASE \E d \in Drivers, bytes \in Sizes : reserveRevocable(d, bytes)
  BY <1>2, reserveRevocableInv
<1>3. CASE \E q \in Queries, tag \in Tags, bytes \in Sizes : free(q, tag, bytes)
  BY <1>3, freeInv
<1>4. CASE \E q \in Queries, bytes \in Sizes : freeRevocable(q, bytes)
  BY <1>4, freeRevocableInv
<1>5. CASE \E q \in Queries : beginMoveQuery(q)
  BY <1>5, beginMoveQueryInv
<1>6. CASE endMoveQuery
  BY <1>6, endMoveQueryInv
<1>7. CASE UNCHANGED poolVars
  BY <1>7, Zenon DEF poolVars, amounts, revocable, PoolInv, PoolTypeOK, getFreeBytes
<1> QED
  BY <1>1, <1>2, <1>3, <1>4, <1>5, <1>6, <1>7 DEF PoolNext

\* A driver that waits, waits for a pool that is full, and it is the pool of its query.
LEMMA InvWaits == PoolInv => WaitsOnlyWhenFull
<1> SUFFICES ASSUME PoolInv, NEW d \in Drivers, waiting[d] # Null
             PROVE  getFreeBytes(memoryPool[DriverQuery[d]]) <= 0
  BY DEF WaitsOnlyWhenFull
<1>1. DriverQuery[d] \in Queries /\ memoryPool[DriverQuery[d]] \in Pools
  BY PoolFacts, Zenon DEF PoolInv, PoolTypeOK
<1>2. future[memoryPool[DriverQuery[d]]]
  BY <1>1, PoolFacts DEF PoolInv
<1> QED
  BY <1>1, <1>2, Zenon DEF PoolInv

\* MemoryPool.java and QueryContext.java keep the invariant of the pools, the checks of
\* free, freeRevocable and moveQuery included: no amount of theirs is ever negative.
THEOREM PoolInvariant == PoolSpec => []PoolInv
<1> QED
  BY PoolInitInv, PoolStepInv, PTL DEF PoolSpec

\* The types of the pools: no pool, query or tag ever has fewer than no bytes.
THEOREM PoolTypeCorrect == PoolSpec => []PoolTypeOK
<1>1. PoolInv => PoolTypeOK
  BY DEF PoolInv
<1> QED
  BY <1>1, PoolInvariant, PTL

\* No wake-up is missed, however reservations, releases and moves of queries between
\* the pools interleave: a driver waits only while the pool of its query is full.
THEOREM NoMissedWakeUp == PoolSpec => []WaitsOnlyWhenFull
BY InvWaits, PoolInvariant, PTL


-----------------------------------------------------------------------------
(* The memory pools: the books balance. *)

AllTags == Tags \cup {MOVE_QUERY_TAG}

QueriesSum(p) == reservedBytes[p] = Sum(queryMemoryReservations[p], Queries)
RevocableSum(p) == reservedRevocableBytes[p] = Sum(queryMemoryRevocableReservations[p], Queries)
TagsSum(p, q) == queryMemoryReservations[p][q] = Sum(taggedMemoryAllocations[p][q], AllTags)

\* A query has bytes in its own pool alone and none under the tag of a move, unless
\* it is being moved: then as many are reserved for it in the other pool.
HomeInv ==
    /\ \A p \in Pools, q \in Queries : moving # q /\ memoryPool[q] # p =>
          queryMemoryReservations[p][q] = 0 /\ queryMemoryRevocableReservations[p][q] = 0
    /\ \A p \in Pools, q \in Queries : moving # q \/ p = GENERAL_POOL =>
          taggedMemoryAllocations[p][q][MOVE_QUERY_TAG] = 0
    /\ moving # Null =>
          /\ queryMemoryReservations[RESERVED_POOL][moving] = queryMemoryReservations[GENERAL_POOL][moving]
          /\ queryMemoryRevocableReservations[RESERVED_POOL][moving] = 0

SumsInv ==
    /\ \A p \in Pools : QueriesSum(p) /\ RevocableSum(p)
    /\ \A p \in Pools, q \in Queries : TagsSum(p, q)
    /\ HomeInv

LEMMA SumsAddUp == SumsInv => BytesAddUp /\ TagsAddUp
<1> SUFFICES ASSUME SumsInv PROVE BytesAddUp /\ TagsAddUp
  OBVIOUS
<1>1. /\ \A p \in Pools : reservedBytes[p] = Sum(queryMemoryReservations[p], Queries)
      /\ \A p \in Pools : reservedRevocableBytes[p] = Sum(queryMemoryRevocableReservations[p], Queries)
      /\ \A p \in Pools, q \in Queries :
           queryMemoryReservations[p][q] = Sum(taggedMemoryAllocations[p][q], Tags \cup {MOVE_QUERY_TAG})
  BY Zenon DEF SumsInv, QueriesSum, RevocableSum, TagsSum, AllTags
<1>2. BytesAddUp
  BY <1>1, Zenon DEF BytesAddUp, Sum, SumsInv, HomeInv
<1>3. TagsAddUp
  BY <1>1, Zenon DEF TagsAddUp, Sum, SumsInv, HomeInv
<1> QED
  BY <1>2, <1>3

LEMMA FiniteBooks == IsFiniteSet(Queries) /\ IsFiniteSet(AllTags) /\ MOVE_QUERY_TAG \in AllTags
BY PoolAssumption, FS_AddElement DEF AllTags

LEMMA PoolInitSums == PoolInit => SumsInv
<1> SUFFICES ASSUME PoolInit PROVE SumsInv
  OBVIOUS
<1>1. \A p \in Pools : QueriesSum(p) /\ RevocableSum(p)
  BY SumZero, FiniteBooks DEF PoolInit, QueriesSum, RevocableSum
<1>2. \A p \in Pools, q \in Queries : TagsSum(p, q)
  BY SumZero, FiniteBooks DEF PoolInit, TagsSum, AllTags
<1> QED
  BY <1>1, <1>2, PoolFacts, Zenon DEF PoolInit, SumsInv, HomeInv

\* updateReservation changes the bytes of the pool, of the query and of the tag alike,
\* also when the query has none left and its tags are forgotten.
LEMMA UpdateReservationSums ==
    ASSUME PoolTypeOK, SumsInv, NEW p \in Pools, NEW q \in Queries, NEW tag \in AllTags, NEW delta \in Int,
           updateReservation(p, q, tag, delta)
    PROVE  /\ \A r \in Pools : QueriesSum(r)'
           /\ \A r \in Pools, x \in Queries : TagsSum(r, x)'
           /\ queryMemoryReservations'[p][q] = queryMemoryReservations[p][q] + delta
           /\ \A r \in Pools, x \in Queries : r # p \/ x # q =>
                 /\ queryMemoryReservations'[r][x] = queryMemoryReservations[r][x]
                 /\ taggedMemoryAllocations'[r][x] = taggedMemoryAllocations[r][x]
           /\ tag # MOVE_QUERY_TAG /\ taggedMemoryAllocations[p][q][MOVE_QUERY_TAG] = 0 =>
                 taggedMemoryAllocations'[p][q][MOVE_QUERY_TAG] = 0
<1>1. PICK f \in [Queries -> Int] : f = queryMemoryReservations[p]
  BY DEF PoolTypeOK
<1>2. PICK g \in [AllTags -> Int] : g = taggedMemoryAllocations[p][q]
  <2>0. taggedMemoryAllocations \in [Pools -> [Queries -> [AllTags -> Nat]]]
    BY Zenon DEF PoolTypeOK, AllTags
  <2>1. taggedMemoryAllocations[p][q] \in [AllTags -> Nat]
    BY <2>0
  <2>2. taggedMemoryAllocations[p][q] \in [AllTags -> Int]
    BY <2>1
  <2> QED
    BY <2>2, Zenon
<1>3. PICK g2 : g2 = taggedMemoryAllocations'[p][q]
  OBVIOUS
<1>4. /\ queryMemoryReservations'[p] = [f EXCEPT ![q] = f[q] + delta]
      /\ \A r \in Pools \ {p} : queryMemoryReservations'[r] = queryMemoryReservations[r]
      /\ reservedBytes'[p] = reservedBytes[p] + delta
      /\ \A r \in Pools \ {p} : reservedBytes'[r] = reservedBytes[r]
  BY <1>1 DEF updateReservation, PoolTypeOK
<1>5. /\ g2 = IF delta < 0 /\ f[q] + delta = 0 THEN [t \in AllTags |-> 0] ELSE [g EXCEPT ![tag] = g[tag] + delta]
      /\ \A r \in Pools, x \in Queries : r # p \/ x # q =>
            taggedMemoryAllocations'[r][x] = taggedMemoryAllocations[r][x]
  BY <1>1, <1>2, <1>3, Zenon DEF updateReservation, PoolTypeOK, AllTags
<1>6. ASSUME NEW r \in Pools PROVE QueriesSum(r)'
  <2>1. CASE r = p
    <3>1. Sum([f EXCEPT ![q] = f[q] + delta], Queries) = Sum(f, Queries) - f[q] + (f[q] + delta)
      <4>1. PICK v \in [Queries -> Int] : v = [f EXCEPT ![q] = f[q] + delta]
        <5>1. [f EXCEPT ![q] = f[q] + delta] \in [Queries -> Int]
          OBVIOUS
        <5> QED
          BY <5>1, Zenon
      <4>2. v[q] = f[q] + delta /\ \A y \in Queries \ {q} : v[y] = f[y]
        BY <4>1
      <4>3. Sum(v, Queries) = Sum(f, Queries) - f[q] + v[q]
        BY <4>2, FiniteBooks, SumChange
      <4> QED
        BY <4>1, <4>2, <4>3, Zenon
    <3>2. reservedBytes[p] = Sum(f, Queries) /\ Sum(f, Queries) \in Int /\ f[q] \in Int
      BY <1>1, FiniteBooks, SumType, Zenon DEF SumsInv, QueriesSum
    <3>3. Sum(f, Queries) - f[q] + (f[q] + delta) = Sum(f, Queries) + delta
      BY <3>2
    <3> QED
      BY <1>4, <2>1, <3>1, <3>2, <3>3, Zenon DEF QueriesSum
  <2>2. CASE r # p
    BY <1>4, <2>2, Zenon DEF SumsInv, QueriesSum
  <2> QED
    BY <2>1, <2>2
<1>7. queryMemoryReservations'[p][q] = f[q] + delta
  BY <1>4, Zenon
<1>8. ASSUME NEW r \in Pools, NEW x \in Queries, r # p \/ x # q
      PROVE  queryMemoryReservations'[r][x] = queryMemoryReservations[r][x]
  BY <1>1, <1>4, <1>8
<1>9. TagsSum(p, q)'
  <2>1. CASE delta < 0 /\ f[q] + delta = 0
    <3>1. Sum(g2, AllTags) = 0
      BY <1>5, <2>1, FiniteBooks, SumZero
    <3> QED
      BY <1>3, <1>7, <2>1, <3>1 DEF TagsSum
  <2>2. CASE ~(delta < 0 /\ f[q] + delta = 0)
    <3>1. g2 = [g EXCEPT ![tag] = g[tag] + delta]
      BY <1>5, <2>2, Zenon
    <3>2. Sum([g EXCEPT ![tag] = g[tag] + delta], AllTags) = Sum(g, AllTags) - g[tag] + (g[tag] + delta)
      <4>1. PICK v \in [AllTags -> Int] : v = [g EXCEPT ![tag] = g[tag] + delta]
        <5>1. [g EXCEPT ![tag] = g[tag] + delta] \in [AllTags -> Int]
          OBVIOUS
        <5> QED
          BY <5>1, Zenon
      <4>2. v[tag] = g[tag] + delta /\ \A y \in AllTags \ {tag} : v[y] = g[y]
        BY <4>1
      <4>3. Sum(v, AllTags) = Sum(g, AllTags) - g[tag] + v[tag]
        BY <4>2, FiniteBooks, SumChange
      <4> QED
        BY <4>1, <4>2, <4>3, Zenon
    <3>3. f[q] = Sum(g, AllTags) /\ Sum(g, AllTags) \in Int /\ g[tag] \in Int
      BY <1>1, <1>2, FiniteBooks, SumType, Zenon DEF SumsInv, TagsSum
    <3>4. Sum(g, AllTags) - g[tag] + (g[tag] + delta) = Sum(g, AllTags) + delta
      BY <3>3
    <3> QED
      BY <1>3, <1>7, <3>1, <3>2, <3>3, <3>4, Zenon DEF TagsSum
  <2> QED
    BY <2>1, <2>2
<1>10. ASSUME NEW r \in Pools, NEW x \in Queries PROVE TagsSum(r, x)'
  <2>1. CASE r = p /\ x = q
    BY <1>9, <2>1
  <2>2. CASE r # p \/ x # q
    BY <1>5, <1>8, <2>2 DEF SumsInv, TagsSum
  <2> QED
    BY <2>1, <2>2
<1>11. ASSUME tag # MOVE_QUERY_TAG, taggedMemoryAllocations[p][q][MOVE_QUERY_TAG] = 0
       PROVE  taggedMemoryAllocations'[p][q][MOVE_QUERY_TAG] = 0
  BY <1>2, <1>3, <1>5, <1>11, FiniteBooks
<1> QED
  BY <1>1, <1>5, <1>6, <1>7, <1>8, <1>10, <1>11, Zenon


LEMMA UpdateRevocableSums ==
    ASSUME PoolTypeOK, SumsInv, NEW p \in Pools, NEW q \in Queries, NEW delta \in Int,
           updateRevocable(p, q, delta)
    PROVE  /\ \A r \in Pools : RevocableSum(r)'
           /\ \A r \in Pools, x \in Queries : r # p \/ x # q =>
                 queryMemoryRevocableReservations'[r][x] = queryMemoryRevocableReservations[r][x]
<1>1. PICK f \in [Queries -> Int] : f = queryMemoryRevocableReservations[p]
  BY DEF PoolTypeOK
<1>2. /\ queryMemoryRevocableReservations'[p] = [f EXCEPT ![q] = f[q] + delta]
      /\ \A r \in Pools \ {p} : queryMemoryRevocableReservations'[r] = queryMemoryRevocableReservations[r]
      /\ reservedRevocableBytes'[p] = reservedRevocableBytes[p] + delta
      /\ \A r \in Pools \ {p} : reservedRevocableBytes'[r] = reservedRevocableBytes[r]
  BY <1>1 DEF updateRevocable, PoolTypeOK
<1>3. ASSUME NEW r \in Pools PROVE RevocableSum(r)'
  <2>1. CASE r = p
    <3>1. PICK v \in [Queries -> Int] : v = [f EXCEPT ![q] = f[q] + delta]
      <4>1. [f EXCEPT ![q] = f[q] + delta] \in [Queries -> Int]
        OBVIOUS
      <4> QED
        BY <4>1, Zenon
    <3>2. v[q] = f[q] + delta /\ \A y \in Queries \ {q} : v[y] = f[y]
      BY <3>1
    <3>3. Sum(v, Queries) = Sum(f, Queries) - f[q] + v[q]
      BY <3>2, FiniteBooks, SumChange
    <3>4. reservedRevocableBytes[p] = Sum(f, Queries) /\ Sum(f, Queries) \in Int /\ f[q] \in Int
      BY <1>1, FiniteBooks, SumType, Zenon DEF SumsInv, RevocableSum
    <3>5. Sum(v, Queries) = Sum(f, Queries) + delta
      BY <3>2, <3>3, <3>4
    <3> QED
      BY <1>2, <2>1, <3>1, <3>4, <3>5, Zenon DEF RevocableSum
  <2>2. CASE r # p
    BY <1>2, <2>2, Zenon DEF SumsInv, RevocableSum
  <2> QED
    BY <2>1, <2>2
<1>4. ASSUME NEW r \in Pools, NEW x \in Queries, r # p \/ x # q
      PROVE  queryMemoryRevocableReservations'[r][x] = queryMemoryRevocableReservations[r][x]
  BY <1>1, <1>2, <1>4
<1> QED
  BY <1>3, <1>4

\* A reservation, or a release, of a query that is not being moved, in its own pool.
LEMMA AtHomeSums ==
    ASSUME PoolTypeOK, SumsInv, NEW q \in Queries, NEW tag \in Tags, NEW delta \in Int, moving # q,
           updateReservation(memoryPool[q], q, tag, delta), UNCHANGED << revocable, memoryPool, moving >>
    PROVE  SumsInv'
<1>1. PICK p \in Pools : p = memoryPool[q]
  BY DEF PoolTypeOK
<1>2. updateReservation(p, q, tag, delta) /\ tag \in AllTags /\ tag # MOVE_QUERY_TAG
  BY <1>1, PoolAssumption DEF AllTags
<1>3. /\ \A r \in Pools : QueriesSum(r)'
      /\ \A r \in Pools, x \in Queries : TagsSum(r, x)'
      /\ \A r \in Pools, x \in Queries : r # p \/ x # q =>
            /\ queryMemoryReservations'[r][x] = queryMemoryReservations[r][x]
            /\ taggedMemoryAllocations'[r][x] = taggedMemoryAllocations[r][x]
      /\ taggedMemoryAllocations[p][q][MOVE_QUERY_TAG] = 0 =>
            taggedMemoryAllocations'[p][q][MOVE_QUERY_TAG] = 0
  BY <1>2, UpdateReservationSums, ZenonT(30)
<1>4. \A r \in Pools : RevocableSum(r)'
  BY Zenon DEF revocable, SumsInv, RevocableSum
<1>5. HomeInv'
  <2>1. moving \in Queries \cup {Null}
    BY Zenon DEF PoolTypeOK
  <2>2. HomeInv /\ UNCHANGED << queryMemoryRevocableReservations, memoryPool, moving >>
    BY Zenon DEF SumsInv, revocable
  <2>3. ASSUME NEW r \in Pools, NEW x \in Queries, moving # x, memoryPool[x] # r
        PROVE  queryMemoryReservations'[r][x] = 0 /\ queryMemoryRevocableReservations[r][x] = 0
    <3>1. queryMemoryReservations[r][x] = 0 /\ queryMemoryRevocableReservations[r][x] = 0
      BY <2>2, <2>3, Zenon DEF HomeInv
    <3>2. r # p \/ x # q
      BY <1>1, <2>3, Zenon
    <3> QED
      BY <1>3, <3>1, <3>2, Zenon
  <2>4. ASSUME NEW r \in Pools, NEW x \in Queries, moving # x \/ r = GENERAL_POOL
        PROVE  taggedMemoryAllocations'[r][x][MOVE_QUERY_TAG] = 0
    <3>1. taggedMemoryAllocations[r][x][MOVE_QUERY_TAG] = 0
      BY <2>2, <2>4, Zenon DEF HomeInv
    <3> QED
      BY <1>3, <3>1, Zenon
  <2>5. ASSUME moving # Null
        PROVE  /\ queryMemoryReservations'[RESERVED_POOL][moving] = queryMemoryReservations'[GENERAL_POOL][moving]
               /\ queryMemoryRevocableReservations[RESERVED_POOL][moving] = 0
    BY <1>3, <2>1, <2>2, <2>5, PoolFacts, Zenon DEF HomeInv
  <2> QED
    BY <2>2, <2>3, <2>4, <2>5, Zenon DEF HomeInv
<1> QED
  BY <1>3, <1>4, <1>5, Zenon DEF SumsInv

LEMMA AtHomeRevocableSums ==
    ASSUME PoolTypeOK, SumsInv, NEW q \in Queries, NEW delta \in Int, moving # q,
           updateRevocable(memoryPool[q], q, delta), UNCHANGED << amounts, memoryPool, moving >>
    PROVE  SumsInv'
<1>1. PICK p \in Pools : p = memoryPool[q]
  BY DEF PoolTypeOK
<1>2. /\ \A r \in Pools : RevocableSum(r)'
      /\ \A r \in Pools, x \in Queries : r # p \/ x # q =>
            queryMemoryRevocableReservations'[r][x] = queryMemoryRevocableReservations[r][x]
  BY <1>1, UpdateRevocableSums
<1>3. /\ \A r \in Pools : QueriesSum(r)'
      /\ \A r \in Pools, x \in Queries : TagsSum(r, x)'
  BY DEF amounts, SumsInv, QueriesSum, TagsSum
<1>4. HomeInv'
  <2>1. moving \in Queries \cup {Null}
    BY Zenon DEF PoolTypeOK
  <2>2. HomeInv /\ UNCHANGED << queryMemoryReservations, taggedMemoryAllocations, memoryPool, moving >>
    BY Zenon DEF SumsInv, amounts
  <2>3. ASSUME NEW r \in Pools, NEW x \in Queries, moving # x, memoryPool[x] # r
        PROVE  queryMemoryReservations[r][x] = 0 /\ queryMemoryRevocableReservations'[r][x] = 0
    <3>1. queryMemoryReservations[r][x] = 0 /\ queryMemoryRevocableReservations[r][x] = 0
      BY <2>2, <2>3, Zenon DEF HomeInv
    <3>2. r # p \/ x # q
      BY <1>1, <2>3, Zenon
    <3> QED
      BY <1>2, <3>1, <3>2, Zenon
  <2>4. ASSUME moving # Null
        PROVE  /\ queryMemoryReservations[RESERVED_POOL][moving] = queryMemoryReservations[GENERAL_POOL][moving]
               /\ queryMemoryRevocableReservations'[RESERVED_POOL][moving] = 0
    BY <1>2, <2>1, <2>2, <2>4, PoolFacts, Zenon DEF HomeInv
  <2> QED
    BY <2>2, <2>3, <2>4, Zenon DEF HomeInv
<1> QED
  BY <1>2, <1>3, <1>4, Zenon DEF SumsInv

LEMMA UnlockedFacts ==
    ASSUME NEW q \in Queries, Unlocked(q) PROVE moving # q
BY PoolFacts, Zenon DEF Unlocked


LEMMA BeginMoveSums ==
    ASSUME PoolTypeOK, SumsInv, NEW q \in Queries, beginMoveQuery(q) PROVE SumsInv'
<1>1. PICK bytes \in Int : bytes = queryMemoryReservations[GENERAL_POOL][q]
  <2>1. GENERAL_POOL \in Pools /\ queryMemoryReservations \in [Pools -> [Queries -> Nat]]
    BY PoolFacts, Zenon DEF PoolTypeOK
  <2> QED
    BY <2>1
<1>2. /\ updateReservation(RESERVED_POOL, q, MOVE_QUERY_TAG, bytes)
      /\ moving = Null /\ moving' = q /\ memoryPool[q] = GENERAL_POOL
      /\ UNCHANGED << revocable, memoryPool >>
  BY <1>1, Zenon DEF beginMoveQuery
<1>3. /\ \A r \in Pools : QueriesSum(r)'
      /\ \A r \in Pools, x \in Queries : TagsSum(r, x)'
      /\ queryMemoryReservations'[RESERVED_POOL][q] = queryMemoryReservations[RESERVED_POOL][q] + bytes
      /\ \A r \in Pools, x \in Queries : r # RESERVED_POOL \/ x # q =>
            /\ queryMemoryReservations'[r][x] = queryMemoryReservations[r][x]
            /\ taggedMemoryAllocations'[r][x] = taggedMemoryAllocations[r][x]
  <2>1. RESERVED_POOL \in Pools /\ MOVE_QUERY_TAG \in AllTags
    BY PoolFacts, FiniteBooks, Zenon
  <2> QED
    BY <1>2, <2>1, UpdateReservationSums, ZenonT(30)
<1>4. \A r \in Pools : RevocableSum(r)'
  BY <1>2, Zenon DEF revocable, SumsInv, RevocableSum
<1>5. HomeInv'
  <2>1. /\ queryMemoryReservations[RESERVED_POOL][q] = 0
        /\ queryMemoryRevocableReservations[RESERVED_POOL][q] = 0
    BY <1>2, PoolFacts, Zenon DEF SumsInv, HomeInv
  <2>2. /\ queryMemoryReservations'[RESERVED_POOL][q] = queryMemoryReservations'[GENERAL_POOL][q]
        /\ queryMemoryRevocableReservations'[RESERVED_POOL][q] = 0
    <3>1. queryMemoryReservations'[GENERAL_POOL][q] = bytes
      BY <1>1, <1>3, PoolFacts, Zenon
    <3>2. queryMemoryReservations'[RESERVED_POOL][q] = 0 + bytes
      BY <1>3, <2>1, Zenon
    <3>3. queryMemoryRevocableReservations'[RESERVED_POOL][q] = 0
      BY <1>2, <2>1, Zenon DEF revocable
    <3> QED
      BY <3>1, <3>2, <3>3
  <2>3. HomeInv /\ UNCHANGED << queryMemoryRevocableReservations, memoryPool >>
    BY <1>2, Zenon DEF SumsInv, revocable
  <2>4. ASSUME NEW r \in Pools, NEW x \in Queries, q # x, memoryPool[x] # r
        PROVE  queryMemoryReservations'[r][x] = 0 /\ queryMemoryRevocableReservations[r][x] = 0
    <3>1. queryMemoryReservations[r][x] = 0 /\ queryMemoryRevocableReservations[r][x] = 0
      BY <1>2, <2>3, <2>4, PoolFacts, Zenon DEF HomeInv
    <3> QED
      BY <1>3, <2>4, <3>1, Zenon
  <2>5. ASSUME NEW r \in Pools, NEW x \in Queries, q # x \/ r = GENERAL_POOL
        PROVE  taggedMemoryAllocations'[r][x][MOVE_QUERY_TAG] = 0
    <3>1. taggedMemoryAllocations[r][x][MOVE_QUERY_TAG] = 0
      BY <1>2, <2>3, PoolFacts, Zenon DEF HomeInv
    <3> QED
      BY <1>3, <2>5, <3>1, PoolFacts, Zenon
  <2> QED
    BY <1>2, <2>2, <2>3, <2>4, <2>5, Zenon DEF HomeInv
<1> QED
  BY <1>3, <1>4, <1>5, Zenon DEF SumsInv

\* What the second half of a move leaves of the moved query in the two pools, and of
\* the other queries.
LEMMA EndMoveBooks ==
    ASSUME PoolTypeOK, endMoveQuery, NEW q, q = moving
    PROVE  /\ q \in Queries
           /\ queryMemoryReservations'[GENERAL_POOL] = [queryMemoryReservations[GENERAL_POOL] EXCEPT ![q] = 0]
           /\ queryMemoryReservations'[RESERVED_POOL] = queryMemoryReservations[RESERVED_POOL]
           /\ reservedBytes'[GENERAL_POOL] =
                 reservedBytes[GENERAL_POOL] - queryMemoryReservations[GENERAL_POOL][q]
           /\ reservedBytes'[RESERVED_POOL] = reservedBytes[RESERVED_POOL]
           /\ queryMemoryRevocableReservations'[GENERAL_POOL] =
                 [queryMemoryRevocableReservations[GENERAL_POOL] EXCEPT ![q] = 0]
           /\ queryMemoryRevocableReservations'[RESERVED_POOL] =
                 [queryMemoryRevocableReservations[RESERVED_POOL] EXCEPT
                     ![q] = @ + queryMemoryRevocableReservations[GENERAL_POOL][q]]
           /\ reservedRevocableBytes'[GENERAL_POOL] =
                 reservedRevocableBytes[GENERAL_POOL] - queryMemoryRevocableReservations[GENERAL_POOL][q]
           /\ reservedRevocableBytes'[RESERVED_POOL] =
                 reservedRevocableBytes[RESERVED_POOL] + queryMemoryRevocableReservations[GENERAL_POOL][q]
           /\ taggedMemoryAllocations'[GENERAL_POOL][q] = [t \in AllTags |-> 0]
           /\ taggedMemoryAllocations'[RESERVED_POOL][q] = taggedMemoryAllocations[GENERAL_POOL][q]
           /\ memoryPool' = [memoryPool EXCEPT ![q] = RESERVED_POOL] /\ moving' = Null
<1>1. q \in Queries
  BY Zenon DEF endMoveQuery, PoolTypeOK
<1>2. /\ queryMemoryReservations'[GENERAL_POOL] = [queryMemoryReservations[GENERAL_POOL] EXCEPT ![q] = 0]
      /\ queryMemoryReservations'[RESERVED_POOL] = queryMemoryReservations[RESERVED_POOL]
      /\ reservedBytes'[GENERAL_POOL] = reservedBytes[GENERAL_POOL] - queryMemoryReservations[GENERAL_POOL][q]
      /\ reservedBytes'[RESERVED_POOL] = reservedBytes[RESERVED_POOL]
  BY PoolFacts, Zenon DEF endMoveQuery, PoolTypeOK
<1>3. /\ queryMemoryRevocableReservations'[GENERAL_POOL] =
            [queryMemoryRevocableReservations[GENERAL_POOL] EXCEPT ![q] = 0]
      /\ queryMemoryRevocableReservations'[RESERVED_POOL] =
            [queryMemoryRevocableReservations[RESERVED_POOL] EXCEPT
                ![q] = @ + queryMemoryRevocableReservations[GENERAL_POOL][q]]
  BY PoolFacts, Zenon DEF endMoveQuery, PoolTypeOK
<1>4. /\ reservedRevocableBytes'[GENERAL_POOL] =
            reservedRevocableBytes[GENERAL_POOL] - queryMemoryRevocableReservations[GENERAL_POOL][q]
      /\ reservedRevocableBytes'[RESERVED_POOL] =
            reservedRevocableBytes[RESERVED_POOL] + queryMemoryRevocableReservations[GENERAL_POOL][q]
  BY PoolFacts, Zenon DEF endMoveQuery, PoolTypeOK
<1>5. /\ taggedMemoryAllocations'[GENERAL_POOL][q] = [t \in AllTags |-> 0]
      /\ taggedMemoryAllocations'[RESERVED_POOL][q] = taggedMemoryAllocations[GENERAL_POOL][q]
  <2>1. taggedMemoryAllocations \in [Pools -> [Queries -> [AllTags -> Nat]]]
    BY Zenon DEF PoolTypeOK, AllTags
  <2>2. taggedMemoryAllocations' =
           [taggedMemoryAllocations EXCEPT ![GENERAL_POOL][q] = [t \in AllTags |-> 0],
                                           ![RESERVED_POOL][q] = taggedMemoryAllocations[GENERAL_POOL][q]]
    BY Zenon DEF endMoveQuery, movedTags, AllTags
  <2> QED
    BY <1>1, <2>1, <2>2, PoolFacts
<1>6. memoryPool' = [memoryPool EXCEPT ![q] = RESERVED_POOL] /\ moving' = Null
  BY Zenon DEF endMoveQuery
<1> QED
  BY <1>1, <1>2, <1>3, <1>4, <1>5, <1>6, Zenon


\* The tags of the queries that are not moved stay as they are.
LEMMA EndMoveOthers ==
    ASSUME PoolTypeOK, endMoveQuery, NEW p \in Pools, NEW x \in Queries, x # moving
    PROVE  taggedMemoryAllocations'[p][x] = taggedMemoryAllocations[p][x]
<1>1. taggedMemoryAllocations \in [Pools -> [Queries -> [AllTags -> Nat]]]
  BY Zenon DEF PoolTypeOK, AllTags
<1>2. taggedMemoryAllocations' =
         [taggedMemoryAllocations EXCEPT ![GENERAL_POOL][moving] = [t \in AllTags |-> 0],
                                         ![RESERVED_POOL][moving] = taggedMemoryAllocations[GENERAL_POOL][moving]]
  BY Zenon DEF endMoveQuery, movedTags, AllTags
<1>3. moving \in Queries
  BY Zenon DEF endMoveQuery, PoolTypeOK
<1> QED
  BY <1>1, <1>2, <1>3, PoolFacts

LEMMA EndMoveSums ==
    ASSUME PoolTypeOK, SumsInv, endMoveQuery PROVE SumsInv'
<1>1. PICK q \in Queries : q = moving
  BY Zenon DEF endMoveQuery, PoolTypeOK
<1>2. PICK f \in [Queries -> Int] : f = queryMemoryReservations[GENERAL_POOL]
  BY PoolFacts DEF PoolTypeOK
<1>3. PICK g \in [Queries -> Int] : g = queryMemoryRevocableReservations[GENERAL_POOL]
  BY PoolFacts DEF PoolTypeOK
<1>4. PICK h \in [Queries -> Int] : h = queryMemoryRevocableReservations[RESERVED_POOL]
  BY PoolFacts DEF PoolTypeOK
<1>5. PICK f2 \in [Queries -> Int] : f2 = [f EXCEPT ![q] = 0]
  <2>1. [f EXCEPT ![q] = 0] \in [Queries -> Int]
    OBVIOUS
  <2> QED
    BY <2>1, Zenon
<1>6. PICK g2 \in [Queries -> Int] : g2 = [g EXCEPT ![q] = 0]
  <2>1. [g EXCEPT ![q] = 0] \in [Queries -> Int]
    OBVIOUS
  <2> QED
    BY <2>1, Zenon
<1>7. PICK h2 \in [Queries -> Int] : h2 = [h EXCEPT ![q] = h[q] + g[q]]
  <2>1. [h EXCEPT ![q] = h[q] + g[q]] \in [Queries -> Int]
    OBVIOUS
  <2> QED
    BY <2>1, Zenon
<1>8. /\ queryMemoryReservations'[GENERAL_POOL] = f2
      /\ queryMemoryReservations'[RESERVED_POOL] = queryMemoryReservations[RESERVED_POOL]
      /\ queryMemoryRevocableReservations'[GENERAL_POOL] = g2
      /\ queryMemoryRevocableReservations'[RESERVED_POOL] = h2
      /\ reservedBytes'[GENERAL_POOL] = reservedBytes[GENERAL_POOL] - f[q]
      /\ reservedBytes'[RESERVED_POOL] = reservedBytes[RESERVED_POOL]
      /\ reservedRevocableBytes'[GENERAL_POOL] = reservedRevocableBytes[GENERAL_POOL] - g[q]
      /\ reservedRevocableBytes'[RESERVED_POOL] = reservedRevocableBytes[RESERVED_POOL] + g[q]
  BY <1>1, <1>2, <1>3, <1>4, <1>5, <1>6, <1>7, EndMoveBooks, Zenon
<1>9. /\ taggedMemoryAllocations'[GENERAL_POOL][q] = [t \in AllTags |-> 0]
      /\ taggedMemoryAllocations'[RESERVED_POOL][q] = taggedMemoryAllocations[GENERAL_POOL][q]
      /\ \A p \in Pools, x \in Queries : x # q =>
            taggedMemoryAllocations'[p][x] = taggedMemoryAllocations[p][x]
      /\ memoryPool' = [memoryPool EXCEPT ![q] = RESERVED_POOL] /\ moving' = Null
  <2>1. /\ taggedMemoryAllocations'[GENERAL_POOL][q] = [t \in AllTags |-> 0]
        /\ taggedMemoryAllocations'[RESERVED_POOL][q] = taggedMemoryAllocations[GENERAL_POOL][q]
    BY <1>1, EndMoveBooks, Zenon
  <2>2. \A p \in Pools, x \in Queries : x # q =>
            taggedMemoryAllocations'[p][x] = taggedMemoryAllocations[p][x]
    BY <1>1, EndMoveOthers, Zenon
  <2>3. memoryPool' = [memoryPool EXCEPT ![q] = RESERVED_POOL]
    BY <1>1, EndMoveBooks, Zenon
  <2>4. moving' = Null
    BY <1>1, EndMoveBooks, Zenon
  <2> QED
    BY <2>1, <2>2, <2>3, <2>4
<1>10. /\ f2[q] = 0 /\ g2[q] = 0 /\ h2[q] = h[q] + g[q]
       /\ \A x \in Queries \ {q} : f2[x] = f[x] /\ g2[x] = g[x] /\ h2[x] = h[x]
  BY <1>5, <1>6, <1>7
<1>11. /\ Sum(f2, Queries) = Sum(f, Queries) - f[q] + f2[q]
       /\ Sum(g2, Queries) = Sum(g, Queries) - g[q] + g2[q]
       /\ Sum(h2, Queries) = Sum(h, Queries) - h[q] + h2[q]
  BY <1>10, FiniteBooks, SumChange
<1>12. /\ reservedBytes[GENERAL_POOL] = Sum(f, Queries)
       /\ reservedRevocableBytes[GENERAL_POOL] = Sum(g, Queries)
       /\ reservedRevocableBytes[RESERVED_POOL] = Sum(h, Queries)
       /\ reservedBytes[RESERVED_POOL] = Sum(queryMemoryReservations[RESERVED_POOL], Queries)
  BY <1>2, <1>3, <1>4, PoolFacts DEF SumsInv, QueriesSum, RevocableSum
<1>13. /\ Sum(f, Queries) \in Int /\ Sum(g, Queries) \in Int /\ Sum(h, Queries) \in Int
       /\ f[q] \in Int /\ g[q] \in Int /\ h[q] \in Int
  BY FiniteBooks, SumType
<1>14. /\ reservedBytes'[GENERAL_POOL] = Sum(f2, Queries)
       /\ reservedRevocableBytes'[GENERAL_POOL] = Sum(g2, Queries)
       /\ reservedRevocableBytes'[RESERVED_POOL] = Sum(h2, Queries)
  <2>1. f2[q] = 0 /\ g2[q] = 0 /\ h2[q] = h[q] + g[q]
    BY <1>10, Zenon
  <2>2. Sum(f2, Queries) = Sum(f, Queries) - f[q]
    BY <1>11, <1>13, <2>1
  <2>3. Sum(g2, Queries) = Sum(g, Queries) - g[q]
    BY <1>11, <1>13, <2>1
  <2>4. Sum(h2, Queries) = Sum(h, Queries) + g[q]
    BY <1>11, <1>13, <2>1
  <2> QED
    BY <1>8, <1>12, <2>2, <2>3, <2>4, Zenon
<1>15. \A p \in Pools : QueriesSum(p)' /\ RevocableSum(p)'
  BY <1>8, <1>12, <1>14, Zenon DEF Pools, QueriesSum, RevocableSum
<1>16. queryMemoryReservations[RESERVED_POOL][q] = f[q]
  BY <1>1, <1>2, PoolFacts, Zenon DEF SumsInv, HomeInv
<1>17. TagsSum(GENERAL_POOL, q)'
  BY <1>8, <1>9, <1>10, FiniteBooks, SumZero, Zenon DEF TagsSum
<1>18. TagsSum(RESERVED_POOL, q)'
  <2>1. f[q] = Sum(taggedMemoryAllocations[GENERAL_POOL][q], AllTags)
    BY <1>2, PoolFacts, Zenon DEF SumsInv, TagsSum
  <2> QED
    BY <1>8, <1>9, <1>16, <2>1, Zenon DEF TagsSum
<1>19. ASSUME NEW p \in Pools, NEW x \in Queries \ {q} PROVE TagsSum(p, x)'
  <2>1. queryMemoryReservations'[p][x] = queryMemoryReservations[p][x]
    BY <1>2, <1>8, <1>10, Zenon DEF Pools
  <2> QED
    <3>1. taggedMemoryAllocations'[p][x] = taggedMemoryAllocations[p][x] /\ TagsSum(p, x)
      BY <1>9, Zenon DEF SumsInv
    <3> QED
      BY <2>1, <3>1, Zenon DEF TagsSum
<1>20. \A p \in Pools, x \in Queries : TagsSum(p, x)'
  BY <1>17, <1>18, <1>19 DEF Pools
<1>21. HomeInv'
  <2>1. \A x \in Queries \ {q} : memoryPool'[x] = memoryPool[x]
    BY <1>9 DEF PoolTypeOK
  <2>2. memoryPool'[q] = RESERVED_POOL
    BY <1>9, Zenon DEF PoolTypeOK
  <2>3. ASSUME NEW p \in Pools, NEW x \in Queries, memoryPool'[x] # p
        PROVE  queryMemoryReservations'[p][x] = 0 /\ queryMemoryRevocableReservations'[p][x] = 0
    <3>1. CASE x = q
      BY <1>8, <1>10, <2>2, <2>3, <3>1, Zenon DEF Pools
    <3>2. CASE x # q
      <4>1. queryMemoryReservations[p][x] = 0 /\ queryMemoryRevocableReservations[p][x] = 0
        BY <1>1, <2>1, <2>3, <3>2, Zenon DEF SumsInv, HomeInv
      <4> QED
        BY <1>2, <1>3, <1>4, <1>8, <1>10, <3>2, <4>1, Zenon DEF Pools
    <3> QED
      BY <3>1, <3>2
  <2>4. ASSUME NEW p \in Pools, NEW x \in Queries
        PROVE  taggedMemoryAllocations'[p][x][MOVE_QUERY_TAG] = 0
    <3>1. CASE x = q
      <4>1. taggedMemoryAllocations[GENERAL_POOL][q][MOVE_QUERY_TAG] = 0
        BY PoolFacts, Zenon DEF SumsInv, HomeInv
      <4> QED
        BY <1>9, <3>1, <4>1, FiniteBooks, Zenon DEF Pools
    <3>2. CASE x # q
      <4>1. taggedMemoryAllocations[p][x][MOVE_QUERY_TAG] = 0
        BY <1>1, <3>2, Zenon DEF SumsInv, HomeInv
      <4> QED
        BY <1>9, <3>2, <4>1, Zenon
    <3> QED
      BY <3>1, <3>2
  <2> QED
    BY <1>9, <2>3, <2>4, Zenon DEF HomeInv
<1> QED
  BY <1>15, <1>20, <1>21 DEF SumsInv

LEMMA PoolStepSums == PoolTypeOK /\ SumsInv /\ [PoolNext]_poolVars => SumsInv'
<1> SUFFICES ASSUME PoolTypeOK, SumsInv, [PoolNext]_poolVars PROVE SumsInv'
  OBVIOUS
<1> USE PoolFacts
<1>1. ASSUME NEW d \in Drivers, NEW tag \in Tags, NEW bytes \in Sizes, reserve(d, tag, bytes) PROVE SumsInv'
  <2>1. PICK q \in Queries : q = DriverQuery[d]
    BY Zenon
  <2>2. bytes \in Int
    OBVIOUS
  <2>3. /\ moving # q /\ updateReservation(memoryPool[q], q, tag, bytes)
        /\ UNCHANGED << revocable, memoryPool, moving >>
    BY <1>1, <2>1, UnlockedFacts, Zenon DEF reserve
  <2> QED
    BY <2>2, <2>3, AtHomeSums, Zenon
<1>2. ASSUME NEW d \in Drivers, NEW tag \in Tags, NEW bytes \in Sizes, tryReserve(d, tag, bytes) PROVE SumsInv'
  <2>1. PICK q \in Queries : q = DriverQuery[d]
    BY Zenon
  <2>2. bytes \in Int
    OBVIOUS
  <2>3. /\ moving # q /\ updateReservation(memoryPool[q], q, tag, bytes)
        /\ UNCHANGED << revocable, memoryPool, moving >>
    BY <1>2, <2>1, UnlockedFacts, Zenon DEF tryReserve
  <2> QED
    BY <2>2, <2>3, AtHomeSums, Zenon
<1>3. ASSUME NEW d \in Drivers, NEW bytes \in Sizes, reserveRevocable(d, bytes) PROVE SumsInv'
  <2>1. PICK q \in Queries : q = DriverQuery[d]
    BY Zenon
  <2>2. bytes \in Int
    OBVIOUS
  <2>3. /\ moving # q /\ updateRevocable(memoryPool[q], q, bytes)
        /\ UNCHANGED << amounts, memoryPool, moving >>
    BY <1>3, <2>1, UnlockedFacts, Zenon DEF reserveRevocable
  <2> QED
    BY <2>2, <2>3, AtHomeRevocableSums, Zenon
<1>4. ASSUME NEW q \in Queries, NEW tag \in Tags, NEW bytes \in Sizes, free(q, tag, bytes) PROVE SumsInv'
  <2>1. -bytes \in Int
    OBVIOUS
  <2> QED
    BY <1>4, <2>1, UnlockedFacts, AtHomeSums, Zenon DEF free
<1>5. ASSUME NEW q \in Queries, NEW bytes \in Sizes, freeRevocable(q, bytes) PROVE SumsInv'
  <2>1. -bytes \in Int
    OBVIOUS
  <2> QED
    BY <1>5, <2>1, UnlockedFacts, AtHomeRevocableSums DEF freeRevocable
<1>6. ASSUME NEW q \in Queries, beginMoveQuery(q) PROVE SumsInv'
  BY <1>6, BeginMoveSums
<1>7. CASE endMoveQuery
  BY <1>7, EndMoveSums
<1>8. CASE UNCHANGED poolVars
  BY <1>8, Zenon DEF poolVars, amounts, revocable, SumsInv, HomeInv, QueriesSum, RevocableSum, TagsSum
<1> QED
  BY <1>1, <1>2, <1>3, <1>4, <1>5, <1>6, <1>7, <1>8, Zenon DEF PoolNext

\* The books of the pools balance in every state, whatever queries reserve, free and move
\* between pools and at whatever moment: the bytes of a pool are those of its queries, the
\* bytes of a query those of its tags, and a query leaves nothing behind in the other pool.
THEOREM BooksBalance == PoolSpec => [](BytesAddUp /\ TagsAddUp)
<1>1. PoolInv => PoolTypeOK
  BY DEF PoolInv
<1> QED
  BY <1>1, PoolInvariant, PoolInitSums, PoolStepSums, SumsAddUp, PTL DEF PoolSpec

-----------------------------------------------------------------------------
(* The page of the worker: what it says of the pools. *)

\* The entries of a pool's answer, for the queries with bytes.
EntriesOf(f) == [q \in {x \in Queries : f[x] > 0} |-> f[q]]

\* The answer of a pool of the given size whose queries have the bytes f and g.
InfoOf(size, f, g) ==
    [ maxBytes |-> size,
      reservedBytes |-> Sum(f, Queries),
      reservedRevocableBytes |-> Sum(g, Queries),
      queryMemoryReservations |-> EntriesOf(f),
      queryMemoryRevocableReservations |-> EntriesOf(g) ]

\* An answer that adds up.
InfoAddsUp(info) == \E size \in Nat, f, g \in [Queries -> Nat] : info = InfoOf(size, f, g)

\* A query has left the general pool, or is leaving it.
HasLeft(q) == memoryPool[q] = RESERVED_POOL \/ moving = q

\* The pool that was read adds up, and the queries it has an entry for have left the other.
HalfInv ==
    request.phase = "half" =>
        InfoAddsUp(request.info) /\ \A q \in Queries : q \in listedQueries(request.info) => HasLeft(q)

\* What the page knows adds up and has each query in one pool.
ShownInv ==
    serverInfo # Null =>
        /\ \A p \in Pools : InfoAddsUp(serverInfo.pools[p])
        /\ \A q \in Queries : ~(/\ q \in listedQueries(serverInfo.pools[RESERVED_POOL])
                                /\ q \in listedQueries(serverInfo.pools[GENERAL_POOL]))

PageInv == HalfInv /\ ShownInv

\* What a pool says adds up, because its books do.
LEMMA InfoBalances ==
    ASSUME PoolTypeOK, SumsInv, NEW p \in Pools
    PROVE  InfoAddsUp(getInfo(p))
<1> USE PoolFacts
<1>1. maxBytes[p] \in Nat
  OBVIOUS
<1>2. queryMemoryReservations[p] \in [Queries -> Nat] /\ queryMemoryRevocableReservations[p] \in [Queries -> Nat]
  BY DEF PoolTypeOK
<1>3. /\ reservedBytes[p] = Sum(queryMemoryReservations[p], Queries)
      /\ reservedRevocableBytes[p] = Sum(queryMemoryRevocableReservations[p], Queries)
  BY Zenon DEF SumsInv, QueriesSum, RevocableSum
<1>4. getInfo(p) = InfoOf(maxBytes[p], queryMemoryReservations[p], queryMemoryRevocableReservations[p])
  BY <1>3, Zenon DEF getInfo, InfoOf, EntriesOf
<1> QED
  BY <1>1, <1>2, <1>4, Zenon DEF InfoAddsUp

\* The queries with a row in the table of such a pool.
LEMMA ListedQueries ==
    ASSUME NEW size, NEW f \in [Queries -> Nat], NEW g \in [Queries -> Nat]
    PROVE  listedQueries(InfoOf(size, f, g)) = {q \in Queries : f[q] > 0 \/ g[q] > 0}
<1>1. /\ DOMAIN InfoOf(size, f, g).queryMemoryReservations = {q \in Queries : f[q] > 0}
      /\ DOMAIN InfoOf(size, f, g).queryMemoryRevocableReservations = {q \in Queries : g[q] > 0}
  BY DEF InfoOf, EntriesOf
<1> QED
  BY <1>1 DEF listedQueries

\* A pool lists only queries with bytes in it.
LEMMA ListedHasBytes ==
    ASSUME PoolTypeOK, NEW p \in Pools, NEW q \in Queries, q \in listedQueries(getInfo(p))
    PROVE  queryMemoryReservations[p][q] # 0 \/ queryMemoryRevocableReservations[p][q] # 0
<1>1. /\ DOMAIN getInfo(p).queryMemoryReservations = {x \in Queries : queryMemoryReservations[p][x] > 0}
      /\ DOMAIN getInfo(p).queryMemoryRevocableReservations = {x \in Queries : queryMemoryRevocableReservations[p][x] > 0}
  BY DEF getInfo
<1>2. queryMemoryReservations[p][q] > 0 \/ queryMemoryRevocableReservations[p][q] > 0
  BY <1>1 DEF listedQueries
<1> QED
  BY <1>2

\* No step of the pools takes a query back.
LEMMA LeavingIsForGood ==
    ASSUME PoolTypeOK, PoolNext, NEW q \in Queries, HasLeft(q)
    PROVE  HasLeft(q)'
<1> USE PoolFacts
<1>1. ASSUME NEW x \in Queries, beginMoveQuery(x) PROVE HasLeft(q)'
  BY <1>1, Zenon DEF beginMoveQuery, HasLeft
<1>2. CASE endMoveQuery
  <2>1. memoryPool' = [memoryPool EXCEPT ![moving] = RESERVED_POOL]
    BY <1>2, Zenon DEF endMoveQuery
  <2>2. memoryPool'[q] = RESERVED_POOL
    BY <2>1, Zenon DEF PoolTypeOK, HasLeft
  <2> QED
    BY <2>2 DEF HasLeft
<1>3. CASE UNCHANGED << memoryPool, moving >>
  BY <1>3, Zenon DEF HasLeft
<1>4. \/ \E x \in Queries : beginMoveQuery(x)
      \/ endMoveQuery
      \/ UNCHANGED << memoryPool, moving >>
  BY Zenon DEF PoolNext, reserve, tryReserve, reserveRevocable, free, freeRevocable
<1> QED
  BY <1>1, <1>2, <1>3, <1>4, Zenon

\* A query with bytes in the reserved pool has left, and one that has left has no bytes
\* in the general pool once no query is being moved.
LEMMA LeftFacts ==
    ASSUME PoolTypeOK, SumsInv, NEW q \in Queries
    PROVE  /\ q \in listedQueries(getInfo(RESERVED_POOL)) => HasLeft(q)
           /\ moving = Null /\ HasLeft(q) => q \notin listedQueries(getInfo(GENERAL_POOL))
<1> USE PoolFacts
<1>1. \A p \in Pools : moving # q /\ memoryPool[q] # p =>
          queryMemoryReservations[p][q] = 0 /\ queryMemoryRevocableReservations[p][q] = 0
  BY Zenon DEF SumsInv, HomeInv
<1>2. \A p \in Pools : moving # q /\ memoryPool[q] # p => q \notin listedQueries(getInfo(p))
  BY <1>1, ListedHasBytes, Zenon
<1> QED
  BY <1>2, Zenon DEF HasLeft

LEMMA PageInit == Init => PageInv
BY DEF Init, PageInv, HalfInv, ShownInv

\* The steps of the pools leave the page alone.
LEMMA PoolsUnderPage ==
    ASSUME PoolTypeOK, PageInv, PoolNext, UNCHANGED pageVars
    PROVE  PageInv'
<1>1. UNCHANGED << serverInfo, request >>
  BY Zenon DEF pageVars
<1>2. ShownInv'
  BY <1>1, Zenon DEF PageInv, ShownInv, InfoAddsUp, InfoOf, EntriesOf, listedQueries
<1>3. ASSUME request.phase = "half"
      PROVE  (InfoAddsUp(request.info) /\ \A q \in Queries : q \in listedQueries(request.info) => HasLeft(q))'
  <2>1. InfoAddsUp(request.info)'
    BY <1>1, <1>3, Zenon DEF PageInv, HalfInv, InfoAddsUp, InfoOf, EntriesOf
  <2>2. ASSUME NEW q \in Queries, q \in listedQueries(request.info) PROVE HasLeft(q)'
    BY <1>3, <2>2, LeavingIsForGood, Zenon DEF PageInv, HalfInv
  <2> QED
    BY <1>1, <2>1, <2>2, Zenon DEF listedQueries
<1>4. HalfInv'
  BY <1>1, <1>3, Zenon DEF HalfInv
<1> QED
  BY <1>2, <1>4 DEF PageInv

\* The worker reads its first pool.
LEMMA readFirstPoolPage ==
    ASSUME PoolTypeOK, SumsInv, PageInv, readFirstPool
    PROVE  PageInv'
<1> USE PoolFacts
<1>1. UNCHANGED << poolVars, serverInfo >> /\ request' = [phase |-> "half", info |-> getInfo(RESERVED_POOL)]
  BY DEF readFirstPool, PoolOrder
<1>2. ShownInv'
  BY <1>1, Zenon DEF PageInv, ShownInv, InfoAddsUp, InfoOf, EntriesOf, listedQueries
<1>3. request'.info = getInfo(RESERVED_POOL)
  BY <1>1, Zenon
<1>4. InfoAddsUp(request'.info)
  BY <1>3, InfoBalances, Zenon
<1>5. \A q \in Queries : q \in listedQueries(request'.info) => HasLeft(q)
  BY <1>3, LeftFacts, Zenon
<1>6. \A q \in Queries : HasLeft(q)' <=> HasLeft(q)
  BY <1>1, Zenon DEF poolVars, HasLeft
<1> QED
  BY <1>2, <1>4, <1>5, <1>6, Zenon DEF PageInv, HalfInv, InfoAddsUp, InfoOf, EntriesOf, listedQueries

\* The worker reads the other pool and the page takes the answer.
LEMMA ReceiveStatusPage ==
    ASSUME PoolTypeOK, SumsInv, PageInv, NEW heap, NEW nonHeap, ReceiveStatus(heap, nonHeap)
    PROVE  PageInv'
<1> USE PoolFacts
<1>1. request.phase = "half" /\ moving = Null /\ request' = [phase |-> "none"]
  BY DEF ReceiveStatus, PoolOrder, Readable
<1>2. /\ serverInfo'.pools = [p \in Pools |-> IF p = RESERVED_POOL THEN request.info ELSE getInfo(p)]
  BY DEF ReceiveStatus, PoolOrder
<1>3. serverInfo'.pools[RESERVED_POOL] = request.info /\ serverInfo'.pools[GENERAL_POOL] = getInfo(GENERAL_POOL)
  BY <1>2, Zenon
<1>4. InfoAddsUp(request.info) /\ \A q \in Queries : q \in listedQueries(request.info) => HasLeft(q)
  BY <1>1, Zenon DEF PageInv, HalfInv
<1>5. \A p \in Pools : InfoAddsUp(serverInfo'.pools[p])
  BY <1>3, <1>4, InfoBalances, Zenon DEF Pools
<1>6. \A q \in Queries : ~(/\ q \in listedQueries(serverInfo'.pools[RESERVED_POOL])
                           /\ q \in listedQueries(serverInfo'.pools[GENERAL_POOL]))
  BY <1>1, <1>3, <1>4, LeftFacts, Zenon
<1>7. ShownInv'
  BY <1>5, <1>6, Zenon DEF ShownInv, InfoAddsUp, InfoOf, EntriesOf, listedQueries
<1>8. HalfInv'
  BY <1>1, Zenon DEF HalfInv
<1> QED
  BY <1>7, <1>8 DEF PageInv

LEMMA PageStep == PoolTypeOK /\ SumsInv /\ PageInv /\ [Next]_vars => PageInv'
<1> SUFFICES ASSUME PoolTypeOK, SumsInv, PageInv, [Next]_vars PROVE PageInv'
  OBVIOUS
<1>1. CASE PoolNext /\ UNCHANGED pageVars
  BY <1>1, PoolsUnderPage
<1>2. CASE serverInfo' = serverInfo /\ (request'.phase = "none" \/ request'.phase = "sent")
  <2>1. ShownInv'
    BY <1>2, Zenon DEF PageInv, ShownInv, InfoAddsUp, InfoOf, EntriesOf, listedQueries
  <2> QED
    BY <1>2, <2>1, Zenon DEF PageInv, HalfInv
<1>3. CASE refreshLoop
  BY <1>2, <1>3, Zenon DEF refreshLoop
<1>4. CASE readFirstPool
  BY <1>4, readFirstPoolPage
<1>5. ASSUME NEW heap \in HeapUsed, NEW nonHeap \in NonHeapUsed, ReceiveStatus(heap, nonHeap) PROVE PageInv'
  BY <1>5, ReceiveStatusPage
<1>6. CASE ReceiveError
  BY <1>2, <1>6, Zenon DEF ReceiveError
<1>7. CASE UNCHANGED vars
  <2>1. UNCHANGED << serverInfo, request, memoryPool, moving >>
    BY <1>7, Zenon DEF vars, pageVars, poolVars
  <2>2. ShownInv'
    BY <2>1, Zenon DEF PageInv, ShownInv, InfoAddsUp, InfoOf, EntriesOf, listedQueries
  <2>3. HalfInv'
    BY <2>1, Zenon DEF PageInv, HalfInv, HasLeft, InfoAddsUp, InfoOf, EntriesOf, listedQueries
  <2> QED
    BY <2>2, <2>3 DEF PageInv
<1> QED
  BY <1>1, <1>3, <1>4, <1>5, <1>6, <1>7, Zenon DEF Next

\* The pools under the page take their own steps and no others.
LEMMA PageOverPools == Spec => PoolSpec
<1>1. Init => PoolInit
  BY DEF Init
<1>2. [Next]_vars => [PoolNext]_poolVars
  BY Zenon DEF Next, vars, refreshLoop, readFirstPool, ReceiveStatus, ReceiveError
<1> QED
  BY <1>1, <1>2, PTL DEF Spec, PoolSpec

-----------------------------------------------------------------------------
(* The rows of the page's tables. *)

\* The bytes in a column of a table are added up like any others.
LEMMA ReservedColumn ==
    ASSUME NEW R, IsFiniteSet(R), NEW w \in [R -> Int], NEW S \in SUBSET R, \A r \in R : w[r] = r.reserved
    PROVE  MapThenSumSet(LAMBDA r : r.reserved, S) = Sum(w, S)
<1> DEFINE Iter(it) == [s \in SUBSET S |-> IF s = {} THEN 0 ELSE First(s).reserved + it[s \ {First(s)}]]
           it == CHOOSE it : it = Iter(it)
<1>1. MapThenSumSet(LAMBDA r : r.reserved, S) = it[S]
  BY DEF MapThenSumSet, MapThenFoldSet, First
<1>2. ASSUME NEW s \in SUBSET S, s # {} PROVE w[First(s)] = First(s).reserved
  <2>1. First(s) \in R
    BY <1>2, FirstIsMember
  <2> QED
    BY <2>1
<1>3. \E g : g = Iter(g)
  <2>1. PICK sum \in [SUBSET R -> Int] : IsSum(sum, w, R)
    BY SumExists, Zenon
  <2> DEFINE g == [s \in SUBSET S |-> sum[s]]
  <2>2. ASSUME NEW s \in SUBSET S
        PROVE  g[s] = IF s = {} THEN 0 ELSE First(s).reserved + g[s \ {First(s)}]
    <3>1. s \in SUBSET R /\ s \ {First(s)} \in SUBSET S
      OBVIOUS
    <3>2. sum[s] = IF s = {} THEN 0 ELSE w[First(s)] + sum[s \ {First(s)}]
      BY <2>1, <3>1, Zenon DEF IsSum
    <3>3. g[s] = sum[s] /\ g[s \ {First(s)}] = sum[s \ {First(s)}]
      BY <3>1, Zenon
    <3> HIDE DEF g
    <3> QED
      BY <1>2, <3>2, <3>3, Zenon
  <2>3. g = Iter(g)
    BY <2>2, Zenon
  <2> HIDE DEF Iter, g
  <2> QED
    BY <2>3, Zenon
<1>4. it = Iter(it)
  <2> HIDE DEF Iter
  <2> QED
    BY <1>3, Zenon
<1> HIDE DEF it
<1>5. \A s \in SUBSET S : it[s] = IF s = {} THEN 0 ELSE w[First(s)] + it[s \ {First(s)}]
  BY <1>2, <1>4, Zenon
<1>6. it[S] = Sum(w, S)
  BY <1>5, RecursionIsSum, Zenon
<1> QED
  BY <1>1, <1>6, Zenon

LEMMA RevocableColumn ==
    ASSUME NEW R, IsFiniteSet(R), NEW w \in [R -> Int], NEW S \in SUBSET R, \A r \in R : w[r] = r.revocable
    PROVE  MapThenSumSet(LAMBDA r : r.revocable, S) = Sum(w, S)
<1> DEFINE Iter(it) == [s \in SUBSET S |-> IF s = {} THEN 0 ELSE First(s).revocable + it[s \ {First(s)}]]
           it == CHOOSE it : it = Iter(it)
<1>1. MapThenSumSet(LAMBDA r : r.revocable, S) = it[S]
  BY DEF MapThenSumSet, MapThenFoldSet, First
<1>2. ASSUME NEW s \in SUBSET S, s # {} PROVE w[First(s)] = First(s).revocable
  <2>1. First(s) \in R
    BY <1>2, FirstIsMember
  <2> QED
    BY <2>1
<1>3. \E g : g = Iter(g)
  <2>1. PICK sum \in [SUBSET R -> Int] : IsSum(sum, w, R)
    BY SumExists, Zenon
  <2> DEFINE g == [s \in SUBSET S |-> sum[s]]
  <2>2. ASSUME NEW s \in SUBSET S
        PROVE  g[s] = IF s = {} THEN 0 ELSE First(s).revocable + g[s \ {First(s)}]
    <3>1. s \in SUBSET R /\ s \ {First(s)} \in SUBSET S
      OBVIOUS
    <3>2. sum[s] = IF s = {} THEN 0 ELSE w[First(s)] + sum[s \ {First(s)}]
      BY <2>1, <3>1, Zenon DEF IsSum
    <3>3. g[s] = sum[s] /\ g[s \ {First(s)}] = sum[s \ {First(s)}]
      BY <3>1, Zenon
    <3> HIDE DEF g
    <3> QED
      BY <1>2, <3>2, <3>3, Zenon
  <2>3. g = Iter(g)
    BY <2>2, Zenon
  <2> HIDE DEF Iter, g
  <2> QED
    BY <2>3, Zenon
<1>4. it = Iter(it)
  <2> HIDE DEF Iter
  <2> QED
    BY <1>3, Zenon
<1> HIDE DEF it
<1>5. \A s \in SUBSET S : it[s] = IF s = {} THEN 0 ELSE w[First(s)] + it[s \ {First(s)}]
  BY <1>2, <1>4, Zenon
<1>6. it[S] = Sum(w, S)
  BY <1>5, RecursionIsSum, Zenon
<1> QED
  BY <1>1, <1>6, Zenon

\* The row of a query.
RowOf(size, f, g, q) == renderPoolQuery(q, f[q], g[q], size)

LEMMA RowFields ==
    ASSUME NEW size, NEW f, NEW g, NEW q
    PROVE  /\ RowOf(size, f, g, q).query = q
           /\ RowOf(size, f, g, q).reserved = f[q]
           /\ RowOf(size, f, g, q).revocable = g[q]
BY DEF RowOf, renderPoolQuery

\* An entry that is missing counts for nothing, so that a query which has bytes of one
\* kind alone has a row like the others.
LEMMA RowsOfInfo ==
    ASSUME NEW size, NEW f \in [Queries -> Nat], NEW g \in [Queries -> Nat]
    PROVE  renderPoolQueries(InfoOf(size, f, g)) =
              {RowOf(size, f, g, q) : q \in {x \in Queries : f[x] > 0 \/ g[x] > 0}}
<1> DEFINE info == InfoOf(size, f, g)
           Entry(h, q) == IF q \in DOMAIN h THEN h[q] ELSE 0
           L == {x \in Queries : f[x] > 0 \/ g[x] > 0}
<1>1. /\ info.queryMemoryReservations = EntriesOf(f)
      /\ info.queryMemoryRevocableReservations = EntriesOf(g)
      /\ info.maxBytes = size
  BY DEF InfoOf
<1>2. ASSUME NEW h \in [Queries -> Nat], NEW q \in Queries PROVE Entry(EntriesOf(h), q) = h[q]
  BY DEF EntriesOf
<1>3. listedQueries(info) = L
  BY ListedQueries
<1>4. renderPoolQueries(info) =
         { renderPoolQuery(q, Entry(info.queryMemoryReservations, q),
                           Entry(info.queryMemoryRevocableReservations, q), info.maxBytes) : q \in listedQueries(info) }
  BY Zenon DEF renderPoolQueries
<1>5. \A q \in L : q \in Queries
  OBVIOUS
<1> HIDE DEF info, Entry, L
<1>6. renderPoolQueries(info) =
         { renderPoolQuery(q, Entry(EntriesOf(f), q), Entry(EntriesOf(g), q), size) : q \in L }
  BY <1>1, <1>3, <1>4, Zenon
<1>7. ASSUME NEW q \in L PROVE renderPoolQuery(q, Entry(EntriesOf(f), q), Entry(EntriesOf(g), q), size) = RowOf(size, f, g, q)
  BY <1>2, <1>5, Zenon DEF RowOf
<1>8. renderPoolQueries(info) = {RowOf(size, f, g, q) : q \in L}
  BY <1>6, <1>7
<1> QED
  BY <1>8 DEF info, L

RowsOf(size, f, g, L) == {RowOf(size, f, g, q) : q \in L}

\* The rows, one for each query, add up to the given bytes.
TableBalances(rows, bytes, revocableBytes) ==
    /\ MapThenSumSet(LAMBDA r : r.reserved, rows) = bytes
    /\ MapThenSumSet(LAMBDA r : r.revocable, rows) = revocableBytes
    /\ Cardinality({r.query : r \in rows}) = Cardinality(rows)

\* The rows of the queries with bytes add up to the bytes of all queries.
LEMMA RowsBalance ==
    ASSUME NEW size, NEW f \in [Queries -> Nat], NEW g \in [Queries -> Nat],
           NEW L \in SUBSET Queries, \A q \in Queries \ L : f[q] = 0 /\ g[q] = 0
    PROVE  TableBalances(RowsOf(size, f, g, L), Sum(f, Queries), Sum(g, Queries))
<1> DEFINE row == [q \in Queries |-> RowOf(size, f, g, q)]
           R == {RowOf(size, f, g, q) : q \in Queries}
           S == {RowOf(size, f, g, q) : q \in L}
           v == [r \in R |-> r.reserved]
           w == [r \in R |-> r.revocable]
<1>1. \A q \in Queries : row[q] = RowOf(size, f, g, q) /\ row[q] \in R
  OBVIOUS
<1>2. row \in [Queries -> R] /\ S \in SUBSET R /\ S = ImagesOf(row, L)
  BY <1>1, Zenon DEF ImagesOf
<1>3. \A x, y \in Queries : row[x] = row[y] => x = y
  <2>1. \A q \in Queries : RowOf(size, f, g, q).query = q
    BY RowFields
  <2> HIDE DEF row
  <2>2. \A q \in Queries : row[q].query = q
    BY <1>1, <2>1
  <2> QED
    BY <2>2, Zenon
<1>4. IsFiniteSet(R)
  <2>1. row \in Bijection(Queries, R)
    <3>1. \A r \in R : \E q \in Queries : row[q] = r
      BY <1>1
    <3> HIDE DEF row, R
    <3> QED
      BY <1>2, <1>3, <3>1, Zenon DEF Bijection, Injection, Surjection, IsInjective
  <2> HIDE DEF row, R
  <2> QED
    BY <2>1, FiniteBooks, FS_Bijection, Zenon DEF ExistsBijection
<1>5. /\ v \in [R -> Int] /\ \A r \in R : v[r] = r.reserved
      /\ w \in [R -> Int] /\ \A r \in R : w[r] = r.revocable
  <2>1. \A r \in R : r.reserved \in Int /\ r.revocable \in Int
    <3>1. \A q \in Queries : RowOf(size, f, g, q).reserved \in Int /\ RowOf(size, f, g, q).revocable \in Int
      BY RowFields
    <3> QED
      BY <3>1, Zenon
  <2> HIDE DEF R
  <2> QED
    BY <2>1, Zenon
<1>6. /\ \A q \in Queries : v[row[q]] = f[q]
      /\ \A q \in Queries : w[row[q]] = g[q]
  <2>1. \A q \in Queries : RowOf(size, f, g, q).reserved = f[q] /\ RowOf(size, f, g, q).revocable = g[q]
    BY RowFields
  <2> HIDE DEF row, R, v, w
  <2>2. \A q \in Queries : row[q].reserved = f[q] /\ row[q].revocable = g[q]
    BY <1>1, <2>1
  <2> QED
    BY <1>1, <1>5, <2>2, Zenon
<1>7. f \in [Queries -> Int] /\ g \in [Queries -> Int]
  OBVIOUS
<1>8. IsFiniteSet(Queries)
  BY FiniteBooks
<1>9. Cardinality({r.query : r \in S}) = Cardinality(S)
  <2> DEFINE Row(q) == RowOf(size, f, g, q)
  <2>1. {r.query : r \in S} = L
    <3>1. \A q \in L : Row(q).query = q
      BY RowFields
    <3> HIDE DEF Row
    <3>2. {r.query : r \in {Row(q) : q \in L}} = L
      BY <3>1
    <3> QED
      BY <3>2 DEF Row
  <2>2. IsFiniteSet(L)
    BY <1>8, FS_Subset
  <2> DEFINE short == [q \in L |-> RowOf(size, f, g, q)]
  <2>3. short \in [L -> S] /\ (\A q \in L : short[q] = RowOf(size, f, g, q)) /\ \A r \in S : \E q \in L : short[q] = r
    OBVIOUS
  <2> HIDE DEF short, S
  <2>4. \A x, y \in L : short[x] = short[y] => x = y
    <3>1. \A q \in L : RowOf(size, f, g, q).query = q
      BY RowFields
    <3>2. \A q \in L : short[q].query = q
      BY <2>3, <3>1
    <3> QED
      BY <3>2, Zenon
  <2>5. short \in Bijection(L, S)
    BY <2>3, <2>4, Zenon DEF Bijection, Injection, Surjection, IsInjective
  <2> QED
    BY <2>1, <2>2, <2>5, FS_Bijection, Zenon DEF ExistsBijection
<1> HIDE DEF row, R, S, v, w
<1>10. Sum(v, ImagesOf(row, L)) = Sum(f, L)
  <2>1. Carries(row, Queries, f, R, v)
    BY <1>2, <1>3, <1>6, Zenon DEF Carries
  <2>2. v \in [R -> Int]
    BY <1>5, Zenon
  <2> QED
    BY <1>4, <1>7, <1>8, <2>1, <2>2, SumOfImages
<1>11. Sum(w, ImagesOf(row, L)) = Sum(g, L)
  <2>1. Carries(row, Queries, g, R, w)
    BY <1>2, <1>3, <1>6, Zenon DEF Carries
  <2>2. w \in [R -> Int]
    BY <1>5, Zenon
  <2> QED
    BY <1>4, <1>7, <1>8, <2>1, <2>2, SumOfImages
<1>12. Sum(f, L) = Sum(f, Queries) /\ Sum(g, L) = Sum(g, Queries)
  BY <1>7, <1>8, SumOfSupport, Zenon
<1>13. MapThenSumSet(LAMBDA r : r.reserved, S) = Sum(v, S)
  BY <1>2, <1>4, <1>5, ReservedColumn, Zenon
<1>14. MapThenSumSet(LAMBDA r : r.revocable, S) = Sum(w, S)
  BY <1>2, <1>4, <1>5, RevocableColumn, Zenon
<1>15. /\ MapThenSumSet(LAMBDA r : r.reserved, S) = Sum(f, Queries)
       /\ MapThenSumSet(LAMBDA r : r.revocable, S) = Sum(g, Queries)
  BY <1>2, <1>10, <1>11, <1>12, <1>13, <1>14, Zenon
<1>16. S = RowsOf(size, f, g, L)
  BY DEF S, RowsOf
<1> QED
  BY <1>9, <1>15, <1>16, Zenon DEF TableBalances

LEMMA InfoRows ==
    ASSUME NEW info, InfoAddsUp(info)
    PROVE  /\ TableBalances(renderPoolQueries(info), info.reservedBytes, info.reservedRevocableBytes)
           /\ \A r \in renderPoolQueries(info) : r.query \in Queries /\ r.query \in listedQueries(info)
<1>1. PICK size \in Nat, f \in [Queries -> Nat], g \in [Queries -> Nat] : info = InfoOf(size, f, g)
  BY Zenon DEF InfoAddsUp
<1> DEFINE L == {x \in Queries : f[x] > 0 \/ g[x] > 0}
<1>2. L \in SUBSET Queries /\ \A q \in Queries \ L : f[q] = 0 /\ g[q] = 0
  OBVIOUS
<1>3. renderPoolQueries(info) = RowsOf(size, f, g, L) /\ listedQueries(info) = L
  BY <1>1, RowsOfInfo, ListedQueries DEF RowsOf
<1>4. info.reservedBytes = Sum(f, Queries) /\ info.reservedRevocableBytes = Sum(g, Queries)
  BY <1>1 DEF InfoOf
<1> HIDE DEF L
<1>5. TableBalances(RowsOf(size, f, g, L), Sum(f, Queries), Sum(g, Queries))
  BY <1>2, RowsBalance
<1>6. \A r \in renderPoolQueries(info) : r.query \in Queries /\ r.query \in listedQueries(info)
  <2>1. \A q \in L : RowOf(size, f, g, q).query = q
    BY RowFields
  <2> QED
    BY <1>2, <1>3, <2>1, Zenon DEF RowsOf
<1> QED
  BY <1>3, <1>4, <1>5, <1>6, Zenon

\* What the page shows follows from what it knows.
LEMMA ShownAddsUp == ShownInv => QueryIsInOnePool /\ RowsAddUp
<1> SUFFICES ASSUME ShownInv, serverInfo # Null PROVE QueryIsInOnePool /\ RowsAddUp
  BY Zenon DEF QueryIsInOnePool, RowsAddUp
<1> USE PoolFacts
<1>1. /\ \A p \in Pools : InfoAddsUp(serverInfo.pools[p])
      /\ \A q \in Queries : ~(/\ q \in listedQueries(serverInfo.pools[RESERVED_POOL])
                              /\ q \in listedQueries(serverInfo.pools[GENERAL_POOL]))
  BY Zenon DEF ShownInv
<1>2. Screen.rows = [p \in Pools |-> renderPoolQueries(serverInfo.pools[p])]
  BY DEF Screen
<1>3. \A p \in Pools : Screen.rows[p] = renderPoolQueries(serverInfo.pools[p])
  BY <1>2, Zenon
<1>4. QueryIsInOnePool
  <2>1. \A r \in Screen.rows[GENERAL_POOL] :
           r.query \in Queries /\ r.query \in listedQueries(serverInfo.pools[GENERAL_POOL])
    BY <1>1, <1>3, InfoRows, Zenon
  <2>2. \A s \in Screen.rows[RESERVED_POOL] : s.query \in listedQueries(serverInfo.pools[RESERVED_POOL])
    BY <1>1, <1>3, InfoRows, Zenon
  <2> QED
    BY <1>1, <2>1, <2>2, Zenon DEF QueryIsInOnePool
<1>5. RowsAddUp
  <2>1. ASSUME NEW p \in Pools
        PROVE  /\ MapThenSumSet(LAMBDA r : r.reserved, Screen.rows[p]) = serverInfo.pools[p].reservedBytes
               /\ MapThenSumSet(LAMBDA r : r.revocable, Screen.rows[p]) = serverInfo.pools[p].reservedRevocableBytes
               /\ Cardinality({r.query : r \in Screen.rows[p]}) = Cardinality(Screen.rows[p])
    <3>1. InfoAddsUp(serverInfo.pools[p]) /\ Screen.rows[p] = renderPoolQueries(serverInfo.pools[p])
      BY <1>1, <1>3, Zenon
    <3> QED
      BY <3>1, InfoRows, Zenon DEF TableBalances
  <2> QED
    BY <2>1, Zenon DEF RowsAddUp
<1> QED
  BY <1>4, <1>5

LEMMA PageInvariant == Spec => []PageInv
<1>1. PoolInv => PoolTypeOK
  BY DEF PoolInv
<1>2. Spec => []PoolInv
  BY PageOverPools, PoolInvariant, PTL
<1>3. Spec => []SumsInv
  BY <1>1, <1>2, PageOverPools, PoolInitSums, PoolStepSums, PTL DEF PoolSpec
<1> QED
  BY <1>1, <1>2, <1>3, PageInit, PageStep, PTL DEF Spec

\* The page of a worker, which is answered from one pool after the other while queries
\* reserve, free and move: no query is listed in both tables, whatever moves between the
\* two readings, because the worker reads the pool queries move to first and the other
\* one under the monitor that a move holds.
THEOREM OneTablePerQuery == Spec => []QueryIsInOnePool
<1>1. PageInv => QueryIsInOnePool
  BY ShownAddsUp DEF PageInv
<1> QED
  BY <1>1, PageInvariant, PTL

\* The rows of each table of that page, one for each query it lists, add up to the bytes
\* the page shows for the pool, reserved and revocable ones.
THEOREM TablesAddUp == Spec => []RowsAddUp
<1>1. PageInv => RowsAddUp
  BY ShownAddsUp DEF PageInv
<1> QED
  BY <1>1, PageInvariant, PTL
=============================================================================
