--------------------------- MODULE ComponentProofs --------------------------
(***************************************************************************)
(* Proofs about three components that stand on their own.                  *)
(*                                                                         *)
(* OutputBufferMemory, for any number of drivers, any page sizes and any   *)
(* limit: the limit is exceeded by at most a page of every driver, and no  *)
(* driver waits for a future nobody will complete.                         *)
(*                                                                         *)
(* QueryStateMachine: how a query ends, for any number of failing calls,   *)
(* Kill and Preempt requests and readers: it has a cause if it failed, its *)
(* outcome never changes, every answered request was told the truth, and   *)
(* what is cached as final is final.                                       *)
(*                                                                         *)
(* PageTitle: the title bar of the web pages tells the truth about the     *)
(* connection through any number of outages, however long, whatever the    *)
(* user closes in between.                                                 *)
(***************************************************************************)
EXTENDS OutputBufferMemory, QueryStateMachine, PageTitle, FiniteSetTheorems, TLAPS

-----------------------------------------------------------------------------
(* The memory of an output buffer. *)


USE LimitAssumption, SizeAssumption

-----------------------------------------------------------------------------
(* The number of committed drivers. *)

\* A product with a natural number grows with the other factor.
LEMMA ProductMonotone ==
    ASSUME NEW a \in Nat, NEW n \in Nat, NEW k \in Nat, n <= k
    PROVE  a * n <= a * k
<1>1. a * (k - n) >= 0
  OBVIOUS
<1>2. a * (k - n) = a * k - a * n
  OBVIOUS
<1> QED
  BY <1>1, <1>2

\* Fewer committed drivers leave no less room.
LEMMA FewerCommitted ==
    ASSUME NEW C \in SUBSET Driver, NEW E \in SUBSET C
    PROVE  /\ Cardinality(C) \in Nat /\ Cardinality(E) \in Nat /\ Cardinality(Driver) \in Nat
           /\ LargestPage * Cardinality(E) <= LargestPage * Cardinality(C)
<1>1. IsFiniteSet(C) /\ IsFiniteSet(E)
  BY FS_Subset, DriverAssumption
<1>2. Cardinality(C) \in Nat /\ Cardinality(E) \in Nat /\ Cardinality(Driver) \in Nat
  BY <1>1, FS_CardinalityType, DriverAssumption
<1>3. Cardinality(E) <= Cardinality(C)
  BY <1>1, FS_Subset
<1> QED
  BY <1>2, <1>3, ProductMonotone

\* One committed driver more takes the room of one page, and all drivers
\* together have theirs.
LEMMA OneMoreCommitted ==
    ASSUME NEW C \in SUBSET Driver, NEW d \in Driver, d \notin C
    PROVE  /\ Cardinality(C) \in Nat /\ Cardinality(C \cup {d}) \in Nat /\ Cardinality(Driver) \in Nat
           /\ LargestPage * Cardinality(C \cup {d}) = LargestPage * Cardinality(C) + LargestPage
           /\ LargestPage * Cardinality(C \cup {d}) <= LargestPage * Cardinality(Driver)
<1>1. IsFiniteSet(C)
  BY FS_Subset, DriverAssumption
<1>2. Cardinality(C \cup {d}) = Cardinality(C) + 1
  BY <1>1, FS_AddElement
<1>3. Cardinality(C) \in Nat /\ Cardinality(C \cup {d}) \in Nat
  BY <1>1, <1>2, FS_CardinalityType
<1>4. LargestPage * (Cardinality(C) + 1) = LargestPage * Cardinality(C) + LargestPage
  BY <1>3
<1>5. LargestPage * Cardinality(C \cup {d}) <= LargestPage * Cardinality(Driver)
  BY FewerCommitted, C \cup {d} \in SUBSET Driver
<1>6. Cardinality(Driver) \in Nat
  BY FS_CardinalityType, DriverAssumption
<1> QED
  BY <1>2, <1>3, <1>4, <1>5, <1>6

-----------------------------------------------------------------------------
(* What a call of updateMemoryUsage does. *)

\* It preserves the future's invariant and counts the bytes, unless closed.
LEMMA UpdateFacts ==
    ASSUME Inv, NEW n \in Int, bufferedBytes + n \in Nat,
           UpdateMemoryUsage(n), UNCHANGED <<blockOnFull, poolExhausted>>
    PROVE  /\ bufferedBytes' = IF closed THEN bufferedBytes ELSE bufferedBytes + n
           /\ bufferedBytes' \in Nat
           /\ bufferBlockedFuture' = bufferBlockedFuture
           /\ completion' \in BOOLEAN /\ blockedOnMemory' \in BOOLEAN
           /\ memoryListener' \in BOOLEAN /\ memoryAvailable' \in BOOLEAN
           /\ blockedOnMemory' => memoryListener'
           /\ ~closed => \/ bufferBlockedFuture \/ completion' \/ memoryAvailable'
                         \/ IsBufferFull' \/ blockedOnMemory'
           /\ closed => UNCHANGED futures
<1> USE DEF Inv, BufferTypeOK, UpdateMemoryUsage, futures
<1>1. CASE closed
  BY <1>1 DEF FutureInv
<1>2. CASE ~closed
  <2>1. CASE ~IsFullWith(bufferedBytes') /\ ~blockedOnMemory' /\ ~bufferBlockedFuture
    BY <1>2, <2>1, Zenon DEF FutureInv
  <2>2. CASE ~(~IsFullWith(bufferedBytes') /\ ~blockedOnMemory' /\ ~bufferBlockedFuture)
    <3>1. memoryListener' = (memoryListener \/ blockedOnMemory')
      BY <1>2, <2>2
    <3>2. memoryAvailable' = (memoryAvailable \/ ~blockedOnMemory')
      BY <1>2, <2>2
    <3> QED
      BY <1>2, <2>2, <3>1, <3>2 DEF IsFullWith, IsBufferFull
  <2> QED
    BY <2>1, <2>2
<1> QED
  BY <1>1, <1>2

-----------------------------------------------------------------------------
(* Every state satisfies the invariant. *)

LEMMA InitInv == BufferInit => Inv
<1> SUFFICES ASSUME BufferInit PROVE Inv
  OBVIOUS
<1> USE DEF BufferInit
<1>1. BufferTypeOK /\ EndingInv /\ FutureInv /\ PoolIsToldOfHeldPages
  BY Zenon DEF BufferTypeOK, EndingInv, FutureInv, PoolIsToldOfHeldPages
<1>2. Committed = {}
  BY DEF Committed
<1>3. OvershootIsBounded
  BY <1>2, FewerCommitted DEF OvershootIsBounded
<1> QED
  BY <1>1, <1>3 DEF Inv

\* A step that commits no driver and adds no bytes keeps the bound.
LEMMA BoundKept ==
    ASSUME Inv, Committed' \subseteq Committed, bufferedBytes' \in Nat,
           bufferedBytes' <= bufferedBytes
    PROVE  OvershootIsBounded'
<1>1. Committed \in SUBSET Driver
  BY DEF Committed
<1>2. LargestPage * Cardinality(Committed') <= LargestPage * Cardinality(Committed)
  BY <1>1, FewerCommitted
<1>3. Cardinality(Committed) \in Nat /\ Cardinality(Committed') \in Nat /\ Cardinality(Driver) \in Nat
  BY <1>1, FewerCommitted
<1> QED
  BY <1>2, <1>3 DEF OvershootIsBounded, Inv, BufferTypeOK

LEMMA GetBufferBlockedFutureStep ==
    ASSUME Inv, NEW d \in Driver, GetBufferBlockedFuture(d) PROVE Inv'
<1> USE DEF GetBufferBlockedFuture
<1>1. BufferTypeOK' /\ EndingInv' /\ PoolIsToldOfHeldPages'
  BY DEF Inv, BufferTypeOK, EndingInv, PoolIsToldOfHeldPages
<1>2. FutureInv'
  BY DEF Inv, BufferTypeOK, FutureInv, IsBufferFull, IsFullWith
<1>3. OvershootIsBounded'
  <2>1. CASE driver'[d] = "adding" /\ ending = "no"
    <3>0. driver[d] = "asking" /\ ending' = "no" /\ driver' = [driver EXCEPT ![d] = "adding"]
      BY <2>1, Zenon DEF Inv, BufferTypeOK
    <3>1. Committed' = Committed \cup {d} /\ d \notin Committed /\ Committed \in SUBSET Driver
      <4> HIDE DEF GetBufferBlockedFuture
      <4> QED BY <2>1, <3>0 DEF Committed, Inv, BufferTypeOK
    <3>2. bufferedBytes' = bufferedBytes /\ bufferedBytes <= maxBufferedBytes
      <4>1. blockOnFull
        BY <2>1 DEF Inv, BufferTypeOK, EndingInv
      <4>2. bufferBlockedFuture'
        BY <2>1 DEF Inv, BufferTypeOK
      <4>3. ~IsBufferFull
        BY <4>2, Zenon
      <4> QED
        BY <4>1, <4>3 DEF Inv, BufferTypeOK, IsBufferFull, IsFullWith
    <3> QED
      <4> HIDE DEF GetBufferBlockedFuture
      <4>1. LargestPage * Cardinality(Committed') <= LargestPage * Cardinality(Driver)
        BY <3>1, OneMoreCommitted
      <4>2. Cardinality(Committed') \in Nat /\ Cardinality(Driver) \in Nat
        BY <3>1, OneMoreCommitted
      <4> QED
        BY <3>2, <4>1, <4>2 DEF OvershootIsBounded, Inv, BufferTypeOK
  <2>2. CASE ~(driver'[d] = "adding" /\ ending = "no")
    <3>1. Committed' \subseteq Committed
      BY <2>2 DEF Committed, Inv, BufferTypeOK
    <3> QED
      BY <3>1, BoundKept DEF Inv, BufferTypeOK
  <2> QED
    BY <2>1, <2>2
<1> QED
  BY <1>1, <1>2, <1>3 DEF Inv

LEMMA StartEnqueueStep ==
    ASSUME Inv, NEW d \in Driver, StartEnqueue(d) PROVE Inv'
<1> USE DEF StartEnqueue, futures
<1>1. BufferTypeOK' /\ EndingInv' /\ PoolIsToldOfHeldPages'
  BY DEF Inv, BufferTypeOK, EndingInv, PoolIsToldOfHeldPages
<1>2. FutureInv'
  BY DEF Inv, BufferTypeOK, FutureInv, IsBufferFull, IsFullWith
<1>3. Committed' \subseteq Committed
  BY DEF Committed, Inv, BufferTypeOK
<1> QED
  BY <1>1, <1>2, <1>3, BoundKept DEF Inv, BufferTypeOK

LEMMA ReserveMemoryStep ==
    ASSUME Inv, NEW d \in Driver, NEW size \in Size, ReserveMemory(d, size) PROVE Inv'
<1> USE DEF ReserveMemory
<1>0. size \in Nat /\ size <= LargestPage
  OBVIOUS
<1>u. bufferedBytes + size \in Nat
  BY <1>0 DEF Inv, BufferTypeOK
<1>1. /\ bufferedBytes' = IF closed THEN bufferedBytes ELSE bufferedBytes + size
      /\ bufferedBytes' \in Nat
      /\ bufferBlockedFuture' = bufferBlockedFuture
      /\ completion' \in BOOLEAN /\ blockedOnMemory' \in BOOLEAN
      /\ memoryListener' \in BOOLEAN /\ memoryAvailable' \in BOOLEAN
      /\ blockedOnMemory' => memoryListener'
      /\ ~closed => \/ bufferBlockedFuture \/ completion' \/ memoryAvailable'
                    \/ IsBufferFull' \/ blockedOnMemory'
      /\ closed => UNCHANGED futures
  BY <1>0, <1>u, UpdateFacts
<1>2. BufferTypeOK' /\ EndingInv' /\ PoolIsToldOfHeldPages'
  BY <1>0, <1>1 DEF Inv, BufferTypeOK, EndingInv, PoolIsToldOfHeldPages
<1>3. FutureInv'
  BY <1>1 DEF Inv, BufferTypeOK, FutureInv, IsBufferFull, IsFullWith, futures
<1>4. OvershootIsBounded'
  <2>1. d \notin Committed' /\ Committed' \in SUBSET Driver /\ Committed = Committed' \cup {d}
    BY DEF Committed, Inv, BufferTypeOK
  <2>2. LargestPage * Cardinality(Committed)
          = LargestPage * Cardinality(Committed') + LargestPage
    BY <2>1, OneMoreCommitted
  <2>3. Cardinality(Committed') \in Nat /\ Cardinality(Committed) \in Nat /\ Cardinality(Driver) \in Nat
    BY <2>1, OneMoreCommitted
  <2>4. bufferedBytes' <= bufferedBytes + LargestPage
    BY <1>0, <1>1 DEF Inv, BufferTypeOK
  <2> QED
    BY <1>1, <2>2, <2>3, <2>4 DEF OvershootIsBounded, Inv, BufferTypeOK
<1> QED
  BY <1>2, <1>3, <1>4 DEF Inv

\* Freeing a page and closing the buffer.
LEMMA FreePageStep ==
    ASSUME Inv, NEW size \in Size, FreePage(size) PROVE Inv'
<1> USE DEF FreePage
<1>0. size \in Nat /\ -size \in Int
  OBVIOUS
<1>n. CASE ~closed
  <2>u. bufferedBytes + (-size) \in Nat
    BY <1>0, <1>n DEF Inv, BufferTypeOK, PoolIsToldOfHeldPages
  <2>1. /\ bufferedBytes' = bufferedBytes + (-size)
        /\ bufferedBytes' \in Nat
        /\ bufferBlockedFuture' = bufferBlockedFuture
        /\ completion' \in BOOLEAN /\ blockedOnMemory' \in BOOLEAN
        /\ memoryListener' \in BOOLEAN /\ memoryAvailable' \in BOOLEAN
        /\ blockedOnMemory' => memoryListener'
        /\ \/ bufferBlockedFuture \/ completion' \/ memoryAvailable'
           \/ IsBufferFull' \/ blockedOnMemory'
    BY <1>0, <1>n, <2>u, UpdateFacts
  <2>2. BufferTypeOK' /\ EndingInv' /\ PoolIsToldOfHeldPages'
    BY <1>0, <1>n, <2>1 DEF Inv, BufferTypeOK, EndingInv, PoolIsToldOfHeldPages
  <2>3. FutureInv'
    BY <2>1 DEF Inv, BufferTypeOK, FutureInv, IsBufferFull, IsFullWith
  <2>4. Committed' \subseteq Committed
    BY DEF Committed
  <2>5. bufferedBytes' <= bufferedBytes
    BY <1>0, <2>1 DEF Inv, BufferTypeOK
  <2> QED
    BY <2>1, <2>2, <2>3, <2>4, <2>5, BoundKept DEF Inv
<1>c. CASE closed
  <2>1. UNCHANGED <<bufferedBytes, futures>>
    BY <1>c DEF UpdateMemoryUsage
  <2>2. BufferTypeOK' /\ EndingInv' /\ PoolIsToldOfHeldPages'
    BY <1>0, <1>c, <2>1 DEF Inv, BufferTypeOK, EndingInv, PoolIsToldOfHeldPages, futures
  <2>3. FutureInv'
    BY <2>1 DEF Inv, BufferTypeOK, FutureInv, IsBufferFull, IsFullWith, futures
  <2>4. Committed' \subseteq Committed
    BY DEF Committed
  <2> QED
    BY <2>1, <2>2, <2>3, <2>4, BoundKept DEF Inv, BufferTypeOK
<1> QED
  BY <1>n, <1>c

LEMMA CloseStep ==
    ASSUME Inv, Close PROVE Inv'
<1> USE DEF Close
<1>0. ~closed /\ bufferedBytes + (-bufferedBytes) \in Nat /\ -bufferedBytes \in Int
  <2> HIDE DEF Close
  <2>1. ending = "closing"
    BY DEF Close
  <2> QED
    BY <2>1 DEF Inv, BufferTypeOK, EndingInv
<1>1. /\ bufferedBytes' = bufferedBytes + (-bufferedBytes)
      /\ bufferBlockedFuture' = bufferBlockedFuture
      /\ completion' \in BOOLEAN /\ blockedOnMemory' \in BOOLEAN
      /\ memoryListener' \in BOOLEAN /\ memoryAvailable' \in BOOLEAN
      /\ blockedOnMemory' => memoryListener'
      /\ \/ bufferBlockedFuture \/ completion' \/ memoryAvailable'
         \/ IsBufferFull' \/ blockedOnMemory'
  BY <1>0, UpdateFacts
<1>2. bufferedBytes' = 0
  BY <1>1 DEF Inv, BufferTypeOK
<1>3. BufferTypeOK' /\ PoolIsToldOfHeldPages'
  <2>1. /\ held' = held /\ blockOnFull' = blockOnFull /\ poolExhausted' = poolExhausted
        /\ driver' = driver /\ closed' = TRUE /\ ending' = "closed"
    OBVIOUS
  <2> HIDE DEF Close
  <2> QED
    BY <1>1, <1>2, <2>1 DEF Inv, BufferTypeOK, PoolIsToldOfHeldPages
<1>3a. EndingInv'
  <2>1. ending = "closing" /\ ending' = "closed" /\ closed' = TRUE /\ blockOnFull' = blockOnFull
    OBVIOUS
  <2> HIDE DEF Close
  <2> QED
    BY <2>1 DEF Inv, EndingInv
<1>4. FutureInv'
  BY <1>1 DEF Inv, BufferTypeOK, FutureInv, IsBufferFull, IsFullWith
<1>5. Committed' \subseteq Committed /\ bufferedBytes' <= bufferedBytes
  BY <1>2 DEF Committed, Inv, BufferTypeOK
<1> QED
  BY <1>2, <1>3, <1>3a, <1>4, <1>5, BoundKept DEF Inv

\* The steps of the executor, of the end and of the pool that reserve nothing.
LEMMA OtherStep ==
    ASSUME Inv, \/ CompleteFuture \/ OnMemoryAvailable \/ EndBuffer \/ SetNoBlockOnFull
                \/ PoolIsExhausted \/ PoolHasMemory
    PROVE  Inv'
<1>t. BufferTypeOK /\ EndingInv /\ FutureInv /\ PoolIsToldOfHeldPages
  BY DEF Inv
<1> USE DEF BufferTypeOK, EndingInv, PoolIsToldOfHeldPages, futures
<1>1. CASE CompleteFuture
  <2>1. BufferTypeOK' /\ EndingInv' /\ PoolIsToldOfHeldPages'
    BY <1>1, <1>t, Zenon DEF CompleteFuture
  <2>2. FutureInv'
    BY <1>1, <1>t, Zenon DEF CompleteFuture, FutureInv
  <2>3. Committed' \subseteq Committed
    BY <1>1, <1>t DEF CompleteFuture, Committed
  <2> QED
    BY <1>1, <1>t, <2>1, <2>2, <2>3, BoundKept DEF Inv, CompleteFuture
<1>2. CASE OnMemoryAvailable
  <2>1. BufferTypeOK' /\ EndingInv' /\ PoolIsToldOfHeldPages'
    BY <1>2, <1>t, Zenon DEF OnMemoryAvailable
  <2>2. FutureInv'
    <3>1. CASE bufferedBytes <= maxBufferedBytes
      BY <1>2, <1>t, <3>1 DEF OnMemoryAvailable, FutureInv
    <3>2. CASE ~(bufferedBytes <= maxBufferedBytes)
      <4>1. ~closed
        <5> SUFFICES ASSUME closed PROVE FALSE
          OBVIOUS
        <5>1. bufferedBytes = 0
          BY <1>t
        <5> QED
          BY <3>2, <5>1, LimitAssumption
      <4>2. blockOnFull \/ ending = "closing"
        BY <1>t, <4>1
      <4> QED
        BY <1>2, <1>t, <3>2, <4>2 DEF OnMemoryAvailable, FutureInv, IsBufferFull, IsFullWith
    <3> QED
      BY <3>1, <3>2
  <2>3. Committed' \subseteq Committed
    BY <1>2 DEF OnMemoryAvailable, Committed
  <2> QED
    BY <1>2, <1>t, <2>1, <2>2, <2>3, BoundKept DEF Inv, OnMemoryAvailable
<1>3. CASE EndBuffer
  <2>1. BufferTypeOK' /\ EndingInv' /\ PoolIsToldOfHeldPages'
    BY <1>3, <1>t, Zenon DEF EndBuffer
  <2>2. FutureInv'
    BY <1>3, <1>t DEF EndBuffer, FutureInv, IsBufferFull, IsFullWith
  <2>3. Committed' \subseteq Committed
    BY <1>3 DEF EndBuffer, Committed
  <2> QED
    BY <1>3, <1>t, <2>1, <2>2, <2>3, BoundKept DEF Inv, EndBuffer
<1>4. CASE SetNoBlockOnFull
  <2>0. EndingInv'
    <3>1. ~closed /\ ~closed' /\ ~blockOnFull' /\ ending' = "closing"
      BY <1>4, <1>t DEF SetNoBlockOnFull
    <3> QED
      BY <3>1, <1>t
  <2>1. BufferTypeOK' /\ EndingInv' /\ PoolIsToldOfHeldPages'
    BY <1>4, <1>t, <2>0, Zenon DEF SetNoBlockOnFull
  <2>2. FutureInv'
    BY <1>4, <1>t DEF SetNoBlockOnFull, FutureInv
  <2>3. Committed' \subseteq Committed
    BY <1>4 DEF SetNoBlockOnFull, Committed
  <2> QED
    BY <1>4, <1>t, <2>1, <2>2, <2>3, BoundKept DEF Inv, SetNoBlockOnFull
<1>5. CASE PoolIsExhausted
  <2>1. BufferTypeOK' /\ EndingInv' /\ PoolIsToldOfHeldPages'
    BY <1>5, <1>t, Zenon DEF PoolIsExhausted
  <2>2. FutureInv'
    BY <1>5, <1>t, Zenon DEF PoolIsExhausted, FutureInv, IsBufferFull, IsFullWith
  <2>3. Committed' \subseteq Committed
    BY <1>5 DEF PoolIsExhausted, Committed
  <2> QED
    BY <1>5, <1>t, <2>1, <2>2, <2>3, BoundKept DEF Inv, PoolIsExhausted
<1>6. CASE PoolHasMemory
  <2>1. BufferTypeOK' /\ EndingInv' /\ PoolIsToldOfHeldPages'
    BY <1>6, <1>t, Zenon DEF PoolHasMemory
  <2>2. FutureInv'
    BY <1>6, <1>t, Zenon DEF PoolHasMemory, FutureInv, IsBufferFull, IsFullWith
  <2>3. Committed' \subseteq Committed
    BY <1>6, Zenon DEF PoolHasMemory, Committed
  <2> QED
    BY <1>6, <1>t, <2>1, <2>2, <2>3, BoundKept DEF Inv, PoolHasMemory
<1> QED
  BY <1>1, <1>2, <1>3, <1>4, <1>5, <1>6

LEMMA NextInv ==
    ASSUME Inv, [BufferNext]_bufferVars PROVE Inv'
<1>1. CASE BufferNext
  BY <1>1, GetBufferBlockedFutureStep, StartEnqueueStep, ReserveMemoryStep, FreePageStep,
     CloseStep, OtherStep, Zenon DEF BufferNext, Free
<1>2. CASE UNCHANGED bufferVars
  <2>1. Committed' = Committed
    BY <1>2, Zenon DEF bufferVars, Committed
  <2>2. BufferTypeOK' /\ EndingInv' /\ PoolIsToldOfHeldPages'
    BY <1>2, Zenon DEF bufferVars, Inv, BufferTypeOK, EndingInv, PoolIsToldOfHeldPages
  <2>3. FutureInv'
    BY <1>2, Zenon DEF bufferVars, Inv, FutureInv, IsBufferFull, IsFullWith
  <2> QED
    BY <1>2, <2>1, <2>2, <2>3, Zenon DEF bufferVars, Inv, OvershootIsBounded
<1> QED
  BY <1>1, <1>2

-----------------------------------------------------------------------------
(* Theorems. *)

\* Whatever drivers, consumers, the notification executor, the memory pool and
\* the end of the task do to the memory manager, its invariant holds.
THEOREM ReservationInvariant == BufferSpec => []Inv
<1> QED
  BY InitInv, NextInv, PTL DEF BufferSpec

\* The buffer's limit is exceeded by at most one page of every driver.
THEOREM BoundedOvershoot == BufferSpec => []OvershootIsBounded
<1>1. Inv => OvershootIsBounded
  BY DEF Inv
<1> QED
  BY <1>1, ReservationInvariant, PTL

\* The pool is told of exactly the pages that are referenced, until the close.
THEOREM ExactReservation == BufferSpec => []PoolIsToldOfHeldPages
<1>1. Inv => PoolIsToldOfHeldPages
  BY DEF Inv
<1> QED
  BY <1>1, ReservationInvariant, PTL

\* No driver waits for a future that nobody will complete.
THEOREM NoLostWakeup == BufferSpec => []WaitingDriverWillBeWoken
<1>1. Inv => WaitingDriverWillBeWoken
  BY DEF Inv, FutureInv, WaitingDriverWillBeWoken
<1> QED
  BY <1>1, ReservationInvariant, PTL

-----------------------------------------------------------------------------
(* How a query ends. *)

\* The cells that calls and the tracker write, and those that tell of the stages.
CallTypes ==
    /\ queryState \in DOMAIN Ordinal
    /\ failureCause \in {CauseOf[f] : f \in Failer} \cup {"null"}
    /\ commit \in {"none", "pending", "done"}
    /\ tracked \in BOOLEAN /\ expiring \in BOOLEAN
    /\ pc \in [Failer -> {"start", "cause", "state", "verify", "over"}]
    /\ answer \in [Failer -> {"none", "OK", "CONFLICT", "GONE"}]

ReaderRecords == [pc : {"idle", "final", "stages", "build"}, scheduler : {"unset", "set", "dropped"},
                  final : BOOLEAN, late : BOOLEAN]

InfoTypes ==
    /\ planning \in {"start", "distribute", "create", "recheck", "starting", "start scheduler",
                     "started", "aborted", "over"}
    /\ queryScheduler \in {"unset", "set", "dropped"}
    /\ stages \in [Stage -> {"none", "running", "final"}]
    /\ callback \in {"waiting", "aborted", "over"} /\ listener \in [Listener -> {"waiting", "build", "over"}]
    /\ finalQueryInfo \in {"empty", "early", "late", "stages", "pruned"}
    /\ reader \in [Reader -> ReaderRecords]

\* What holds the cells of the calls together: a call about to change the state finds a
\* cause, its own cause is not recorded before it does so, and a request that verifies
\* its effect finds the query ended or gone.
CallInv ==
    /\ CallTypes
    /\ FailureIsExplained
    /\ AnswersAreTrue
    /\ \A f \in Failer :
          /\ pc[f] = "state" => failureCause # "null"
          /\ pc[f] \in {"start", "cause"} => failureCause # CauseOf[f]
          /\ pc[f] = "verify" => isDone \/ ~tracked

\* What a reader holds between its steps: a scheduler that was gone when it looked was
\* dropped by the planning thread or for a final info, which it then finds; stages it
\* found final are.
ReaderInv(r) ==
    /\ reader[r].late => planning = "aborted"
    /\ reader[r].pc = "final" /\ reader[r].scheduler = "dropped" => planning = "aborted" \/ finalQueryInfo # "empty"
    /\ reader[r].pc \in {"stages", "build"} /\ reader[r].scheduler = "dropped" => planning = "aborted"
    /\ reader[r].pc = "build" /\ reader[r].scheduler = "set" /\ reader[r].final => allFinal

\* What holds the scheduler, the stages and the final info together: a listener that is
\* about to update found all stages final, and the scheduler is dropped for a reason.
InfoInv ==
    /\ InfoTypes
    /\ CachedAtTheEnd
    /\ finalQueryInfo = "late" => planning = "aborted"
    /\ planning \in {"start", "distribute", "create"} => \A s \in Stage : stages[s] = "none"
    /\ queryScheduler = "dropped" => planning = "aborted" \/ finalQueryInfo # "empty"
    /\ \A l \in Listener : listener[l] = "build" => allFinal
    /\ \A r \in Reader : ReaderInv(r)

QueryInv == CallInv /\ InfoInv

\* The query stays as it ended.
OutcomeKept == isDone => isDone' /\ queryState' = queryState /\ ErrorCode' = ErrorCode

States == {"QUEUED", "WAITING_FOR_RESOURCES", "PLANNING", "STARTING", "RUNNING", "FINISHING", "FINISHED", "FAILED"}

\* The states and the order of those that are not ends.
LEMMA OrdinalFacts ==
    /\ DOMAIN Ordinal = States
    /\ \A s \in {"WAITING_FOR_RESOURCES", "PLANNING", "STARTING", "RUNNING"}, e \in Done : ~(Ordinal[e] < Ordinal[s])
BY DEF Ordinal, States, Done

\* A query that has been submitted.
LEMMA InitQueryInv == Init => QueryInv
<1> SUFFICES ASSUME Init PROVE QueryInv
  OBVIOUS
<1>1. CallTypes
  BY OrdinalFacts, Zenon DEF Init, CallTypes, States
<1>2. CallInv
  BY <1>1, CallerAssumption, CauseAssumption DEF Init, CallInv, FailureIsExplained, AnswersAreTrue
<1>3. InfoTypes
  <2>1. reader \in [Reader -> ReaderRecords]
    BY DEF Init, ReaderRecords
  <2> QED
    BY <2>1 DEF Init, InfoTypes
<1>4. \A r \in Reader : ReaderInv(r)
  BY DEF Init, ReaderInv
<1>5. InfoInv
  BY <1>3, <1>4 DEF Init, InfoInv, CachedAtTheEnd
<1> QED
  BY <1>2, <1>5 DEF QueryInv

\* A step that touches neither the calls nor the tracker: the state of a query that
\* ended stays.
LEMMA ForwardStep ==
    ASSUME CallInv,
           queryState' \in States,
           queryState' = queryState \/ (~isDone /\ queryState' # "FAILED"),
           commit' \in {"none", "pending", "done"},
           UNCHANGED << failureCause, tracker, failers >>
    PROVE  CallInv' /\ OutcomeKept
<1>1. UNCHANGED << failureCause, tracked, expiring, pc, answer >>
  BY DEF tracker, failers
<1>2. CallTypes'
  BY <1>1, OrdinalFacts DEF CallInv, CallTypes
<1>3. isDone => isDone' /\ queryState' = queryState
  BY DEF isDone
<1>4. FailureIsExplained'
  BY <1>1 DEF CallInv, FailureIsExplained
<1>5. (isDone => ErrorCode' = ErrorCode) /\ (ErrorCode # "null" => isDone)
  BY <1>1, <1>3 DEF ErrorCode, isDone, Done
<1>6. AnswersAreTrue'
  BY <1>1, <1>3, <1>5, CauseAssumption, CallerAssumption DEF CallInv, AnswersAreTrue
<1> QED
  BY <1>1, <1>2, <1>3, <1>4, <1>5, <1>6 DEF CallInv, OutcomeKept

\* Every step of the scheduler, its listeners and the readers keeps InfoInv, when each
\* thing it may change follows the rule for it: what has ended stays so, and a reader or
\* listener that moves has looked.
LEMMA InfoStep ==
    ASSUME InfoInv, InfoTypes',
           isDone => isDone',
           allFinal => allFinal',
           planning = "aborted" => planning' = "aborted",
           \/ finalQueryInfo' = finalQueryInfo
           \/ finalQueryInfo = "stages" /\ finalQueryInfo' = "pruned"
           \/ /\ finalQueryInfo = "empty" /\ isDone' /\ finalQueryInfo' \in {"early", "late", "stages"}
              /\ finalQueryInfo' = "stages" => allFinal'
              /\ finalQueryInfo' = "late" => planning' = "aborted",
           planning' \in {"start", "distribute", "create"} => \A s \in Stage : stages'[s] = "none",
           queryScheduler' = "dropped" => queryScheduler = "dropped" \/ planning' = "aborted" \/ finalQueryInfo' # "empty",
           \A l \in Listener : listener'[l] = "build" => listener[l] = "build" \/ allFinal',
           \A r \in Reader : reader'[r] = reader[r] \/ ReaderInv(r)'
    PROVE  InfoInv' /\ CachedForGood
<1>1. finalQueryInfo # "empty" => finalQueryInfo' # "empty"
  OBVIOUS
<1>2. CachedAtTheEnd'
  BY DEF InfoInv, CachedAtTheEnd
<1>3. finalQueryInfo' = "late" => planning' = "aborted"
  BY DEF InfoInv
<1>4. queryScheduler' = "dropped" => planning' = "aborted" \/ finalQueryInfo' # "empty"
  BY <1>1 DEF InfoInv
<1>5. \A l \in Listener : listener'[l] = "build" => allFinal'
  BY DEF InfoInv
<1>6. ASSUME NEW r \in Reader
      PROVE  ReaderInv(r)'
  <2>1. CASE reader'[r] = reader[r]
    BY <1>1, <2>1 DEF InfoInv, ReaderInv
  <2> QED
    BY <2>1
<1>7. CachedForGood
  BY DEF CachedForGood
<1> QED
  BY <1>2, <1>3, <1>4, <1>5, <1>6, <1>7 DEF InfoInv

\* A step that leaves the scheduler, the stages and the infos alone.
LEMMA InfoFrame ==
    ASSUME InfoInv, isDone => isDone', UNCHANGED << execution, finalQueryInfo, reader >>
    PROVE  InfoInv' /\ CachedForGood
<1>1. UNCHANGED << planning, queryScheduler, stages, callback, listener, finalQueryInfo, reader >>
  BY DEF execution
<1>2. InfoTypes' /\ (allFinal => allFinal')
  BY <1>1, Zenon DEF InfoInv, InfoTypes, allFinal
<1> QED
  BY <1>1, <1>2, InfoStep DEF InfoInv

\* setIfBefore moves a query that has not ended, and only forward.
LEMMA SetIfBefore ==
    ASSUME CallInv, NEW s \in {"WAITING_FOR_RESOURCES", "PLANNING", "STARTING", "RUNNING"}, setIfBefore(s)
    PROVE  /\ queryState' \in States
           /\ queryState' = queryState \/ (~isDone /\ queryState' # "FAILED")
BY OrdinalFacts DEF setIfBefore, CallInv, CallTypes, isDone, States

\* A step of the planning thread moves it on; only createScheduler makes stages, where
\* there were none, and only recheckScheduler drops the scheduler.
LEMMA PlanningStep ==
    ASSUME InfoInv, isDone => isDone',
           planning # "aborted",
           planning' \in {"distribute", "create", "recheck", "starting", "start scheduler", "started", "aborted", "over"},
           \/ stages' = stages /\ (planning' \in {"distribute", "create"} => planning \in {"start", "distribute"})
           \/ stages' = [s \in Stage |-> "running"] /\ planning = "create" /\ planning' = "recheck",
           queryScheduler' \in {"unset", "set", "dropped"},
           queryScheduler' = "dropped" => queryScheduler = "dropped" \/ planning' = "aborted",
           UNCHANGED << callback, listener, finalQueryInfo, reader >>
    PROVE  InfoInv' /\ CachedForGood
<1>1. InfoTypes'
  <2>1. stages' \in [Stage -> {"none", "running", "final"}]
    BY Zenon DEF InfoInv, InfoTypes
  <2> QED
    BY <2>1, Zenon DEF InfoInv, InfoTypes
<1>2. allFinal => allFinal'
  BY StageAssumption, Zenon DEF InfoInv, allFinal
<1>3. planning' \in {"start", "distribute", "create"} => \A s \in Stage : stages'[s] = "none"
  BY Zenon DEF InfoInv
<1> QED
  BY <1>1, <1>2, <1>3, InfoStep, Zenon DEF InfoInv

\* Every forward step keeps QueryInv and the outcome.
LEMMA ForwardInv ==
    ASSUME QueryInv, Forward
    PROVE  QueryInv' /\ OutcomeKept /\ CachedForGood
<1> USE DEF QueryInv
<1>1. /\ queryState \in States /\ commit \in {"none", "pending", "done"}
      /\ queryScheduler \in {"unset", "set", "dropped"}
  BY OrdinalFacts, Zenon DEF CallInv, CallTypes, InfoInv, InfoTypes
<1>2. CASE transitionToWaitingForResources
  <2>1. CallInv' /\ OutcomeKept
    BY <1>1, <1>2, SetIfBefore, ForwardStep, Zenon DEF transitionToWaitingForResources
  <2> QED
    BY <1>2, <2>1, InfoFrame, Zenon DEF transitionToWaitingForResources, OutcomeKept
<1>3. CASE transitionToPlanning
  <2>1. CallInv' /\ OutcomeKept
    BY <1>1, <1>3, SetIfBefore, ForwardStep, Zenon DEF transitionToPlanning
  <2> QED
    BY <1>1, <1>3, <2>1, PlanningStep DEF transitionToPlanning, OutcomeKept
<1>4. CASE planDistribution
  <2>1. CallInv' /\ OutcomeKept
    BY <1>1, <1>4, ForwardStep, Zenon DEF planDistribution
  <2> QED
    BY <1>1, <1>4, <2>1, PlanningStep DEF planDistribution, OutcomeKept
<1>5. CASE createScheduler
  <2>1. CallInv' /\ OutcomeKept
    BY <1>1, <1>5, ForwardStep, Zenon DEF createScheduler
  <2> QED
    BY <1>5, <2>1, PlanningStep DEF createScheduler, OutcomeKept
<1>6. CASE recheckScheduler
  <2>1. CallInv' /\ OutcomeKept
    BY <1>1, <1>6, ForwardStep, Zenon DEF recheckScheduler
  <2> QED
    BY <1>1, <1>6, <2>1, PlanningStep, Zenon DEF recheckScheduler, OutcomeKept
<1>7. CASE transitionToStarting
  <2>1. CallInv' /\ OutcomeKept
    BY <1>1, <1>7, SetIfBefore, ForwardStep, Zenon DEF transitionToStarting
  <2> QED
    BY <1>1, <1>7, <2>1, PlanningStep, Zenon DEF transitionToStarting, OutcomeKept
<1>8. CASE startScheduler
  <2>1. CallInv' /\ OutcomeKept
    BY <1>1, <1>8, ForwardStep, Zenon DEF startScheduler
  <2> QED
    BY <1>1, <1>8, <2>1, PlanningStep, Zenon DEF startScheduler, OutcomeKept
<1>9. CASE transitionToRunning
  <2>1. CallInv' /\ OutcomeKept
    BY <1>1, <1>9, SetIfBefore, ForwardStep, Zenon DEF transitionToRunning
  <2> QED
    BY <1>9, <2>1, InfoFrame, Zenon DEF transitionToRunning, OutcomeKept
<1>10. CASE transitionToFinishing
  <2>1. CallInv' /\ OutcomeKept
    BY <1>10, ForwardStep, Zenon DEF transitionToFinishing, States
  <2> QED
    BY <1>10, <2>1, InfoFrame, Zenon DEF transitionToFinishing, OutcomeKept
<1>11. CASE transitionToFinished
  <2>1. CallInv' /\ OutcomeKept
    BY <1>1, <1>11, ForwardStep, Zenon DEF transitionToFinished, States
  <2> QED
    BY <1>11, <2>1, InfoFrame, Zenon DEF transitionToFinished, OutcomeKept
<1> QED
  BY <1>2, <1>3, <1>4, <1>5, <1>6, <1>7, <1>8, <1>9, <1>10, <1>11 DEF Forward

\* A step that leaves the calls, the tracker and the query's state alone.
LEMMA CallFrame ==
    ASSUME CallInv, UNCHANGED << queryState, failureCause, commit, tracker, failers >>
    PROVE  CallInv' /\ OutcomeKept /\ (isDone' <=> isDone)
<1>1. queryState' \in States /\ commit' \in {"none", "pending", "done"}
  BY OrdinalFacts DEF CallInv, CallTypes
<1> QED
  BY <1>1, ForwardStep DEF isDone

\* The callback aborts, and stages end.
LEMMA StagesEndInv ==
    ASSUME QueryInv, Ending
    PROVE  QueryInv' /\ OutcomeKept /\ CachedForGood
<1> USE DEF QueryInv
<1>1. UNCHANGED << queryState, failureCause, commit, tracker, failers, planning, queryScheduler, listener, finalQueryInfo, reader >>
  BY DEF Ending, abortCallback, stageEnds
<1>2. CallInv' /\ OutcomeKept /\ (isDone' <=> isDone)
  BY <1>1, CallFrame
<1>3. ASSUME abortCallback
      PROVE  InfoInv' /\ CachedForGood
  <2>1. InfoTypes' /\ stages' = stages /\ (allFinal => allFinal')
    BY <1>1, <1>3, Zenon DEF InfoInv, InfoTypes, abortCallback, allFinal
  <2> QED
    BY <1>1, <1>2, <2>1, InfoStep DEF InfoInv
<1>4. ASSUME NEW s \in Stage, stageEnds(s)
      PROVE  InfoInv' /\ CachedForGood
  <2>1. stages \in [Stage -> {"none", "running", "final"}]
    BY Zenon DEF InfoInv, InfoTypes
  <2>2. stages[s] = "running" /\ stages' = [stages EXCEPT ![s] = "final"] /\ callback' = callback
    BY <1>4 DEF stageEnds
  <2>3. InfoTypes'
    BY <1>1, <2>1, <2>2, Zenon DEF InfoInv, InfoTypes
  <2>4. allFinal => allFinal'
    BY <2>1, <2>2 DEF allFinal
  <2>5. planning' \notin {"start", "distribute", "create"}
    BY <1>1, <2>2 DEF InfoInv
  <2> QED
    BY <1>1, <1>2, <2>3, <2>4, <2>5, InfoStep DEF InfoInv
<1> QED
  <2>1. InfoInv' /\ CachedForGood
    BY <1>3, <1>4, Zenon DEF Ending
  <2> QED
    BY <1>2, <2>1, Zenon

\* A step of the calls that fail the query which leaves its state and cause alone.
LEMMA CallStep ==
    ASSUME CallInv, NEW f \in Failer, NEW place \in {"cause", "verify", "over"}, NEW code,
           UNCHANGED << queryState, failureCause, tracker >>,
           commit' \in {"none", "pending", "done"},
           pc' = [pc EXCEPT ![f] = place],
           place = "cause" => pc[f] = "start",
           place = "verify" => ~tracked,
           \/ code = "none" /\ answer' = answer
           \/ code \in {"OK", "CONFLICT", "GONE"} /\ answer' = [answer EXCEPT ![f] = code],
           f \in Resource =>
               /\ code = "OK" => ErrorCode = CauseOf[f]
               /\ code = "CONFLICT" => isDone /\ ErrorCode # CauseOf[f]
               /\ code = "GONE" => ~tracked
    PROVE  CallInv' /\ OutcomeKept
<1>1. UNCHANGED << queryState, failureCause, tracked, expiring >>
  BY DEF tracker
<1>2. CallTypes'
  <2>1. pc' \in [Failer -> {"start", "cause", "state", "verify", "over"}]
    BY Zenon DEF CallInv, CallTypes
  <2>2. answer' \in [Failer -> {"none", "OK", "CONFLICT", "GONE"}]
    BY Zenon DEF CallInv, CallTypes
  <2> QED
    <3>1. CallTypes
      BY Zenon DEF CallInv
    <3> QED
      BY <1>1, <2>1, <2>2, <3>1 DEF CallTypes
<1>3. ErrorCode' = ErrorCode /\ (isDone' <=> isDone)
  BY <1>1 DEF ErrorCode, isDone
<1>4. AnswersAreTrue'
  <2> SUFFICES ASSUME NEW g \in Resource
               PROVE  /\ answer'[g] = "OK" => ErrorCode = CauseOf[g]
                      /\ answer'[g] = "CONFLICT" => isDone /\ ErrorCode # CauseOf[g]
                      /\ answer'[g] = "GONE" => ~tracked
    BY <1>1, <1>3 DEF AnswersAreTrue
  <2>1. g \in Failer
    BY CallerAssumption
  <2>2. /\ answer[g] = "OK" => ErrorCode = CauseOf[g]
        /\ answer[g] = "CONFLICT" => isDone /\ ErrorCode # CauseOf[g]
        /\ answer[g] = "GONE" => ~tracked
    BY DEF CallInv, AnswersAreTrue
  <2>3. answer'[g] = answer[g] \/ (g = f /\ answer'[g] = code)
    BY <2>1 DEF CallInv, CallTypes
  <2> QED
    BY <2>2, <2>3
<1>5. ASSUME NEW g \in Failer
      PROVE  /\ pc'[g] = "state" => failureCause' # "null"
             /\ pc'[g] \in {"start", "cause"} => failureCause' # CauseOf[g]
             /\ pc'[g] = "verify" => isDone' \/ ~tracked'
  <2>1. CASE g = f
    BY <1>1, <2>1 DEF CallInv, CallTypes
  <2>2. CASE g # f
    BY <1>1, <1>3, <2>2, Zenon DEF CallInv, CallTypes
  <2> QED
    BY <2>1, <2>2
<1> QED
  BY <1>1, <1>2, <1>3, <1>4, <1>5, Zenon DEF CallInv, OutcomeKept, FailureIsExplained

LEMMA checkQueryInv ==
    ASSUME CallInv, NEW f \in Failer, checkQuery(f)
    PROVE  CallInv' /\ OutcomeKept
<1>1. /\ pc[f] = "start" /\ commit' \in {"none", "pending", "done"}
      /\ UNCHANGED << queryState, failureCause, tracker >>
  BY DEF checkQuery, CallInv, CallTypes
<1>2. CASE ~tracked /\ Finished(f, "GONE")
  BY <1>1, <1>2, CallStep, Zenon DEF Finished
<1>3. CASE tracked /\ isDone /\ Finished(f, "CONFLICT")
  <2>1. ErrorCode # CauseOf[f]
    BY <1>1, CauseAssumption, Zenon DEF CallInv, ErrorCode
  <2> QED
    BY <1>1, <1>3, <2>1, CallStep, Zenon DEF Finished
<1>4. CASE pc' = [pc EXCEPT ![f] = "cause"] /\ UNCHANGED answer
  BY <1>1, <1>4, CallStep, Zenon
<1> QED
  BY <1>2, <1>3, <1>4 DEF checkQuery

LEMMA startFailingInv ==
    ASSUME CallInv, NEW f \in Failer, startFailing(f)
    PROVE  CallInv' /\ OutcomeKept
<1>1. /\ pc[f] = "start" /\ commit' \in {"none", "pending", "done"}
      /\ UNCHANGED << queryState, failureCause, tracker >>
      /\ pc' = [pc EXCEPT ![f] = "cause"] /\ UNCHANGED answer
  BY Zenon DEF startFailing, CallInv, CallTypes
<1> QED
  BY <1>1, CallStep, Zenon

LEMMA verifyFailedInv ==
    ASSUME CallInv, NEW f \in Failer, verifyFailed(f)
    PROVE  CallInv' /\ OutcomeKept
<1>1. /\ pc[f] = "verify" /\ commit' \in {"none", "pending", "done"}
      /\ UNCHANGED << queryState, failureCause, tracker >>
      /\ isDone \/ ~tracked
  BY DEF verifyFailed, CallInv, CallTypes
<1>2. CASE ~tracked /\ Finished(f, "GONE")
  BY <1>1, <1>2, CallStep, Zenon DEF Finished
<1>3. CASE ErrorCode = CauseOf[f] /\ Finished(f, "OK")
  BY <1>1, <1>3, CallStep, Zenon DEF Finished
<1>4. CASE tracked /\ ErrorCode # CauseOf[f] /\ Finished(f, "CONFLICT")
  BY <1>1, <1>4, CallStep, Zenon DEF Finished
<1> QED
  BY <1>2, <1>3, <1>4 DEF verifyFailed

\* The first cell: a cause is recorded unless there is one.
LEMMA setCauseInv ==
    ASSUME CallInv, NEW f \in Failer, setCause(f)
    PROVE  CallInv' /\ OutcomeKept
<1>1. /\ pc[f] = "cause" /\ commit' = commit /\ answer' = answer
      /\ UNCHANGED << queryState, tracked, expiring >>
  BY DEF setCause, tracker
<1>2. CASE pc' = [pc EXCEPT ![f] = "verify"] /\ UNCHANGED failureCause /\ ~tracked
  <2>1. UNCHANGED << queryState, failureCause, tracker >>
    BY <1>1, <1>2 DEF tracker
  <2>2. commit' \in {"none", "pending", "done"}
    BY <1>1 DEF CallInv, CallTypes
  <2> QED
    BY <1>1, <1>2, <2>1, <2>2, CallStep, Zenon
<1>3. CASE /\ pc' = [pc EXCEPT ![f] = "state"]
           /\ failureCause' = IF failureCause = "null" THEN CauseOf[f] ELSE failureCause
  <2>1. CauseOf[f] # "null" /\ failureCause' # "null"
    BY <1>3, CauseAssumption
  <2>2. CallTypes'
    <3>1. failureCause' \in {CauseOf[g] : g \in Failer} \cup {"null"}
      BY <1>3 DEF CallInv, CallTypes
    <3>2. pc' \in [Failer -> {"start", "cause", "state", "verify", "over"}]
      BY <1>3 DEF CallInv, CallTypes
    <3> QED
      BY <1>1, <3>1, <3>2 DEF CallInv, CallTypes
  <2>3. (isDone => ErrorCode' = ErrorCode) /\ (isDone' <=> isDone) /\ (ErrorCode # "null" => isDone)
    BY <1>1, <1>3 DEF ErrorCode, isDone, Done, CallInv, FailureIsExplained
  <2>4. AnswersAreTrue'
    BY <1>1, <2>3, CauseAssumption, CallerAssumption, Zenon DEF CallInv, AnswersAreTrue
  <2>5. ASSUME NEW g \in Failer
        PROVE  /\ pc'[g] = "state" => failureCause' # "null"
               /\ pc'[g] \in {"start", "cause"} => failureCause' # CauseOf[g]
               /\ pc'[g] = "verify" => isDone' \/ ~tracked'
    <3>1. CASE g = f
      BY <1>3, <2>1, <3>1, Zenon DEF CallInv, CallTypes
    <3>2. CASE g # f
      BY <1>1, <1>3, <2>1, <2>3, <3>2, CauseAssumption, Zenon DEF CallInv, CallTypes
    <3> QED
      BY <3>1, <3>2, Zenon
  <2> QED
    BY <1>1, <2>1, <2>2, <2>3, <2>4, <2>5, Zenon DEF CallInv, OutcomeKept, FailureIsExplained
<1> QED
  BY <1>2, <1>3 DEF setCause

\* The second cell: the query has failed unless it had ended.
LEMMA setFailedInv ==
    ASSUME CallInv, NEW f \in Failer, setFailed(f)
    PROVE  CallInv' /\ OutcomeKept
<1>1. /\ pc[f] = "state" /\ commit' = commit /\ answer' = answer
      /\ pc' = [pc EXCEPT ![f] = IF f \in Resource THEN "verify" ELSE "over"]
      /\ queryState' = IF isDone THEN queryState ELSE "FAILED"
      /\ UNCHANGED << failureCause, tracked, expiring >>
  BY DEF setFailed, tracker
<1>2. isDone' /\ failureCause # "null"
  BY <1>1 DEF isDone, Done, CallInv
<1>3. CallTypes'
  <2>1. pc' \in [Failer -> {"start", "cause", "state", "verify", "over"}]
    BY <1>1 DEF CallInv, CallTypes
  <2>2. queryState' \in DOMAIN Ordinal
    BY <1>1, OrdinalFacts, Zenon DEF CallInv, CallTypes, States
  <2> QED
    <3>1. CallTypes
      BY Zenon DEF CallInv
    <3> QED
      BY <1>1, <2>1, <2>2, <3>1 DEF CallTypes
<1>4. /\ isDone => queryState' = queryState /\ ErrorCode' = ErrorCode
      /\ ErrorCode # "null" => isDone
  BY <1>1 DEF ErrorCode, isDone, Done
<1>5. AnswersAreTrue'
  BY <1>1, <1>2, <1>4, CauseAssumption, CallerAssumption, Zenon DEF CallInv, AnswersAreTrue
<1>6. ASSUME NEW g \in Failer
      PROVE  /\ pc'[g] = "state" => failureCause' # "null"
             /\ pc'[g] \in {"start", "cause"} => failureCause' # CauseOf[g]
             /\ pc'[g] = "verify" => isDone' \/ ~tracked'
  BY <1>1, <1>2 DEF CallInv, CallTypes
<1> QED
  BY <1>1, <1>2, <1>3, <1>4, <1>5, <1>6, Zenon DEF CallInv, OutcomeKept, FailureIsExplained

\* What an info shows, by the scheduler it was built from.
LEMMA InfoOfFacts == InfoOf["unset"] = "early" /\ InfoOf["dropped"] = "late" /\ InfoOf["set"] = "stages"
BY DEF InfoOf

\* Reader r moves to a record of its own, and may cache a final info and drop the scheduler.
LEMMA ReaderStep ==
    ASSUME InfoInv, NEW r \in Reader, NEW record \in ReaderRecords,
           isDone => isDone',
           UNCHANGED << planning, stages, callback, listener >>,
           reader' = [reader EXCEPT ![r] = record],
           ReaderInv(r)',
           queryScheduler' \in {"unset", "set", "dropped"},
           queryScheduler' = "dropped" => queryScheduler = "dropped" \/ finalQueryInfo' # "empty",
           \/ finalQueryInfo' = finalQueryInfo
           \/ /\ finalQueryInfo = "empty" /\ isDone' /\ finalQueryInfo' \in {"early", "late", "stages"}
              /\ finalQueryInfo' = "stages" => allFinal
              /\ finalQueryInfo' = "late" => planning = "aborted"
    PROVE  InfoInv' /\ CachedForGood
<1>1. reader \in [Reader -> ReaderRecords]
  BY Zenon DEF InfoInv, InfoTypes
<1>2. reader' \in [Reader -> ReaderRecords] /\ \A q \in Reader : reader'[q] = reader[q] \/ ReaderInv(q)'
  BY <1>1, Zenon
<1>3. InfoTypes'
  BY <1>2, Zenon DEF InfoInv, InfoTypes
<1>4. allFinal <=> allFinal'
  BY Zenon DEF allFinal
<1>5. planning' \in {"start", "distribute", "create"} => \A s \in Stage : stages'[s] = "none"
  BY Zenon DEF InfoInv
<1>6. \A l \in Listener : listener'[l] = "build" => listener[l] = "build" \/ allFinal'
  BY Zenon
<1> QED
  BY <1>2, <1>3, <1>4, <1>5, <1>6, InfoStep, Zenon

\* Readers read the scheduler, then finalQueryInfo, the stages and the state.
LEMMA ReadingInv ==
    ASSUME QueryInv, NEW r \in Reader, readScheduler(r) \/ readFinal(r) \/ readStages(r) \/ buildInfo(r)
    PROVE  QueryInv' /\ OutcomeKept /\ CachedForGood
<1> USE DEF QueryInv
<1>1. UNCHANGED << queryState, failureCause, commit, tracker, failers, planning, stages, callback, listener >>
  BY Zenon DEF readScheduler, readFinal, readStages, buildInfo, execution
<1>2. CallInv' /\ OutcomeKept /\ (isDone' <=> isDone) /\ (allFinal' <=> allFinal)
  BY <1>1, CallFrame, Zenon DEF allFinal
<1>3. /\ reader \in [Reader -> ReaderRecords] /\ queryScheduler \in {"unset", "set", "dropped"}
      /\ finalQueryInfo \in {"empty", "early", "late", "stages", "pruned"}
  BY Zenon DEF InfoInv, InfoTypes
<1>4. /\ reader[r].pc \in {"idle", "final", "stages", "build"} /\ reader[r].scheduler \in {"unset", "set", "dropped"}
      /\ reader[r].final \in BOOLEAN /\ reader[r].late \in BOOLEAN /\ ReaderInv(r)
  BY <1>3 DEF InfoInv, ReaderRecords
<1>5. ASSUME readScheduler(r)
      PROVE  InfoInv' /\ CachedForGood
  <2> DEFINE record == [reader[r] EXCEPT !.pc = "final", !.scheduler = queryScheduler, !.late = FALSE]
  <2>1. /\ record \in ReaderRecords
        /\ record.pc = "final" /\ record.scheduler = queryScheduler /\ record.late = FALSE
    BY <1>3, <1>4, Zenon DEF ReaderRecords
  <2>2. reader' = [reader EXCEPT ![r] = record] /\ UNCHANGED << queryScheduler, finalQueryInfo >>
    BY <1>3, <1>5, Zenon DEF readScheduler, execution
  <2>3. reader'[r] = record
    BY <1>3, <2>2, Zenon
  <2> HIDE DEF record
  <2>4. ReaderInv(r)'
    BY <1>1, <2>1, <2>2, <2>3 DEF InfoInv, ReaderInv
  <2> QED
    BY <1>1, <1>2, <1>3, <2>1, <2>2, <2>4, ReaderStep, Zenon
<1>6. ASSUME readFinal(r)
      PROVE  InfoInv' /\ CachedForGood
  <2> DEFINE record == IF finalQueryInfo # "empty" THEN Told(finalQueryInfo) ELSE [reader[r] EXCEPT !.pc = "stages"]
  <2>1. /\ record \in ReaderRecords
        /\ finalQueryInfo # "empty" => record.pc = "idle" /\ (record.late => finalQueryInfo = "late")
        /\ finalQueryInfo = "empty" => /\ record.pc = "stages" /\ record.late = reader[r].late
                                       /\ record.scheduler = reader[r].scheduler
    BY <1>3, <1>4, Zenon DEF ReaderRecords, Told
  <2>2. reader' = [reader EXCEPT ![r] = record] /\ UNCHANGED << queryScheduler, finalQueryInfo >> /\ reader[r].pc = "final"
    BY <1>3, <1>6 DEF readFinal, execution
  <2>3. reader'[r] = record
    BY <1>3, <2>2, Zenon
  <2> HIDE DEF record
  <2>4. ReaderInv(r)'
    BY <1>1, <1>4, <2>1, <2>2, <2>3 DEF InfoInv, ReaderInv
  <2> QED
    BY <1>1, <1>2, <1>3, <2>1, <2>2, <2>4, ReaderStep, Zenon
<1>7. ASSUME readStages(r)
      PROVE  InfoInv' /\ CachedForGood
  <2> DEFINE record == [reader[r] EXCEPT !.pc = "build", !.final = (reader[r].scheduler = "set" => allFinal)]
  <2>1. /\ record \in ReaderRecords /\ record.pc = "build" /\ record.late = reader[r].late
        /\ record.scheduler = reader[r].scheduler
        /\ record.final /\ reader[r].scheduler = "set" => allFinal
    BY <1>3, <1>4, Zenon DEF ReaderRecords
  <2>2. reader' = [reader EXCEPT ![r] = record] /\ UNCHANGED << queryScheduler, finalQueryInfo >> /\ reader[r].pc = "stages"
    BY <1>3, <1>7, Zenon DEF readStages, execution
  <2>3. reader'[r] = record
    BY <1>3, <2>2, Zenon
  <2> HIDE DEF record
  <2>4. ReaderInv(r)'
    BY <1>1, <1>2, <1>4, <2>1, <2>2, <2>3 DEF ReaderInv
  <2> QED
    BY <1>1, <1>2, <1>3, <2>1, <2>2, <2>4, ReaderStep, Zenon
<1>8. ASSUME buildInfo(r)
      PROVE  InfoInv' /\ CachedForGood
  <2> DEFINE record == Told(InfoOf[reader[r].scheduler])
             built == InfoOf[reader[r].scheduler]
  <2>1. /\ record \in ReaderRecords /\ record.pc = "idle" /\ (record.late => reader[r].scheduler = "dropped")
        /\ built \in {"early", "late", "stages"}
        /\ built = "stages" => reader[r].scheduler = "set"
        /\ built = "late" => reader[r].scheduler = "dropped"
    <3>1. \/ reader[r].scheduler = "unset" /\ built = "early"
          \/ reader[r].scheduler = "dropped" /\ built = "late"
          \/ reader[r].scheduler = "set" /\ built = "stages"
      BY <1>4, InfoOfFacts, Zenon
    <3>2. record = [pc |-> "idle", scheduler |-> "unset", final |-> FALSE, late |-> built = "late"]
      BY Zenon DEF Told
    <3> HIDE DEF record, built
    <3>3. record \in ReaderRecords /\ record.pc = "idle" /\ (record.late <=> built = "late")
      BY <3>2, Zenon DEF ReaderRecords
    <3> QED
      BY <3>1, <3>3
  <2>2. /\ reader' = [reader EXCEPT ![r] = record] /\ reader[r].pc = "build"
        /\ \/ UNCHANGED << queryScheduler, finalQueryInfo >>
           \/ /\ isDone /\ reader[r].final
              /\ finalQueryInfo' = IF finalQueryInfo = "empty" THEN built ELSE finalQueryInfo
              /\ queryScheduler' \in {"dropped", queryScheduler}
    BY <1>8 DEF buildInfo
  <2>3. reader'[r] = record
    BY <1>3, <2>2, Zenon
  <2> HIDE DEF record, built
  <2>4. ReaderInv(r)'
    BY <1>1, <1>4, <2>1, <2>2, <2>3 DEF ReaderInv
  <2>5. /\ queryScheduler' \in {"unset", "set", "dropped"}
        /\ queryScheduler' = "dropped" => queryScheduler = "dropped" \/ finalQueryInfo' # "empty"
        /\ \/ finalQueryInfo' = finalQueryInfo
           \/ /\ finalQueryInfo = "empty" /\ isDone' /\ finalQueryInfo' \in {"early", "late", "stages"}
              /\ finalQueryInfo' = "stages" => allFinal
              /\ finalQueryInfo' = "late" => planning = "aborted"
    BY <1>2, <1>3, <1>4, <2>1, <2>2 DEF ReaderInv
  <2> QED
    BY <1>1, <1>2, <2>1, <2>2, <2>4, <2>5, ReaderStep, Zenon
<1> QED
  BY <1>2, <1>5, <1>6, <1>7, <1>8, Zenon

\* The listeners look at the stages, then cache what they found.
LEMMA ListeningInv ==
    ASSUME QueryInv, NEW l \in Listener, listenerReads(l) \/ listenerUpdates(l)
    PROVE  QueryInv' /\ OutcomeKept /\ CachedForGood
<1> USE DEF QueryInv
<1>1. UNCHANGED << queryState, failureCause, commit, tracker, failers, planning, queryScheduler, stages, callback, reader >>
  BY Zenon DEF listenerReads, listenerUpdates
<1>2. CallInv' /\ OutcomeKept /\ (isDone' <=> isDone) /\ (allFinal' <=> allFinal)
  BY <1>1, CallFrame, Zenon DEF allFinal
<1>3. /\ listener \in [Listener -> {"waiting", "build", "over"}] /\ (listener[l] = "build" => allFinal)
      /\ finalQueryInfo \in {"empty", "early", "late", "stages", "pruned"}
  BY Zenon DEF InfoInv, InfoTypes
<1>4. PICK place \in {"build", "over"} : listener' = [listener EXCEPT ![l] = place] /\ (place = "build" => allFinal)
  BY DEF listenerReads, listenerUpdates
<1>5. listener' \in [Listener -> {"waiting", "build", "over"}] /\ \A k \in Listener : listener'[k] = "build" => listener[k] = "build" \/ allFinal'
  BY <1>2, <1>3, <1>4
<1>6. \/ finalQueryInfo' = finalQueryInfo
      \/ finalQueryInfo = "empty" /\ isDone' /\ finalQueryInfo' = "stages" /\ allFinal'
  BY <1>2, <1>3 DEF listenerReads, listenerUpdates
<1>7. InfoTypes'
  BY <1>1, <1>3, <1>5, <1>6, Zenon DEF InfoInv, InfoTypes
<1>8. InfoInv' /\ CachedForGood
  BY <1>1, <1>2, <1>5, <1>6, <1>7, InfoStep DEF InfoInv
<1> QED
  BY <1>2, <1>8, Zenon

\* The tracker expires, prunes and removes the query.
LEMMA TrackingInv ==
    ASSUME QueryInv, Tracking
    PROVE  QueryInv' /\ OutcomeKept /\ CachedForGood
<1> USE DEF QueryInv
<1>1. /\ UNCHANGED << queryState, failureCause, commit, failers, execution, reader >>
      /\ tracked' \in BOOLEAN /\ expiring' \in BOOLEAN /\ (~tracked => ~tracked')
  <2>1. tracked \in BOOLEAN /\ expiring \in BOOLEAN
    BY Zenon DEF CallInv, CallTypes
  <2>2. CASE expireQuery
    BY <2>1, <2>2, Zenon DEF expireQuery
  <2>3. CASE pruneQueryInfo
    BY <2>1, <2>3, Zenon DEF pruneQueryInfo, tracker
  <2>4. CASE removeExpiredQuery
    BY <2>1, <2>4, Zenon DEF removeExpiredQuery
  <2> QED
    BY <2>2, <2>3, <2>4, Zenon DEF Tracking
<1>2. UNCHANGED << queryState, failureCause, commit, pc, answer >>
  BY <1>1 DEF failers
<1>3. CallTypes'
  BY <1>1, <1>2 DEF CallInv, CallTypes
<1>4. ErrorCode' = ErrorCode /\ (isDone' <=> isDone)
  BY <1>2 DEF ErrorCode, isDone
<1>5. CallInv'
  <2>1. AnswersAreTrue' /\ FailureIsExplained'
    BY <1>1, <1>2, <1>4 DEF CallInv, AnswersAreTrue, FailureIsExplained
  <2> QED
    BY <1>1, <1>2, <1>3, <1>4, <2>1, Zenon DEF CallInv
<1>6. finalQueryInfo' = finalQueryInfo \/ (finalQueryInfo = "stages" /\ finalQueryInfo' = "pruned")
  BY Zenon DEF Tracking, expireQuery, pruneQueryInfo, removeExpiredQuery
<1>7. InfoInv' /\ CachedForGood
  <2>1. UNCHANGED << planning, queryScheduler, stages, callback, listener, reader >>
    BY <1>1 DEF execution
  <2>2. InfoTypes' /\ (allFinal => allFinal')
    BY <1>6, <2>1, Zenon DEF InfoInv, InfoTypes, allFinal
  <2> QED
    BY <1>4, <1>6, <2>1, <2>2, InfoStep DEF InfoInv
<1> QED
  BY <1>2, <1>4, <1>5, <1>7, Zenon DEF OutcomeKept

\* Every step keeps QueryInv, the outcome of a query that ended and the cached info.
LEMMA StepInv ==
    ASSUME QueryInv, [Next]_vars
    PROVE  QueryInv' /\ OutcomeKept /\ CachedForGood
<1>1. CASE Forward
  BY <1>1, ForwardInv
<1>2. ASSUME NEW f \in Failer, checkQuery(f) \/ startFailing(f) \/ setCause(f) \/ setFailed(f) \/ verifyFailed(f)
      PROVE  QueryInv' /\ OutcomeKept /\ CachedForGood
  <2>1. CallInv' /\ OutcomeKept
    BY <1>2, checkQueryInv, startFailingInv, setCauseInv, setFailedInv, verifyFailedInv, Zenon DEF QueryInv
  <2>2. UNCHANGED << execution, finalQueryInfo, reader >>
    BY <1>2, Zenon DEF checkQuery, startFailing, setCause, setFailed, verifyFailed
  <2> QED
    BY <2>1, <2>2, InfoFrame, Zenon DEF QueryInv, OutcomeKept
<1>3. CASE Reading
  BY <1>3, ReadingInv, Zenon DEF Reading
<1>4. CASE Listening
  BY <1>4, ListeningInv, Zenon DEF Listening
<1>5. CASE Tracking
  BY <1>5, TrackingInv
<1>6. CASE Ending
  BY <1>6, StagesEndInv
<1>7. CASE UNCHANGED vars
  <2>1. UNCHANGED << queryState, failureCause, commit, tracker, failers, execution, finalQueryInfo, reader >>
    BY <1>7, Zenon DEF vars
  <2> QED
    BY <2>1, CallFrame, InfoFrame, Zenon DEF QueryInv
<1> QED
  BY <1>1, <1>2, <1>3, <1>4, <1>5, <1>6, <1>7, Zenon DEF Next, Failing

\* QueryInv is an invariant.
THEOREM QueryInvariant == Spec => []QueryInv
<1>1. QueryInv /\ [Next]_vars => QueryInv'
  BY StepInv
<1> QED
  BY <1>1, InitQueryInv, PTL DEF Spec

\* QueryStateMachine.transitionToFailed: a failed query has a cause, though cause and
\* state are two cells that racing calls write in turn.
THEOREM FailuresAreExplained == Spec => []FailureIsExplained
<1>1. QueryInv => FailureIsExplained
  BY DEF QueryInv, CallInv
<1> QED
  BY <1>1, QueryInvariant, PTL

\* QueryResource.failQuery: what a Kill or Preempt request is told is true, and stays
\* true, whoever else fails, finishes, expires or removes the query meanwhile.
THEOREM RequestsAreToldTheTruth == Spec => []AnswersAreTrue
<1>1. QueryInv => AnswersAreTrue
  BY DEF QueryInv, CallInv
<1> QED
  BY <1>1, QueryInvariant, PTL

\* QueryStateMachine.updateQueryInfo and SqlQueryExecution.getQueryInfo: with any number of
\* stages, listeners and readers, an info that is cached as final is that of an ended
\* query whose stages, if it shows any, have ended; it stays; and who looks after the
\* scheduler was made is not told of a query without stages, unless it was dropped at once.
THEOREM CachedInfoIsFinal == Spec => FinalInfoIsFinal
<1>1. QueryInv => CachedAtTheEnd /\ StagesAreSeen
  BY DEF QueryInv, InfoInv, ReaderInv, StagesAreSeen
<1>2. QueryInv /\ [Next]_vars => QueryInv' /\ CachedForGood
  BY StepInv
<1>3. QueryInv' => CachedAtTheEnd' /\ StagesAreSeen'
  BY <1>1, PTL
<1>4. QueryInv /\ [Next]_vars => [CachedAtTheEnd' /\ StagesAreSeen' /\ CachedForGood]_vars
  BY <1>2, <1>3
<1> QED
  BY <1>4, QueryInvariant, PTL DEF Spec, FinalInfoIsFinal

\* StateMachine.setIf with the conditions of QueryStateMachine: a query ends once, and the
\* error code reported for it never changes.
THEOREM OutcomeNeverChanges == Spec => OutcomeIsStable
<1>1. QueryInv /\ [Next]_vars => [isDone => queryState' = queryState /\ ErrorCode' = ErrorCode]_vars
  BY StepInv DEF OutcomeKept
<1> QED
  BY <1>1, QueryInvariant, PTL DEF Spec, OutcomeIsStable

-----------------------------------------------------------------------------
(* The title bar. *)

\* The flags of the bar follow the last request: the dialog was announced exactly in
\* an outage, is open only in one, and stays closed once the user has closed it.
TitleInv ==
    /\ TitleTypeOK
    /\ succeeded <=> ~noConnection
    /\ modalShown <=> noConnection
    /\ modal => noConnection
    /\ dismissed => noConnection /\ ~modal
    /\ OutageIsAnnounced
    /\ PollingNeverStops

\* A page that has just been opened has asked once and shows no outage.
LEMMA InitTitleInv == TitleInit => TitleInv
<1> SUFFICES ASSUME TitleInit PROVE TitleInv
  OBVIOUS
<1>1. TitleTypeOK
  <2>1. silence \in 0..MaxSilence /\ inFlight \in 0..1
    BY TimeAssumption DEF TitleInit
  <2> QED
    BY <2>1, Zenon DEF TitleInit, TitleTypeOK
<1>2. PollingNeverStops
  BY DEF TitleInit, PollingNeverStops
<1> QED
  BY <1>1, <1>2, Zenon DEF TitleInit, TitleInv, OutageIsAnnounced

LEMMA refreshLoopInv == TitleInv /\ refreshLoop => TitleInv'
<1> SUFFICES ASSUME TitleInv, refreshLoop PROVE TitleInv'
  OBVIOUS
<1>1. inFlight = 0 /\ inFlight' = 1 /\ timer' = FALSE
  BY DEF TitleInv, TitleTypeOK, PollingNeverStops, refreshLoop
<1>2. UNCHANGED << connected, titleState, modal, dismissed, succeeded >>
  BY DEF refreshLoop
<1>3. TitleTypeOK'
  <2>1. inFlight' \in 0..1
    BY <1>1
  <2> QED
    BY <1>1, <1>2, <2>1, Zenon DEF TitleInv, TitleTypeOK, titleState
<1>4. PollingNeverStops'
  BY <1>1 DEF PollingNeverStops
<1> QED
  BY <1>2, <1>3, <1>4 DEF TitleInv, OutageIsAnnounced, titleState

LEMMA ReceiveInfoInv == TitleInv /\ ReceiveInfo => TitleInv'
<1> SUFFICES ASSUME TitleInv, ReceiveInfo PROVE TitleInv'
  OBVIOUS
<1>1. inFlight = 1 /\ inFlight' = 0 /\ timer' = TRUE
  BY DEF TitleInv, TitleTypeOK, ReceiveInfo, resetTimer
<1>2. /\ info' = TRUE /\ noConnection' = FALSE /\ silence' = 0 /\ modalShown' = FALSE
      /\ modal' = FALSE /\ dismissed' = FALSE /\ succeeded' = TRUE
      /\ UNCHANGED << connected, lightShown >>
  BY DEF ReceiveInfo
<1>3. TitleTypeOK'
  <2>1. silence' \in 0..MaxSilence /\ inFlight' \in 0..1
    BY <1>1, <1>2, TimeAssumption
  <2> QED
    BY <1>1, <1>2, <2>1, Zenon DEF TitleInv, TitleTypeOK
<1>4. PollingNeverStops'
  BY <1>1 DEF PollingNeverStops
<1> QED
  BY <1>2, <1>3, <1>4 DEF TitleInv, OutageIsAnnounced

LEMMA ReceiveErrorInv ==
    ASSUME TitleInv, NEW secs \in Delays, ReceiveError(secs)
    PROVE  TitleInv'
<1>1. inFlight = 1 /\ inFlight' = 0 /\ timer' = TRUE
  BY DEF TitleInv, TitleTypeOK, ReceiveError, resetTimer
<1>2. /\ noConnection' = TRUE /\ lightShown' = ~lightShown
      /\ modal' = (modal \/ (~modalShown /\ info))
      /\ modalShown' = TRUE /\ succeeded' = FALSE
      /\ UNCHANGED << connected, info, dismissed >>
  BY DEF ReceiveError, Blink, Announce
<1>3. silence' \in 0..MaxSilence
  BY TimeAssumption DEF TitleInv, TitleTypeOK, ReceiveError
<1>4. TitleTypeOK'
  <2>1. /\ connected' \in BOOLEAN /\ noConnection' \in BOOLEAN /\ lightShown' \in BOOLEAN /\ info' \in BOOLEAN
        /\ modalShown' \in BOOLEAN /\ modal' \in BOOLEAN /\ dismissed' \in BOOLEAN /\ succeeded' \in BOOLEAN
        /\ modal' => info'
    BY <1>2, Zenon DEF TitleInv, TitleTypeOK
  <2> QED
    BY <1>1, <1>3, <2>1 DEF TitleTypeOK
<1>5. PollingNeverStops'
  BY <1>1 DEF PollingNeverStops
<1>6. OutageIsAnnounced' /\ (dismissed' => noConnection' /\ ~modal')
  BY <1>2, Zenon DEF TitleInv, OutageIsAnnounced, TitleTypeOK
<1> QED
  BY <1>2, <1>4, <1>5, <1>6 DEF TitleInv

LEMMA DismissInv == TitleInv /\ Dismiss => TitleInv'
<1> SUFFICES ASSUME TitleInv, Dismiss PROVE TitleInv'
  OBVIOUS
<1>1. /\ modal /\ modal' = FALSE /\ dismissed' = TRUE
      /\ UNCHANGED << connected, titleState, timer, inFlight, succeeded >>
  BY DEF Dismiss
<1>2. TitleTypeOK' /\ PollingNeverStops'
  BY <1>1, Zenon DEF TitleInv, TitleTypeOK, PollingNeverStops, titleState
<1> QED
  BY <1>1, <1>2 DEF TitleInv, OutageIsAnnounced, titleState

LEMMA ReconnectInv == TitleInv /\ Reconnect => TitleInv'
<1> SUFFICES ASSUME TitleInv, Reconnect PROVE TitleInv'
  OBVIOUS
<1>1. connected' \in BOOLEAN /\ UNCHANGED << titleState, modal, dismissed, timer, inFlight, succeeded >>
  BY DEF Reconnect, TitleInv, TitleTypeOK
<1>2. TitleTypeOK' /\ PollingNeverStops'
  BY <1>1 DEF TitleInv, TitleTypeOK, PollingNeverStops, titleState
<1> QED
  BY <1>1, <1>2 DEF TitleInv, OutageIsAnnounced, titleState

\* TitleInv is inductive.
THEOREM TitleInvariant == TitleSpec => []TitleInv
<1>1. TitleInv /\ [TitleNext]_titleVars => TitleInv'
  <2> SUFFICES ASSUME TitleInv, [TitleNext]_titleVars PROVE TitleInv'
    OBVIOUS
  <2>1. CASE \E secs \in Delays : ReceiveError(secs)
    BY <2>1, ReceiveErrorInv
  <2>2. CASE UNCHANGED titleVars
    BY <2>2 DEF titleVars, titleState, TitleInv, TitleTypeOK, OutageIsAnnounced, PollingNeverStops
  <2> QED
    BY <2>1, <2>2, refreshLoopInv, ReceiveInfoInv, DismissInv, ReconnectInv DEF TitleNext
<1> QED
  BY <1>1, InitTitleInv, PTL DEF TitleSpec

\* PageTitle.renderStatusLight: the light is green exactly when the last request got
\* through.
THEOREM LightTellsTheTruth == TitleSpec => []LightIsTrue
<1>1. TitleInv => LightIsTrue
  BY DEF TitleInv, LightIsTrue, renderStatusLight
<1> QED
  BY <1>1, TitleInvariant, PTL

\* PageTitle.refreshLoop: in every outage the dialog is opened once and stays until the
\* user closes it, and it goes when the connection is back.
THEOREM EveryOutageIsAnnounced == TitleSpec => [](OutageIsAnnounced /\ DialogGoes)
<1>1. TitleInv => OutageIsAnnounced /\ DialogGoes
  BY DEF TitleInv, DialogGoes
<1> QED
  BY <1>1, TitleInvariant, PTL

\* PageTitle.resetTimer: there is always exactly one of a timer and a request.
THEOREM PollingGoesOn == TitleSpec => []PollingNeverStops
<1>1. TitleInv => PollingNeverStops
  BY DEF TitleInv
<1> QED
  BY <1>1, TitleInvariant, PTL

\* PageTitle.renderStatusLight: every failed request of an outage but the first changes
\* the light.
THEOREM OutageBlinks == TitleSpec => LightBlinks
<1>1. TitleInv /\ [TitleNext]_titleVars =>
        [noConnection /\ noConnection' /\ inFlight' < inFlight => renderStatusLight' # renderStatusLight]_titleVars
  <2> SUFFICES ASSUME TitleInv, TitleNext, noConnection, noConnection', inFlight' < inFlight
               PROVE  renderStatusLight' # renderStatusLight
    OBVIOUS
  <2>1. inFlight \in Int
    BY DEF TitleInv, TitleTypeOK
  <2>2. PICK secs \in Delays : ReceiveError(secs)
    BY <2>1 DEF TitleNext, refreshLoop, ReceiveInfo, Dismiss, Reconnect
  <2>3. lightShown' = ~lightShown
    BY <2>2 DEF ReceiveError, Blink
  <2> QED
    BY <2>3, Zenon DEF renderStatusLight, TitleInv, TitleTypeOK
<1> QED
  BY <1>1, TitleInvariant, PTL DEF TitleSpec, LightBlinks

=============================================================================
