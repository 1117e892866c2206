------------------------- MODULE OutputBufferMemory -------------------------
(***************************************************************************)
(* How an output buffer holds back the drivers that fill it (execution/    *)
(* buffer/OutputBufferMemoryManager.java): a driver asks isFull before     *)
(* every page and waits for the future it gets.  The future is completed,  *)
(* on another thread, when the buffer is below its limit again and the     *)
(* memory pool has memory.                                                 *)
(*                                                                         *)
(* Only the current bufferBlockedFuture can be incomplete, so a queued     *)
(* completion of an older one does nothing and is forgotten.  The memory   *)
(* pool is external: a reservation in an exhausted pool yields a future    *)
(* that is completed when the pool has memory, giving back never blocks.   *)
(***************************************************************************)
EXTENDS Integers, FiniteSets

CONSTANTS Driver,           \* the drivers that write to the buffer
          Size,             \* the sizes of pages, in bytes
          LargestPage,      \* the largest of them
          maxBufferedBytes

ASSUME DriverAssumption == IsFiniteSet(Driver)
ASSUME LimitAssumption == maxBufferedBytes \in Nat \ {0}
ASSUME SizeAssumption == LargestPage \in Nat /\ Size \subseteq 1..LargestPage

VARIABLES
    held,                 \* the bytes of the pages that somebody references
    bufferedBytes,        \* what the memory pool was told of them
    blockOnFull,
    closed,
    bufferBlockedFuture,  \* the current future is complete
    completion,           \* its completion is queued on the notification executor
    blockedOnMemory,      \* the last reservation waits for the pool
    memoryListener,       \* onMemoryAvailable waits for the pool
    memoryAvailable,      \* onMemoryAvailable is queued on the notification executor
    poolExhausted,
    ending,               \* how far the end of the buffer has got
    driver

bufferVars == <<held, bufferedBytes, blockOnFull, closed, bufferBlockedFuture, completion, blockedOnMemory,
          memoryListener, memoryAvailable, poolExhausted, ending, driver>>
futures == <<bufferBlockedFuture, completion, blockedOnMemory, memoryListener, memoryAvailable>>

BufferInit ==
    /\ held = 0
    /\ bufferedBytes = 0
    /\ blockOnFull = TRUE
    /\ closed = FALSE
    /\ bufferBlockedFuture = TRUE
    /\ completion = FALSE
    /\ blockedOnMemory = FALSE
    /\ memoryListener = FALSE
    /\ memoryAvailable = FALSE
    /\ poolExhausted = FALSE
    /\ ending = "no"
    /\ driver = [d \in Driver |-> "asking"]

-----------------------------------------------------------------------------
IsFullWith(bytes) == bytes > maxBufferedBytes /\ blockOnFull
IsBufferFull == IsFullWith(bufferedBytes)

\* mutant: the closed flag is not looked at
UpdateMemoryUsageClosed(bytesAdded) ==
    /\ bufferedBytes' = bufferedBytes + bytesAdded
    /\ UNCHANGED futures

\* mutant: nobody listens to the reservation
UpdateMemoryUsageDeaf(bytesAdded) ==
    IF closed THEN UNCHANGED <<bufferedBytes, futures>>
    ELSE /\ bufferedBytes' = bufferedBytes + bytesAdded
         /\ blockedOnMemory' = (bytesAdded > 0 /\ poolExhausted)
         /\ completion' = (completion \/ ( /\ ~IsFullWith(bufferedBytes')
                                          /\ ~blockedOnMemory' /\ ~bufferBlockedFuture))
         /\ UNCHANGED <<bufferBlockedFuture, memoryListener, memoryAvailable>>

\* Adding bytes to the buffer, and reserving the difference in the pool.  Either
\* the future is to be completed, or onMemoryAvailable listens to the reservation.
UpdateMemoryUsage(bytesAdded) ==
    IF closed THEN UNCHANGED <<bufferedBytes, futures>>
    ELSE /\ bufferedBytes' = bufferedBytes + bytesAdded
         /\ blockedOnMemory' = (bytesAdded > 0 /\ poolExhausted)
         /\ IF ~IsFullWith(bufferedBytes') /\ ~blockedOnMemory' /\ ~bufferBlockedFuture
            THEN /\ completion' = TRUE
                 /\ UNCHANGED <<memoryListener, memoryAvailable>>
            ELSE /\ memoryListener' = (memoryListener \/ blockedOnMemory')
                 /\ memoryAvailable' = (memoryAvailable \/ ~blockedOnMemory')
                 /\ UNCHANGED completion
         /\ UNCHANGED bufferBlockedFuture

\* mutant: a completed future is handed out also when the buffer is full
GetBufferBlockedFutureStale(d) ==
    /\ driver[d] = "asking"
    /\ driver' = [driver EXCEPT ![d] = IF bufferBlockedFuture THEN "adding" ELSE "waiting"]
    /\ UNCHANGED <<held, bufferedBytes, blockOnFull, closed, futures, poolExhausted, ending>>

\* A driver asks isFull: it goes on to add a page, or waits.
GetBufferBlockedFuture(d) ==
    LET renew == (IsBufferFull \/ blockedOnMemory) /\ bufferBlockedFuture
    IN  /\ driver[d] = "asking"
        /\ bufferBlockedFuture' = (bufferBlockedFuture /\ ~renew)
        /\ completion' = (completion /\ ~renew)
        /\ driver' = [driver EXCEPT ![d] = IF bufferBlockedFuture' THEN "adding" ELSE "waiting"]
        /\ UNCHANGED <<held, bufferedBytes, blockOnFull, closed, blockedOnMemory, memoryListener,
                       memoryAvailable, poolExhausted, ending>>

\* enqueue ignores the page when the buffer is at its end.
StartEnqueue(d) ==
    /\ driver[d] = "adding"
    /\ driver' = [driver EXCEPT ![d] = IF ending = "no" THEN "reserving" ELSE "asking"]
    /\ UNCHANGED <<held, bufferedBytes, blockOnFull, closed, futures, poolExhausted, ending>>

\* enqueue reserves the memory of the page, and the driver will ask again.
ReserveMemory(d, size) ==
    /\ driver[d] = "reserving"
    /\ driver' = [driver EXCEPT ![d] = "asking"]
    /\ held' = held + size
    /\ UpdateMemoryUsage(size)
    /\ UNCHANGED <<blockOnFull, closed, poolExhausted, ending>>

\* The last reference to a page is dropped.
FreePage(size) ==
    /\ size <= held
    /\ held' = held - size
    /\ UpdateMemoryUsage(-size)
    /\ UNCHANGED <<blockOnFull, closed, poolExhausted, ending, driver>>

-----------------------------------------------------------------------------
(* The notification executor. *)

\* Setting the future lets everyone go on who waits for it.
CompleteFuture ==
    /\ completion
    /\ completion' = FALSE
    /\ bufferBlockedFuture' = TRUE
    /\ driver' = [d \in Driver |-> IF driver[d] = "waiting" THEN "asking" ELSE driver[d]]
    /\ UNCHANGED <<held, bufferedBytes, blockOnFull, closed, blockedOnMemory, memoryListener,
                   memoryAvailable, poolExhausted, ending>>

OnMemoryAvailable ==
    /\ memoryAvailable
    /\ memoryAvailable' = FALSE
    /\ completion' = (completion \/ bufferedBytes <= maxBufferedBytes)
    /\ UNCHANGED <<held, bufferedBytes, blockOnFull, closed, bufferBlockedFuture, blockedOnMemory,
                   memoryListener, poolExhausted, ending, driver>>

-----------------------------------------------------------------------------
(* setNoMorePages, destroy and fail of the buffer that owns this. *)

\* The buffer's state no longer allows pages, by setNoMorePages, destroy or fail.
EndBuffer ==
    /\ ending = "no"
    /\ ending' = "ended"
    /\ UNCHANGED <<held, bufferedBytes, blockOnFull, closed, futures, poolExhausted, driver>>

\* setNoMorePages calls this, and destroy and fail call it again.
SetNoBlockOnFull ==
    /\ ending \in {"ended", "closing"}
    /\ ending' = "closing"
    /\ blockOnFull' = FALSE
    /\ completion' = TRUE
    /\ UNCHANGED <<held, bufferedBytes, closed, bufferBlockedFuture, blockedOnMemory,
                   memoryListener, memoryAvailable, poolExhausted, driver>>

\* mutant: the bytes are not given back
CloseKeepsBytes ==
    /\ ending = "closing"
    /\ ending' = "closed"
    /\ closed' = TRUE
    /\ UNCHANGED <<held, bufferedBytes, futures, blockOnFull, poolExhausted, driver>>

Close ==
    /\ ending = "closing"
    /\ ending' = "closed"
    /\ UpdateMemoryUsage(-bufferedBytes)
    /\ closed' = TRUE
    /\ UNCHANGED <<held, blockOnFull, poolExhausted, driver>>

-----------------------------------------------------------------------------
(* The pool. *)

PoolIsExhausted ==
    /\ ~poolExhausted
    /\ poolExhausted' = TRUE
    /\ UNCHANGED <<held, bufferedBytes, blockOnFull, closed, futures, ending, driver>>

\* The reservations that wait are done, and their listeners run.
PoolHasMemory ==
    /\ poolExhausted
    /\ poolExhausted' = FALSE
    /\ blockedOnMemory' = FALSE
    /\ memoryListener' = FALSE
    /\ memoryAvailable' = (memoryAvailable \/ memoryListener)
    /\ UNCHANGED <<held, bufferedBytes, blockOnFull, closed, bufferBlockedFuture, completion, ending,
                   driver>>

Free == \E size \in Size : FreePage(size)

BufferNext ==
    \/ \E d \in Driver :
         \/ GetBufferBlockedFuture(d) \/ StartEnqueue(d)
         \/ \E size \in Size : ReserveMemory(d, size)
    \/ Free
    \/ CompleteFuture \/ OnMemoryAvailable
    \/ EndBuffer \/ SetNoBlockOnFull \/ Close
    \/ PoolIsExhausted \/ PoolHasMemory

BufferSpec == BufferInit /\ [][BufferNext]_bufferVars

\* The executor runs what is queued, consumers take pages out, the pool gets
\* memory back, and a buffer at its end is closed.
FairSpec == BufferSpec /\ WF_bufferVars(CompleteFuture) /\ WF_bufferVars(OnMemoryAvailable) /\ WF_bufferVars(Free)
                 /\ WF_bufferVars(SetNoBlockOnFull) /\ WF_bufferVars(Close) /\ WF_bufferVars(PoolHasMemory)

-----------------------------------------------------------------------------
(* Properties. *)

BufferTypeOK ==
    /\ held \in Nat
    /\ bufferedBytes \in Nat
    /\ blockOnFull \in BOOLEAN /\ closed \in BOOLEAN
    /\ bufferBlockedFuture \in BOOLEAN /\ completion \in BOOLEAN
    /\ blockedOnMemory \in BOOLEAN /\ memoryListener \in BOOLEAN /\ memoryAvailable \in BOOLEAN
    /\ poolExhausted \in BOOLEAN
    /\ ending \in {"no", "ended", "closing", "closed"}
    /\ driver \in [Driver -> {"asking", "adding", "reserving", "waiting"}]

\* The drivers that were told there is room and whose page will not be ignored.
Committed ==
    {d \in Driver : driver[d] = "reserving" \/ (driver[d] = "adding" /\ ending = "no")}

\* The pool is told of exactly the pages that are referenced, until the buffer is
\* closed; what is freed or reserved after that is not counted again.
PoolIsToldOfHeldPages == bufferedBytes = IF closed THEN 0 ELSE held

\* isFull is advice: a driver may add its page after others have filled the
\* buffer.  The limit is exceeded by no more than one page of every driver, and
\* the drivers that are still to add theirs fit in that.
OvershootIsBounded ==
    bufferedBytes + LargestPage * Cardinality(Committed)
      <= maxBufferedBytes + LargestPage * Cardinality(Driver)

\* No wakeup is lost: when drivers wait for the future, it is about to be
\* completed, or the buffer is full and freeing pages will complete it, or
\* onMemoryAvailable is queued or listens to the reservation that is waited
\* for, or the buffer is being closed, which completes it.
WaitingDriverWillBeWoken ==
    (\E d \in Driver : driver[d] = "waiting") =>
      /\ ~bufferBlockedFuture
      /\ \/ completion \/ memoryAvailable
         \/ IsBufferFull
         \/ blockedOnMemory /\ memoryListener
         \/ ending = "closing"

-----------------------------------------------------------------------------
(* The inductive invariant behind the safety properties. *)

\* How far the end of the buffer has got shows in the flags.
EndingInv ==
    /\ blockOnFull <=> ending \in {"no", "ended"}
    /\ closed <=> ending = "closed"

\* An incomplete future has someone who will complete it, whether or not a driver
\* waits for it.
FutureInv ==
    /\ \A d \in Driver : driver[d] = "waiting" => ~bufferBlockedFuture
    /\ blockedOnMemory => memoryListener
    /\ \/ bufferBlockedFuture \/ completion \/ memoryAvailable
       \/ IsBufferFull \/ blockedOnMemory \/ ending = "closing"

Inv == BufferTypeOK /\ EndingInv /\ FutureInv /\ PoolIsToldOfHeldPages /\ OvershootIsBounded

-----------------------------------------------------------------------------
\* Every driver that waits for room in the buffer is woken.
WaitingDriverIsWoken ==
    \A d \in Driver : driver[d] = "waiting" ~> driver[d] # "waiting"
=============================================================================
