-------------------- MODULE BroadcastOutputBufferProofs --------------------
(***************************************************************************)
(* The inductive invariant of the broadcast output buffer, for any number  *)
(* of drivers, consumers and pages, any page sizes and any history of      *)
(* OutputBuffers, and the steps that change the buffer's state, add pages  *)
(* and end the client buffers.  TaskOutputProofs has the other steps and   *)
(* the theorems.                                                           *)
(***************************************************************************)
EXTENDS BroadcastOutputBuffer, SumTheorems, SequenceTheorems

-----------------------------------------------------------------------------
(* The inductive invariant. *)

BufferState == {"OPEN", "NO_MORE_BUFFERS", "NO_MORE_PAGES", "FLUSHING", "FINISHED", "FAILED"}

ClientBufferType ==
    [taskInstanceId : {0}, pages : Seq(Page), currentSequenceId : Nat,
     noMorePages : BOOLEAN, destroyed : BOOLEAN, pendingRead : {NoRead}]

DriverType ==
    [pc : {"idle", "reserve", "snapshot", "enqueue", "done"},
     page : 0..MaxPages, todo : SUBSET Consumer]

FinisherType ==
    [pc : {"idle", "checked", "flushing", "snapshot", "setNoMorePages", "done"},
     todo : SUBSET Consumer]

CoordinatorType ==
    [pc : {"idle", "create", "flushing", "noMoreBuffers", "check", "recheck", "threw"},
     read : BufferState]

DestroyerType ==
    [pc : {"idle", "noMoreBuffers", "snapshot", "destroy", "fail", "done"},
     todo : SUBSET Consumer, cancelled : BOOLEAN]

ConsumerType ==
    [received : Seq(Page), complete : BOOLEAN, pc : {"reading", "check", "recheck", "done"}]

TypeInv ==
    /\ state \in BufferState
    /\ outputBuffers \in 0..Len(History)
    /\ lock \in BOOLEAN
    /\ DOMAIN buffers \subseteq Consumer
    /\ buffers \in [DOMAIN buffers -> ClientBufferType]
    /\ initialPagesForNewBuffers \in Seq(Page)
    /\ referenceCount \in [Page -> Int]
    /\ bufferedBytes \in Int
    /\ memoryClosed \in BOOLEAN
    /\ produced \in 0..MaxPages
    /\ driver \in [Driver -> DriverType]
    /\ finisher \in FinisherType
    /\ coordinator \in CoordinatorType
    /\ destroyer \in DestroyerType
    /\ consumer \in [Consumer -> ConsumerType]

\* Driver d is inside of enqueue with a page.
Enqueueing(d) == driver[d].pc \in {"reserve", "snapshot", "enqueue"}

\* Driver d has a page nobody else has seen.
Unshared(d) == driver[d].pc \in {"reserve", "snapshot"}

\* Driver d has a page it has not yet passed to the buffer of c.
Pending(d, c) == Unshared(d) \/ (driver[d].pc = "enqueue" /\ c \in driver[d].todo)

\* The pages the drivers have in their hands.
DriverInv ==
    /\ \A d \in Driver : driver[d].todo \subseteq DOMAIN buffers
    /\ \A d \in Driver : Enqueueing(d) => driver[d].page \in 1..produced
    /\ \A d, e \in Driver :
         d # e /\ Enqueueing(d) /\ Enqueueing(e) => driver[d].page # driver[e].page

\* The pages in the buffer of c: each is there once, and not before a driver put
\* it there.
PlacedOnce(c) ==
    /\ IsInjective(buffers[c].pages)
    /\ Range(buffers[c].pages) \subseteq 1..produced
    /\ buffers[c].destroyed => buffers[c].pages = << >> /\ buffers[c].noMorePages
    /\ \A d \in Driver : Pending(d, c) => driver[d].page \notin Range(buffers[c].pages)

PlaceInv ==
    /\ finisher.todo \subseteq DOMAIN buffers
    /\ destroyer.todo \subseteq DOMAIN buffers
    /\ IsInjective(initialPagesForNewBuffers)
    /\ Range(initialPagesForNewBuffers) \subseteq 1..produced
    /\ \A d \in Driver : Unshared(d) => driver[d].page \notin Range(initialPagesForNewBuffers)
    /\ \A c \in DOMAIN buffers : PlacedOnce(c)

\* The same for what c has received.
ReceivedOnce(c) ==
    /\ IsInjective(consumer[c].received)
    /\ Range(consumer[c].received) \subseteq 1..produced
    /\ \A d \in Driver : Pending(d, c) => driver[d].page \notin Range(consumer[c].received)

\* The pages consumer c has acknowledged.
Acknowledged(c) == {consumer[c].received[i] : i \in 1..buffers[c].currentSequenceId}

\* The pages in the buffer of c follow the pages acknowledged, and what c has
\* received is a prefix of both together.
InWindow(c) ==
    /\ buffers[c].currentSequenceId <= Len(consumer[c].received)
    /\ Len(consumer[c].received) <= buffers[c].currentSequenceId + Len(buffers[c].pages)
    /\ \A i \in 1..Len(buffers[c].pages) :
         buffers[c].currentSequenceId + i <= Len(consumer[c].received)
           => consumer[c].received[buffers[c].currentSequenceId + i] = buffers[c].pages[i]
    /\ Acknowledged(c) \cap Range(buffers[c].pages) = {}

WindowInv ==
    /\ \A c \in Consumer \ DOMAIN buffers : consumer[c].received = << >> /\ ~consumer[c].complete
    /\ \A c \in Consumer : ReceivedOnce(c)
    /\ \A c \in DOMAIN buffers : ~buffers[c].destroyed => InWindow(c)

\* The task has neither failed nor been cancelled.
Undisturbed == state # "FAILED" /\ ~destroyer.cancelled

\* A page that was produced is kept for those who have no buffer yet.
KeptForLater ==
    \A p \in 1..produced : \/ p \in Range(initialPagesForNewBuffers)
                           \/ \E d \in Driver : driver[d].page = p /\ Unshared(d)

\* It has been acknowledged by c, is in the buffer of c or on its way there.
Covered(c) ==
    \A p \in 1..produced : \/ p \in Acknowledged(c) \cup Range(buffers[c].pages)
                           \/ \E d \in Driver : driver[d].page = p /\ Pending(d, c)

\* No page is lost.
CoverInv ==
    Undisturbed =>
      /\ DOMAIN buffers # Consumer => KeptForLater
      /\ \A c \in DOMAIN buffers : ~buffers[c].destroyed => Covered(c)
      /\ \A c \in Consumer : consumer[c].complete =>
           DriversDone /\ Range(consumer[c].received) = 1..produced

\* How the state of the buffer goes with what the threads are doing.
FlowInv ==
    /\ lock <=> coordinator.pc \in {"create", "flushing"}
    /\ destroyer.pc # "idle" <=> IsTerminal(state)
    /\ destroyer.cancelled => state = "FINISHED"
    /\ state \in {"NO_MORE_PAGES", "FLUSHING"} => DriversDone
    /\ coordinator.pc = "create" =>
         ~IsTerminal(coordinator.read) /\ (~CanAddPages(coordinator.read) => DriversDone)
    /\ finisher.pc \notin {"idle", "checked"} => DriversDone
    /\ coordinator.pc = "flushing" => DOMAIN buffers = Consumer

\* How it goes with the client buffers, while the task is well.
EndInv ==
    Undisturbed =>
      /\ DOMAIN buffers # Consumer => state \in {"OPEN", "NO_MORE_PAGES"}
      /\ \A c \in DOMAIN buffers :
           /\ state = "FINISHED" => buffers[c].destroyed
           /\ buffers[c].noMorePages /\ ~buffers[c].destroyed => DriversDone
           /\ buffers[c].destroyed => consumer[c].pc # "reading"

\* What the two calls that lead to FLUSHING have achieved so far.
CallsInv ==
    /\ finisher.pc \notin {"idle", "checked"} => state # "OPEN"
    /\ finisher.pc \notin {"idle", "checked", "flushing"} => state # "NO_MORE_BUFFERS"
    /\ IsNoMoreBufferIds(outputBuffers) /\ coordinator.pc # "create" => state # "OPEN"
    /\ IsNoMoreBufferIds(outputBuffers) /\ coordinator.pc \notin {"create", "flushing"}
         => state # "NO_MORE_PAGES"

PagesInv == DriverInv /\ PlaceInv /\ WindowInv /\ CoverInv

ControlInv == FlowInv /\ EndInv /\ CallsInv

BufferInv == TypeInv /\ PagesInv /\ ReferencesAreExact /\ MemoryIsAccounted /\ ControlInv

-----------------------------------------------------------------------------
(* The initial state. *)

LEMMA FinitePages == IsFiniteSet(Page) /\ PageSize \in [Page -> Int]
BY NumberedPages, PageSizeAssumption, FS_Interval

LEMMA SizeIsSum ==
    ASSUME NEW S
    PROVE  SizeOf(S) = Sum(PageSize, S)
BY DEF SizeOf, Sum

LEMMA InitInv == Init => BufferInv
<1> SUFFICES ASSUME Init PROVE BufferInv
  OBVIOUS
<1>1. TypeInv
  <2>1. buffers \in [DOMAIN buffers -> ClientBufferType] /\ DOMAIN buffers = {}
    BY DEF Init
  <2>2. 0 \in 0..Len(History)
    BY HistoryAssumption, LenProperties
  <2>3. driver \in [Driver -> DriverType] /\ consumer \in [Consumer -> ConsumerType]
    BY NumberedPages DEF Init, DriverType, ConsumerType
  <2>4. finisher \in FinisherType /\ coordinator \in CoordinatorType
    BY DEF Init, FinisherType, CoordinatorType, BufferState
  <2>5. destroyer \in DestroyerType
    BY DEF Init, DestroyerType
  <2>6. lock \in BOOLEAN /\ memoryClosed \in BOOLEAN
    BY Zenon DEF Init
  <2> QED
    BY <2>1, <2>2, <2>3, <2>4, <2>5, <2>6, NumberedPages DEF Init, TypeInv, BufferState
<1>2. DOMAIN buffers = {} /\ Range(initialPagesForNewBuffers) = {}
  BY DEF Init, Range
<1>3. PagesInv
  BY <1>2 DEF Init, PagesInv, DriverInv, PlaceInv, WindowInv, CoverInv, Enqueueing, Unshared,
              Pending, IsInjective, Range, PlacedOnce, ReceivedOnce, InWindow, KeptForLater, Covered
<1>4. \A p \in Page : Holders(p) = {}
  BY <1>2 DEF Init, Holders
<1>5. ReferencesAreExact
  BY <1>4, FS_EmptySet, Zenon DEF Init, ReferencesAreExact
<1>6. MemoryIsAccounted
  <2>1. {p \in Page : referenceCount[p] > 0} = {}
    BY DEF Init
  <2>2. SizeOf({}) = 0
    BY SumType, SizeIsSum, FinitePages
  <2> QED
    BY <2>1, <2>2, Zenon DEF Init, MemoryIsAccounted
<1>7. ControlInv
  BY <1>2 DEF Init, ControlInv, FlowInv, EndInv, CallsInv, IsTerminal, IsNoMoreBufferIds
<1> QED
  BY <1>1, <1>3, <1>5, <1>6, <1>7 DEF BufferInv

-----------------------------------------------------------------------------
(* The steps that only move a thread or the state of the buffer. *)

\* Consumers receive nothing.
NothingReceived ==
    \A c \in Consumer : /\ consumer'[c].received = consumer[c].received
                        /\ consumer'[c].complete = consumer[c].complete

\* Drivers keep their pages and pass none on, and one that is done stays so.
DriversKeepPages ==
    \A d \in Driver : /\ driver'[d].page = driver[d].page /\ driver'[d].todo = driver[d].todo
                      /\ Unshared(d)' <=> Unshared(d)
                      /\ driver'[d].pc = "enqueue" <=> driver[d].pc = "enqueue"
                      /\ driver[d].pc = "done" => driver'[d].pc = "done"

\* A step that leaves pages and buffers alone keeps what is said of them, unless
\* it makes a disturbed task an undisturbed one.
LEMMA PagesFrame ==
    ASSUME BufferInv,
           UNCHANGED <<buffers, initialPagesForNewBuffers, produced>>,
           DriversKeepPages,
           NothingReceived,
           Undisturbed' => Undisturbed,
           finisher'.todo \subseteq DOMAIN buffers,
           destroyer'.todo \subseteq DOMAIN buffers
    PROVE  PagesInv'
<1>1. \A d \in Driver : Enqueueing(d)' <=> Enqueueing(d)
  BY DEF DriversKeepPages, Unshared, Enqueueing
<1>2. \A d \in Driver : \A c : Pending(d, c)' <=> Pending(d, c)
  BY DEF DriversKeepPages, Pending
<1>3. DOMAIN buffers \subseteq Consumer
  BY DEF BufferInv, TypeInv
<1>4. \A c \in DOMAIN buffers : Acknowledged(c)' = Acknowledged(c)
  BY <1>3 DEF Acknowledged, NothingReceived
<1>5. DriverInv'
  BY <1>1 DEF BufferInv, PagesInv, DriverInv, DriversKeepPages
<1>6. PlaceInv'
  BY <1>2 DEF BufferInv, PagesInv, PlaceInv, DriversKeepPages, PlacedOnce
<1>7. WindowInv'
  BY <1>2, <1>3, <1>4 DEF BufferInv, PagesInv, WindowInv, NothingReceived, DriversKeepPages,
                          ReceivedOnce, InWindow
<1>8. CoverInv'
  BY <1>2, <1>3, <1>4 DEF BufferInv, PagesInv, CoverInv, NothingReceived, DriversDone,
                          DriversKeepPages, KeptForLater, Covered
<1> QED
  BY <1>5, <1>6, <1>7, <1>8 DEF PagesInv

LEMMA ReferencesFrame ==
    ASSUME ReferencesAreExact, UNCHANGED <<referenceCount, buffers, initialPagesForNewBuffers>>,
           UNCHANGED driver
    PROVE  ReferencesAreExact'
BY DEF ReferencesAreExact, Holders

LEMMA MemoryFrame ==
    ASSUME MemoryIsAccounted, UNCHANGED <<referenceCount, bufferedBytes, memoryClosed>>
    PROVE  MemoryIsAccounted'
BY DEF MemoryIsAccounted

LEMMA ControlStep ==
    ASSUME BufferInv,
           UNCHANGED <<buffers, initialPagesForNewBuffers, produced, driver, memory, memoryClosed>>,
           NothingReceived,
           Undisturbed' => Undisturbed,
           finisher'.todo \subseteq DOMAIN buffers,
           destroyer'.todo \subseteq DOMAIN buffers,
           TypeInv', ControlInv'
    PROVE  BufferInv'
<1>1. PagesInv'
  BY PagesFrame DEF DriversKeepPages, Unshared
<1>2. ReferencesAreExact'
  BY ReferencesFrame DEF BufferInv, memory
<1>3. MemoryIsAccounted'
  BY MemoryFrame DEF BufferInv, memory
<1> QED
  BY <1>1, <1>2, <1>3 DEF BufferInv

LEMMA StartSetNoMorePagesStep ==
    ASSUME BufferInv, NEW pc \in {"idle", "checked"}, DriversDone, StartSetNoMorePages(pc)
    PROVE  BufferInv'
<1>1. TypeInv'
  BY Zenon DEF BufferInv, TypeInv, BufferState, StartSetNoMorePages, CompareAndSet, memory, FinisherType
<1>2. Undisturbed' => Undisturbed
  BY DEF StartSetNoMorePages, CompareAndSet, Undisturbed
<1>3. FlowInv'
  BY DEF BufferInv, TypeInv, FinisherType, ControlInv, FlowInv, StartSetNoMorePages,
         CompareAndSet, DriversDone, IsTerminal
<1>4. EndInv'
  BY <1>2 DEF BufferInv, ControlInv, EndInv, StartSetNoMorePages, CompareAndSet, DriversDone
<1>5. CallsInv'
  BY DEF BufferInv, TypeInv, FinisherType, ControlInv, CallsInv, StartSetNoMorePages,
         CompareAndSet, memory
<1>6. finisher'.todo \subseteq DOMAIN buffers /\ destroyer'.todo \subseteq DOMAIN buffers
  BY DEF BufferInv, TypeInv, FinisherType, PagesInv, PlaceInv, StartSetNoMorePages, PlacedOnce
<1> QED
  BY <1>1, <1>2, <1>3, <1>4, <1>5, <1>6, ControlStep
     DEF StartSetNoMorePages, ControlInv, NothingReceived, memory

LEMMA ToFlushingStep ==
    ASSUME BufferInv, ToFlushing
    PROVE  BufferInv'
<1>1. TypeInv'
  BY Zenon DEF BufferInv, TypeInv, BufferState, ToFlushing, CompareAndSet, memory, FinisherType
<1>2. Undisturbed' => Undisturbed
  BY DEF ToFlushing, CompareAndSet, Undisturbed
<1>3. FlowInv'
  BY DEF BufferInv, TypeInv, FinisherType, ControlInv, FlowInv, ToFlushing, CompareAndSet,
         DriversDone, IsTerminal
<1>4. EndInv'
  BY <1>2 DEF BufferInv, ControlInv, EndInv, ToFlushing, CompareAndSet, DriversDone
<1>5. CallsInv'
  BY DEF BufferInv, TypeInv, FinisherType, ControlInv, CallsInv, ToFlushing, CompareAndSet, memory
<1>6. finisher'.todo \subseteq DOMAIN buffers /\ destroyer'.todo \subseteq DOMAIN buffers
  BY DEF BufferInv, TypeInv, FinisherType, PagesInv, PlaceInv, ToFlushing, PlacedOnce
<1> QED
  BY <1>1, <1>2, <1>3, <1>4, <1>5, <1>6, ControlStep DEF ToFlushing, ControlInv, NothingReceived

LEMMA SnapshotForNoMorePagesStep ==
    ASSUME BufferInv, SnapshotForNoMorePages
    PROVE  BufferInv'
<1>1. TypeInv'
  BY DEF BufferInv, TypeInv, SnapshotForNoMorePages, memory, FinisherType
<1>2. Undisturbed' => Undisturbed
  BY DEF SnapshotForNoMorePages, Undisturbed
<1>3. FlowInv'
  BY DEF BufferInv, TypeInv, FinisherType, ControlInv, FlowInv, SnapshotForNoMorePages, DriversDone
<1>4. EndInv'
  BY <1>2 DEF BufferInv, ControlInv, EndInv, SnapshotForNoMorePages, DriversDone
<1>5. CallsInv'
  BY DEF BufferInv, ControlInv, CallsInv, SnapshotForNoMorePages
<1>6. finisher'.todo \subseteq DOMAIN buffers /\ destroyer'.todo \subseteq DOMAIN buffers
  BY DEF BufferInv, PagesInv, PlaceInv, SnapshotForNoMorePages, PlacedOnce
<1> QED
  BY <1>1, <1>2, <1>3, <1>4, <1>5, <1>6, ControlStep
     DEF SnapshotForNoMorePages, ControlInv, NothingReceived

\* checkFlushComplete changes nothing, or starts to destroy a buffer that waits
\* for its flush and whose client buffers are all destroyed.
LEMMA CheckFlushCompleteEffect ==
    ASSUME BufferInv, NEW seen \in BOOLEAN, CheckFlushComplete(seen)
    PROVE  \/ state' = state /\ destroyer' = destroyer
           \/ /\ state \in {"NO_MORE_BUFFERS", "FLUSHING"}
              /\ \A c \in DOMAIN buffers : buffers[c].destroyed
              /\ state' = "FINISHED"
              /\ destroyer' = [pc |-> "noMoreBuffers", todo |-> {}, cancelled |-> FALSE]
BY DEF CheckFlushComplete, TryDestroy, WaitsForFlush, IsTerminal

\* The call that ends with checkFlushComplete has moved on.
LEMMA CheckFlushCompleteStep ==
    ASSUME BufferInv, NEW seen \in BOOLEAN, CheckFlushComplete(seen),
           finisher' \in FinisherType, coordinator' \in CoordinatorType,
           consumer' \in [Consumer -> ConsumerType], NothingReceived,
           \A c \in Consumer : consumer'[c].pc = "reading" => consumer[c].pc = "reading",
           finisher'.todo = finisher.todo,
           finisher'.pc = finisher.pc \/ (finisher.pc = "setNoMorePages" /\ finisher'.pc = "done"),
           coordinator' = coordinator
             \/ (coordinator.pc \in {"check", "recheck"} /\ coordinator'.pc = "idle")
    PROVE  BufferInv'
<1>1. \/ state' = state /\ destroyer' = destroyer
      \/ /\ state \in {"NO_MORE_BUFFERS", "FLUSHING"}
         /\ \A c \in DOMAIN buffers : buffers[c].destroyed
         /\ state' = "FINISHED"
         /\ destroyer' = [pc |-> "noMoreBuffers", todo |-> {}, cancelled |-> FALSE]
  BY CheckFlushCompleteEffect, Zenon
<1>2. TypeInv'
  <2>1. destroyer' \in DestroyerType
    <3>1. [pc |-> "noMoreBuffers", todo |-> {}, cancelled |-> FALSE] \in DestroyerType
      BY DEF DestroyerType
    <3> QED
      BY <1>1, <3>1, Zenon DEF BufferInv, TypeInv
  <2> QED
    BY <1>1, <2>1 DEF BufferInv, TypeInv, BufferState, CheckFlushComplete, memory
<1>3. Undisturbed' => Undisturbed
  BY <1>1 DEF BufferInv, ControlInv, FlowInv, Undisturbed
<1>4. FlowInv'
  BY <1>1 DEF BufferInv, TypeInv, FinisherType, CoordinatorType, ControlInv, FlowInv,
              CheckFlushComplete, DriversDone, IsTerminal
<1>5. EndInv'
  <2>1. DOMAIN buffers \subseteq Consumer
    BY DEF BufferInv, TypeInv
  <2> QED
    BY <1>1, <1>3, <2>1 DEF BufferInv, ControlInv, EndInv, CheckFlushComplete, DriversDone
<1>6. CallsInv'
  BY <1>1 DEF BufferInv, ControlInv, CallsInv, CheckFlushComplete
<1>7. finisher'.todo \subseteq DOMAIN buffers /\ destroyer'.todo \subseteq DOMAIN buffers
  BY <1>1 DEF BufferInv, PagesInv, PlaceInv
<1> QED
  BY <1>2, <1>3, <1>4, <1>5, <1>6, <1>7, ControlStep DEF CheckFlushComplete, ControlInv

LEMMA EndSetNoMorePagesStep ==
    ASSUME BufferInv, EndSetNoMorePages
    PROVE  BufferInv'
<1>1. finisher' \in FinisherType /\ finisher'.todo = finisher.todo /\ finisher'.pc = "done"
  BY DEF BufferInv, TypeInv, FinisherType, EndSetNoMorePages
<1>2. coordinator' \in CoordinatorType /\ consumer' \in [Consumer -> ConsumerType]
  BY DEF BufferInv, TypeInv, EndSetNoMorePages
<1> QED
  BY <1>1, <1>2, CheckFlushCompleteStep, Zenon DEF EndSetNoMorePages, NothingReceived

LEMMA EndSetOutputBuffersStep ==
    ASSUME BufferInv, EndSetOutputBuffers
    PROVE  BufferInv'
<1>1. coordinator' \in CoordinatorType /\ coordinator'.pc = "idle"
  BY DEF BufferInv, TypeInv, CoordinatorType, EndSetOutputBuffers
<1>2. finisher' \in FinisherType /\ consumer' \in [Consumer -> ConsumerType]
  BY DEF BufferInv, TypeInv, EndSetOutputBuffers
<1>3. PICK seen \in BOOLEAN : CheckFlushComplete(seen)
  BY Zenon DEF EndSetOutputBuffers
<1> QED
  BY <1>1, <1>2, <1>3, CheckFlushCompleteStep DEF EndSetOutputBuffers, NothingReceived

LEMMA EndAbortStep ==
    ASSUME BufferInv, NEW c \in Consumer, EndAbort(c)
    PROVE  BufferInv'
<1>1. consumer' \in [Consumer -> ConsumerType] /\ NothingReceived
  BY Zenon DEF BufferInv, TypeInv, ConsumerType, EndAbort, NothingReceived
<1>2. \A x \in Consumer : consumer'[x].pc = "reading" => consumer[x].pc = "reading"
  BY DEF BufferInv, TypeInv, ConsumerType, EndAbort
<1>3. finisher' \in FinisherType /\ coordinator' \in CoordinatorType
  BY DEF BufferInv, TypeInv, EndAbort
<1>4. PICK seen \in BOOLEAN : CheckFlushComplete(seen)
  BY Zenon DEF EndAbort
<1> QED
  BY <1>1, <1>2, <1>3, <1>4, CheckFlushCompleteStep DEF EndAbort

LEMMA AbortReadsStateStep ==
    ASSUME BufferInv, NEW c \in Consumer, AbortReadsState(c)
    PROVE  BufferInv'
<1>1. consumer' \in [Consumer -> ConsumerType] /\ NothingReceived
  BY Zenon DEF BufferInv, TypeInv, ConsumerType, AbortReadsState, NothingReceived
<1>2. \A x \in Consumer : consumer'[x].pc = "reading" => consumer[x].pc = "reading"
  BY DEF BufferInv, TypeInv, ConsumerType, AbortReadsState
<1>3. TypeInv'
  BY <1>1 DEF BufferInv, TypeInv, AbortReadsState, memory
<1>4. FlowInv' /\ CallsInv'
  BY DEF BufferInv, ControlInv, FlowInv, CallsInv, AbortReadsState, DriversDone
<1>5. EndInv'
  BY <1>2 DEF BufferInv, TypeInv, ControlInv, EndInv, Undisturbed, AbortReadsState, DriversDone
<1> QED
  BY <1>1, <1>3, <1>4, <1>5, ControlStep
     DEF AbortReadsState, ControlInv, Undisturbed, BufferInv, PagesInv, PlaceInv

LEMMA AcceptOutputBuffersStep ==
    ASSUME BufferInv, NEW v \in DOMAIN History, AcceptOutputBuffers(v)
    PROVE  BufferInv'
<1>1. v \in 0..Len(History)
  BY HistoryAssumption, LenProperties
<1>2. TypeInv'
  BY <1>1 DEF BufferInv, TypeInv, CoordinatorType, AcceptOutputBuffers, memory
<1>3. FlowInv'
  BY DEF BufferInv, TypeInv, BufferState, ControlInv, FlowInv, AcceptOutputBuffers, DriversDone,
         IsTerminal, CanAddPages
<1>4. EndInv'
  BY DEF BufferInv, ControlInv, EndInv, Undisturbed, AcceptOutputBuffers, DriversDone
<1>5. CallsInv'
  BY DEF BufferInv, ControlInv, CallsInv, AcceptOutputBuffers
<1> QED
  BY <1>2, <1>3, <1>4, <1>5, ControlStep
     DEF AcceptOutputBuffers, ControlInv, Undisturbed, NothingReceived, BufferInv, PagesInv, PlaceInv

\* getBuffer refuses a declared buffer only in a buffer that is flushing or over.
LEMMA SetOutputBuffersThrowsStep ==
    ASSUME BufferInv, NEW c \in Consumer, SetOutputBuffersThrows(c)
    PROVE  BufferInv'
<1>1. TypeInv'
  BY Zenon DEF BufferInv, TypeInv, CoordinatorType, BufferState, SetOutputBuffersThrows, memory
<1>2. FlowInv'
  BY Zenon DEF BufferInv, ControlInv, FlowInv, SetOutputBuffersThrows, DriversDone
<1>3. EndInv'
  BY Zenon DEF BufferInv, ControlInv, EndInv, Undisturbed, SetOutputBuffersThrows, DriversDone
<1>4. CallsInv'
  BY DEF BufferInv, ControlInv, CallsInv, SetOutputBuffersThrows, CanGetBuffer, CanAddBuffers
<1> QED
  BY <1>1, <1>2, <1>3, <1>4, ControlStep
     DEF SetOutputBuffersThrows, ControlInv, Undisturbed, NothingReceived, BufferInv, PagesInv,
         PlaceInv

LEMMA ToNoMoreBuffersStep ==
    ASSUME BufferInv, ToNoMoreBuffers
    PROVE  BufferInv'
<1> DEFINE final == IsNoMoreBufferIds(outputBuffers)
<1>0. /\ coordinator.pc = "create"
      /\ final => /\ coordinator' = [pc |-> "flushing", read |-> "OPEN"] /\ (lock' <=> lock)
                  /\ state' = IF state = "OPEN" THEN "NO_MORE_BUFFERS" ELSE state
      /\ ~final => /\ coordinator' = [pc |-> "noMoreBuffers", read |-> "OPEN"] /\ ~lock'
                   /\ state' = state
  BY DEF ToNoMoreBuffers, CompareAndSet
<1> HIDE DEF final
<1>1. TypeInv'
  <2>1. coordinator' \in CoordinatorType
    BY <1>0 DEF CoordinatorType, BufferState
  <2>2. lock' \in BOOLEAN
    BY Zenon DEF BufferInv, TypeInv, ToNoMoreBuffers
  <2>3. state' \in BufferState
    BY <1>0 DEF BufferInv, TypeInv, BufferState
  <2> QED
    BY <2>1, <2>2, <2>3 DEF BufferInv, TypeInv, ToNoMoreBuffers, memory
<1>2. IsNoMoreBufferIds(outputBuffers) => DOMAIN buffers = Consumer
  <2>1. DOMAIN buffers \subseteq Consumer /\ Declared(outputBuffers) \subseteq DOMAIN buffers
    BY DEF BufferInv, TypeInv, ToNoMoreBuffers
  <2>2. outputBuffers # 0 => outputBuffers \in DOMAIN History
    BY HistoryAssumption, LenProperties DEF BufferInv, TypeInv
  <2> QED
    BY <2>1, <2>2, HistoryAssumption, Zenon DEF IsNoMoreBufferIds, Declared
<1>3. FlowInv'
  <2>1. lock
    BY <1>0 DEF BufferInv, ControlInv, FlowInv
  <2>2. CASE final
    <3>1. DOMAIN buffers = Consumer
      BY <1>2, <2>2 DEF final
    <3> QED
      BY <1>0, <2>1, <2>2, <3>1 DEF BufferInv, ControlInv, FlowInv, ToNoMoreBuffers, DriversDone,
                                    IsTerminal
  <2>3. CASE ~final
    BY <1>0, <2>3 DEF BufferInv, ControlInv, FlowInv, ToNoMoreBuffers, DriversDone
  <2> QED
    BY <2>2, <2>3
<1>4. EndInv'
  BY <1>2 DEF BufferInv, ControlInv, EndInv, Undisturbed, ToNoMoreBuffers, CompareAndSet,
              DriversDone
<1>5. CallsInv'
  <2>1. finisher.pc \in {"flushing", "snapshot", "setNoMorePages", "done"} => state # "OPEN"
    BY DEF BufferInv, ControlInv, CallsInv
  <2>2. IsNoMoreBufferIds(outputBuffers)' <=> IsNoMoreBufferIds(outputBuffers)
    BY DEF ToNoMoreBuffers
  <2> QED
    BY <2>1, <2>2 DEF BufferInv, TypeInv, FinisherType, ControlInv, CallsInv, ToNoMoreBuffers,
                      CompareAndSet
<1> QED
  BY <1>1, <1>3, <1>4, <1>5, ControlStep
     DEF ToNoMoreBuffers, CompareAndSet, ControlInv, Undisturbed, NothingReceived, BufferInv,
         PagesInv, PlaceInv

LEMMA NoMorePagesToFlushingStep ==
    ASSUME BufferInv, NoMorePagesToFlushing
    PROVE  BufferInv'
<1>1. TypeInv'
  BY Zenon DEF BufferInv, TypeInv, CoordinatorType, BufferState, NoMorePagesToFlushing, CompareAndSet,
         memory
<1>2. FlowInv'
  BY DEF BufferInv, TypeInv, CoordinatorType, ControlInv, FlowInv, NoMorePagesToFlushing,
         CompareAndSet, DriversDone, IsTerminal
<1>3. EndInv'
  BY DEF BufferInv, ControlInv, FlowInv, EndInv, Undisturbed, NoMorePagesToFlushing, CompareAndSet,
         DriversDone
<1>4. CallsInv'
  BY DEF BufferInv, TypeInv, CoordinatorType, ControlInv, CallsInv, NoMorePagesToFlushing,
         CompareAndSet
<1> QED
  BY <1>1, <1>2, <1>3, <1>4, ControlStep
     DEF NoMorePagesToFlushing, CompareAndSet, ControlInv, Undisturbed, NothingReceived, BufferInv,
         PagesInv, PlaceInv

LEMMA SetOutputBuffersReadsStateStep ==
    ASSUME BufferInv, SetOutputBuffersReadsState
    PROVE  BufferInv'
<1>1. TypeInv'
  BY Zenon DEF BufferInv, TypeInv, CoordinatorType, SetOutputBuffersReadsState, memory
<1>2. FlowInv' /\ CallsInv'
  BY DEF BufferInv, TypeInv, CoordinatorType, ControlInv, FlowInv, CallsInv,
         SetOutputBuffersReadsState, DriversDone
<1>3. EndInv'
  BY DEF BufferInv, ControlInv, EndInv, Undisturbed, SetOutputBuffersReadsState, DriversDone
<1> QED
  BY <1>1, <1>2, <1>3, ControlStep
     DEF SetOutputBuffersReadsState, ControlInv, Undisturbed, NothingReceived, BufferInv, PagesInv,
         PlaceInv

LEMMA CancelStep ==
    ASSUME BufferInv, Cancel
    PROVE  BufferInv'
<1>1. /\ state' = "FINISHED"
      /\ destroyer' = [pc |-> "noMoreBuffers", todo |-> {}, cancelled |-> TRUE]
  BY DEF Cancel, TryDestroy
<1>2. destroyer' \in DestroyerType
  BY <1>1 DEF DestroyerType
<1>3. TypeInv'
  BY <1>1, <1>2 DEF BufferInv, TypeInv, BufferState, Cancel, memory
<1>4. ~Undisturbed'
  BY <1>1 DEF Undisturbed
<1>5. FlowInv'
  BY <1>1 DEF BufferInv, ControlInv, FlowInv, Cancel, IsTerminal, DriversDone
<1>6. EndInv' /\ CallsInv'
  BY <1>1, <1>4 DEF EndInv, CallsInv
<1> QED
  BY <1>1, <1>3, <1>4, <1>5, <1>6, ControlStep
     DEF Cancel, ControlInv, NothingReceived, BufferInv, PagesInv, PlaceInv

LEMMA FailStep ==
    ASSUME BufferInv, Fail
    PROVE  BufferInv'
<1>1. destroyer' \in DestroyerType /\ destroyer'.pc = "fail" /\ destroyer'.todo = destroyer.todo
  BY Zenon DEF BufferInv, TypeInv, DestroyerType, Fail
<1>2. TypeInv'
  BY <1>1 DEF BufferInv, TypeInv, BufferState, Fail, memory
<1>3. ~Undisturbed'
  BY DEF Undisturbed, Fail
<1>4. ~destroyer.cancelled /\ (destroyer'.cancelled <=> destroyer.cancelled)
  BY DEF BufferInv, TypeInv, DestroyerType, ControlInv, FlowInv, IsTerminal, Fail
<1>5. FlowInv'
  BY <1>1, <1>4 DEF BufferInv, ControlInv, FlowInv, Fail, IsTerminal, DriversDone
<1>6. EndInv' /\ CallsInv'
  BY <1>3 DEF EndInv, CallsInv, Fail
<1> QED
  BY <1>1, <1>2, <1>3, <1>5, <1>6, ControlStep
     DEF Fail, ControlInv, NothingReceived, BufferInv, PagesInv, PlaceInv

LEMMA SnapshotForDestroyStep ==
    ASSUME BufferInv, SnapshotForDestroy
    PROVE  BufferInv'
<1>1. /\ destroyer' \in DestroyerType
      /\ destroyer'.pc = "destroy" /\ destroyer'.todo = DOMAIN buffers
      /\ destroyer'.cancelled <=> destroyer.cancelled
  BY Zenon DEF BufferInv, TypeInv, DestroyerType, SnapshotForDestroy
<1>2. TypeInv'
  BY <1>1 DEF BufferInv, TypeInv, SnapshotForDestroy, memory
<1>3. Undisturbed' <=> Undisturbed
  BY <1>1 DEF Undisturbed, SnapshotForDestroy
<1>4. FlowInv' /\ CallsInv'
  BY <1>1 DEF BufferInv, ControlInv, FlowInv, CallsInv, SnapshotForDestroy, DriversDone
<1>5. EndInv'
  BY <1>3 DEF BufferInv, ControlInv, EndInv, SnapshotForDestroy, DriversDone
<1> QED
  BY <1>1, <1>2, <1>3, <1>4, <1>5, ControlStep
     DEF SnapshotForDestroy, ControlInv, NothingReceived, BufferInv, PagesInv, PlaceInv

-----------------------------------------------------------------------------
(* Reference counts and memory. *)

LEMMA HoldersAreFinite ==
    ASSUME TypeInv, NEW p \in Page
    PROVE  IsFiniteSet(Holders(p))
<1>1. IsFiniteSet((Driver \cup Consumer) \cup {"initialPages"})
  BY HoldersAssumption, FS_Union, FS_Singleton, Zenon
<1>2. Holders(p) \subseteq (Driver \cup Consumer) \cup {"initialPages"}
  BY DEF Holders, TypeInv
<1> QED
  BY <1>1, <1>2, FS_Subset

\* A page that somebody holds is referenced, and so not dereferenced for good.
LEMMA HeldPage ==
    ASSUME TypeInv, ReferencesAreExact, NEW p \in Page
    PROVE  referenceCount[p] \in Nat /\ (referenceCount[p] = 0 <=> Holders(p) = {})
<1>1. referenceCount[p] = Cardinality(Holders(p))
  BY DEF ReferencesAreExact
<1> QED
  BY <1>1, HoldersAreFinite, FS_CardinalityType, FS_EmptySet

\* Reference counts stay exact when a page's count goes up with one more holder
\* and down with one less.
LEMMA HoldersChange ==
    ASSUME TypeInv, ReferencesAreExact,
           \A p \in Page :
             \/ Holders(p)' = Holders(p) /\ referenceCount'[p] = referenceCount[p]
             \/ \E x : /\ x \notin Holders(p) /\ Holders(p)' = Holders(p) \cup {x}
                       /\ referenceCount'[p] = referenceCount[p] + 1
             \/ \E x : /\ x \in Holders(p) /\ Holders(p)' = Holders(p) \ {x}
                       /\ referenceCount'[p] = referenceCount[p] - 1
    PROVE  ReferencesAreExact'
<1>1. SUFFICES ASSUME NEW p \in Page
               PROVE  referenceCount'[p] = Cardinality(Holders(p)')
  BY DEF ReferencesAreExact
<1>2. IsFiniteSet(Holders(p)) /\ referenceCount[p] = Cardinality(Holders(p))
  BY HoldersAreFinite DEF ReferencesAreExact
<1>3. CASE Holders(p)' = Holders(p) /\ referenceCount'[p] = referenceCount[p]
  BY <1>2, <1>3, Zenon
<1>4. CASE \E x : /\ x \notin Holders(p) /\ Holders(p)' = Holders(p) \cup {x}
                  /\ referenceCount'[p] = referenceCount[p] + 1
  <2>1. PICK x : /\ x \notin Holders(p) /\ Holders(p)' = Holders(p) \cup {x}
                 /\ referenceCount'[p] = referenceCount[p] + 1
    BY <1>4
  <2>2. Cardinality(Holders(p) \cup {x}) = Cardinality(Holders(p)) + 1
    BY <1>2, <2>1, FS_AddElement, Zenon
  <2> QED
    BY <1>2, <2>1, <2>2, Zenon
<1>5. CASE \E x : /\ x \in Holders(p) /\ Holders(p)' = Holders(p) \ {x}
                  /\ referenceCount'[p] = referenceCount[p] - 1
  <2>1. PICK x : /\ x \in Holders(p) /\ Holders(p)' = Holders(p) \ {x}
                 /\ referenceCount'[p] = referenceCount[p] - 1
    BY <1>5
  <2>2. Cardinality(Holders(p) \ {x}) = Cardinality(Holders(p)) - 1
    BY <1>2, <2>1, FS_RemoveElement, Zenon
  <2> QED
    BY <1>2, <2>1, <2>2, Zenon
<1> QED
  BY <1>3, <1>4, <1>5, Zenon

\* addReference of pages that are referenced already needs no memory.
LEMMA AddReferenceMemory ==
    ASSUME TypeInv, MemoryIsAccounted, NEW pages \in SUBSET Page,
           \A p \in Page : referenceCount[p] \in Nat,
           \A p \in pages : referenceCount[p] # 0,
           referenceCount' = AddReference(pages),
           UNCHANGED <<bufferedBytes, memoryClosed>>
    PROVE  MemoryIsAccounted' /\ referenceCount' \in [Page -> Int]
<1>1. referenceCount' \in [Page -> Int]
  BY DEF TypeInv, AddReference
<1>2. {p \in Page : referenceCount'[p] > 0} = {p \in Page : referenceCount[p] > 0}
  BY DEF TypeInv, AddReference
<1> QED
  BY <1>1, <1>2 DEF MemoryIsAccounted

\* dereferencePage frees the pages it takes the last reference of.
LEMMA DereferenceMemory ==
    ASSUME TypeInv, MemoryIsAccounted, NEW pages \in SUBSET Page,
           \A p \in Page : referenceCount[p] \in Nat,
           \A p \in pages : referenceCount[p] # 0,
           DereferencePage(pages),
           UNCHANGED memoryClosed
    PROVE  /\ MemoryIsAccounted'
           /\ referenceCount' \in [Page -> Int] /\ bufferedBytes' \in Int
<1> DEFINE held == {p \in Page : referenceCount[p] > 0}
           last == {p \in pages : referenceCount[p] = 1}
<1>1. referenceCount' \in [Page -> Int]
  BY DEF TypeInv, DereferencePage
<1>2. {p \in Page : referenceCount'[p] > 0} = held \ last
  BY DEF TypeInv, DereferencePage
<1>3. held \in SUBSET Page /\ last \in SUBSET held
  OBVIOUS
<1>4. bufferedBytes' = IF memoryClosed THEN bufferedBytes ELSE bufferedBytes - SizeOf(last)
  BY DEF DereferencePage
<1>5. bufferedBytes = IF memoryClosed THEN 0 ELSE SizeOf(held)
  BY DEF MemoryIsAccounted
<1> HIDE DEF held, last
<1>6. SizeOf(held \ last) = SizeOf(held) - SizeOf(last)
  BY <1>3, FinitePages, SizeIsSum, SumRemove
<1>7. SizeOf(held) \in Int /\ SizeOf(last) \in Int
  BY <1>3, FinitePages, SizeIsSum, SumType
<1>8. MemoryIsAccounted'
  BY <1>2, <1>4, <1>5, <1>6, <1>7, Zenon DEF MemoryIsAccounted
<1> QED
  BY <1>1, <1>4, <1>5, <1>7, <1>8

-----------------------------------------------------------------------------
(* The drivers. *)

\* A step of another thread than those of the state, which adds or keeps buffers.
LEMMA FlowFrame ==
    ASSUME BufferInv,
           UNCHANGED <<state, outputBuffers, lock, finisher, coordinator>>,
           destroyer'.pc = "idle" <=> destroyer.pc = "idle",
           destroyer'.cancelled <=> destroyer.cancelled,
           DOMAIN buffers \subseteq DOMAIN buffers', DOMAIN buffers' \subseteq Consumer,
           DriversDone => DriversDone'
    PROVE  FlowInv' /\ CallsInv'
<1>1. FlowInv'
  BY DEF BufferInv, ControlInv, FlowInv
<1>2. CallsInv'
  BY DEF BufferInv, ControlInv, CallsInv
<1> QED
  BY <1>1, <1>2

LEMMA DriverFrame ==
    ASSUME BufferInv,
           UNCHANGED <<state, outputBuffers, lock, buffers, finisher, coordinator, destroyer,
                       consumer>>,
           DriversDone => DriversDone'
    PROVE  ControlInv'
<1>1. FlowInv' /\ CallsInv'
  BY FlowFrame DEF BufferInv, TypeInv
<1>2. EndInv'
  BY DEF BufferInv, ControlInv, EndInv, Undisturbed
<1> QED
  BY <1>1, <1>2 DEF ControlInv

LEMMA DriverDoneStep ==
    ASSUME BufferInv, NEW d \in Driver, DriverDone(d)
    PROVE  BufferInv'
<1>1. /\ driver' \in [Driver -> DriverType]
      /\ DriversKeepPages
      /\ \A e \in Driver : driver'[e].pc = "snapshot" <=> driver[e].pc = "snapshot"
  BY Zenon DEF BufferInv, TypeInv, DriverType, DriverDone, DriversKeepPages, Unshared
<1>2. TypeInv'
  BY <1>1 DEF BufferInv, TypeInv, DriverDone, memory
<1>3. ControlInv'
  BY <1>1, DriverFrame DEF DriverDone, DriversDone, DriversKeepPages
<1>4. PagesInv'
  BY <1>1, PagesFrame
     DEF DriverDone, NothingReceived, Undisturbed, BufferInv, PagesInv, PlaceInv
<1>5. ReferencesAreExact'
  <2>1. \A p \in Page : Holders(p)' = Holders(p)
    BY <1>1 DEF Holders, DriversKeepPages, DriverDone
  <2> QED
    BY <2>1 DEF BufferInv, ReferencesAreExact, DriverDone, memory
<1>6. MemoryIsAccounted'
  BY MemoryFrame DEF BufferInv, DriverDone, memory
<1> QED
  BY <1>2, <1>3, <1>4, <1>5, <1>6 DEF BufferInv

\* A page that is ignored is one nobody waits for.
LEMMA StartEnqueueStep ==
    ASSUME BufferInv, NEW d \in Driver, StartEnqueue(d)
    PROVE  BufferInv'
<1> DEFINE p == produced + 1
<1>1. p \in Page /\ produced' = p /\ 1..produced' = 1..produced \cup {p} /\ p \notin 1..produced
  BY NumberedPages DEF StartEnqueue, BufferInv, TypeInv
<1>2. p \in 0..MaxPages /\ p \in 1..produced' /\ 1..produced \subseteq 1..produced'
  BY <1>1, NumberedPages
<1>3. /\ \A e \in Driver \ {d} : driver'[e] = driver[e]
      /\ driver'[d].todo = driver[d].todo /\ driver[d].pc = "idle"
      /\ CanAddPages(state) => driver'[d].pc = "reserve" /\ driver'[d].page = p
      /\ ~CanAddPages(state) => driver' = driver
      /\ driver' \in [Driver -> DriverType]
  BY <1>2, Zenon DEF BufferInv, TypeInv, DriverType, StartEnqueue
<1>4. ~DriversDone
  BY <1>3 DEF DriversDone
<1>5. UNCHANGED <<state, outputBuffers, lock, buffers, initialPagesForNewBuffers, referenceCount,
                  bufferedBytes, memoryClosed, finisher, coordinator, destroyer, consumer>>
  BY DEF StartEnqueue, memory
<1> HIDE DEF p
<1>6. TypeInv'
  BY <1>1, <1>2, <1>3, <1>5 DEF BufferInv, TypeInv
<1>7. ControlInv'
  BY <1>4, <1>5, DriverFrame
<1>8. \A e \in Driver :
        /\ Enqueueing(e)' => (Enqueueing(e) /\ driver'[e].page = driver[e].page)
                               \/ (e = d /\ driver'[e].page = p)
        /\ \A c : Pending(e, c)' => (Pending(e, c) /\ driver'[e].page = driver[e].page)
                                      \/ (e = d /\ driver'[e].page = p)
        /\ Unshared(e)' => (Unshared(e) /\ driver'[e].page = driver[e].page)
                             \/ (e = d /\ driver'[e].page = p)
        /\ Unshared(e) => Unshared(e)' /\ driver'[e].page = driver[e].page
        /\ \A c : Pending(e, c) => Pending(e, c)' /\ driver'[e].page = driver[e].page
  <2>1. ASSUME NEW e \in Driver \ {d}
        PROVE  /\ driver'[e].page = driver[e].page
               /\ Enqueueing(e)' <=> Enqueueing(e)
               /\ Unshared(e)' <=> Unshared(e)
               /\ \A c : Pending(e, c)' <=> Pending(e, c)
    BY <1>3 DEF Enqueueing, Pending, Unshared
  <2>2. ~Enqueueing(d) /\ ~Unshared(d) /\ \A c : ~Pending(d, c)
    BY <1>3 DEF Enqueueing, Pending, Unshared
  <2>3. driver'[d].page = p \/ (~Enqueueing(d)' /\ ~Unshared(d)' /\ \A c : ~Pending(d, c)')
    BY <1>3 DEF Enqueueing, Pending, Unshared
  <2> QED
    BY <2>1, <2>2, <2>3, Zenon
<1>9. PagesInv'
  <2>1. DriverInv'
    <3>1. DriverInv
      BY Zenon DEF BufferInv, PagesInv
    <3>2. \A e \in Driver : driver'[e].todo = driver[e].todo
      BY <1>3, Zenon
    <3>3. \A e \in Driver : Enqueueing(e)' => driver'[e].page \in 1..produced'
      BY <1>2, <1>8, <3>1, Zenon DEF DriverInv
    <3>4. ASSUME NEW e \in Driver, NEW f \in Driver, e # f, Enqueueing(e)', Enqueueing(f)'
          PROVE  driver'[e].page # driver'[f].page
      <4>1. ASSUME NEW g \in Driver, Enqueueing(g)'
            PROVE  \/ Enqueueing(g) /\ driver'[g].page = driver[g].page
                   \/ g = d /\ driver'[g].page = p
        BY <1>8, <4>1, Zenon
      <4>2. \A g \in Driver : Enqueueing(g) => driver[g].page # p
        BY <1>1, <3>1, Zenon DEF DriverInv
      <4>3. Enqueueing(e) /\ Enqueueing(f) => driver[e].page # driver[f].page
        BY <3>1, <3>4, Zenon DEF DriverInv
      <4> QED
        BY <3>4, <4>1, <4>2, <4>3, Zenon
    <3> QED
      BY <1>5, <3>1, <3>2, <3>3, <3>4, Zenon DEF DriverInv
  <2>2. PlaceInv'
    BY <1>1, <1>5, <1>8, Zenon DEF BufferInv, PagesInv, PlaceInv, PlacedOnce
  <2>3. WindowInv'
    <3>1. WindowInv
      BY Zenon DEF BufferInv, PagesInv
    <3>2. \A c : InWindow(c)' <=> InWindow(c)
      BY <1>5, Zenon DEF InWindow, Acknowledged
    <3>3. ASSUME NEW c \in Consumer PROVE ReceivedOnce(c)'
      <4>1. ReceivedOnce(c) /\ consumer'[c] = consumer[c]
        BY <1>5, <3>1, Zenon DEF WindowInv
      <4>2. Range(consumer[c].received) \subseteq 1..produced'
        BY <1>2, <4>1, Zenon DEF ReceivedOnce
      <4>3. p \notin Range(consumer[c].received)
        BY <1>1, <4>1, Zenon DEF ReceivedOnce
      <4>4. ASSUME NEW e \in Driver, Pending(e, c)'
            PROVE  driver'[e].page \notin Range(consumer[c].received)
        BY <1>8, <4>1, <4>3, <4>4, Zenon DEF ReceivedOnce
      <4> QED
        BY <4>1, <4>2, <4>4, Zenon DEF ReceivedOnce
    <3> QED
      BY <1>5, <3>1, <3>2, <3>3, Zenon DEF WindowInv
  <2>4. CoverInv'
    <3>1. Undisturbed' => Undisturbed
      BY <1>5 DEF Undisturbed
    <3>2. \A c \in Consumer : Undisturbed => ~consumer[c].complete
      BY <1>4 DEF BufferInv, PagesInv, CoverInv, KeptForLater, Covered
    <3>3. CASE CanAddPages(state)
      <4>1. Unshared(d)' /\ driver'[d].page = p /\ \A c : Pending(d, c)'
        BY <1>3, <3>3 DEF Unshared, Pending
      <4>2. KeptForLater => KeptForLater'
        BY <1>1, <1>5, <1>8, <4>1, Zenon DEF KeptForLater
      <4>3. ASSUME NEW c, Covered(c) PROVE Covered(c)'
        <5>1. Acknowledged(c)' = Acknowledged(c) /\ buffers' = buffers
          BY <1>5 DEF Acknowledged
        <5> QED
          BY <1>1, <1>8, <4>1, <4>3, <5>1, Zenon DEF Covered
      <4> QED
        BY <1>5, <3>1, <3>2, <4>2, <4>3, Zenon DEF BufferInv, PagesInv, CoverInv
    <3>4. CASE ~CanAddPages(state)
      <4>1. state = "FINISHED" \/ state = "FAILED"
        BY <1>4, <3>4 DEF BufferInv, TypeInv, BufferState, ControlInv, FlowInv, CanAddPages
      <4>2. Undisturbed => /\ DOMAIN buffers = Consumer
                           /\ \A c \in DOMAIN buffers : buffers[c].destroyed
        BY <4>1 DEF BufferInv, ControlInv, EndInv, Undisturbed
      <4> QED
        BY <1>5, <3>1, <3>2, <4>2 DEF CoverInv, KeptForLater, Covered
    <3> QED
      BY <3>3, <3>4
  <2> QED
    BY <2>1, <2>2, <2>3, <2>4 DEF PagesInv
<1>10. ReferencesAreExact'
  <2>1. \A q \in Page : Holders(q)' = Holders(q)
    BY <1>3, <1>5 DEF Holders
  <2> QED
    BY <1>5, <2>1 DEF BufferInv, ReferencesAreExact
<1>11. MemoryIsAccounted'
  BY <1>5, MemoryFrame DEF BufferInv
<1> QED
  BY <1>6, <1>7, <1>9, <1>10, <1>11 DEF BufferInv

LEMMA ReserveMemoryStep ==
    ASSUME BufferInv, NEW d \in Driver, ReserveMemory(d)
    PROVE  BufferInv'
<1> DEFINE p == driver[d].page
<1>1. /\ driver' \in [Driver -> DriverType]
      /\ DriversKeepPages
      /\ \A e \in Driver \ {d} : driver'[e] = driver[e]
      /\ driver[d].pc = "reserve" /\ driver'[d].pc = "snapshot"
  BY Zenon DEF BufferInv, TypeInv, DriverType, ReserveMemory, DriversKeepPages, Unshared
<1>2. p \in Page /\ \A e \in Driver : Enqueueing(e) /\ driver[e].page = p => e = d
  BY <1>1, NumberedPages DEF BufferInv, TypeInv, PagesInv, DriverInv, Enqueueing
<1>3. Holders(p) = {}
  <2>1. Unshared(d) /\ \A c : Pending(d, c)
    BY <1>1 DEF Unshared, Pending
  <2>2. \A e \in Driver : ~(driver[e].pc \in {"snapshot", "enqueue"} /\ driver[e].page = p)
    BY <1>1, <1>2 DEF Enqueueing
  <2> QED
    BY <2>1, <2>2 DEF BufferInv, PagesInv, PlaceInv, Holders, PlacedOnce
<1>4. referenceCount[p] = 0
  BY <1>2, <1>3, HeldPage DEF BufferInv
<1>5. /\ referenceCount' = [referenceCount EXCEPT ![p] = 1]
      /\ bufferedBytes' = IF memoryClosed THEN bufferedBytes ELSE bufferedBytes + PageSize[p]
      /\ UNCHANGED <<state, outputBuffers, lock, buffers, initialPagesForNewBuffers, memoryClosed,
                     produced, finisher, coordinator, destroyer, consumer>>
  BY DEF ReserveMemory
<1>6. PagesInv'
  BY <1>1, <1>5, PagesFrame, Zenon DEF NothingReceived, Undisturbed, BufferInv, PagesInv, PlaceInv
<1>7. ControlInv'
  BY <1>1, <1>5, DriverFrame, Zenon DEF DriversDone, DriversKeepPages
<1>8. ReferencesAreExact'
  <2>1. \A q \in Page : Holders(q)' = IF q = p THEN Holders(q) \cup {d} ELSE Holders(q)
    <3>1. ASSUME NEW q \in Page, NEW e \in Driver \ {d} PROVE e \in Holders(q)' <=> e \in Holders(q)
      BY <1>1, <1>5, Zenon DEF Holders
    <3>2. ASSUME NEW q \in Page PROVE d \in Holders(q)' <=> d \in Holders(q) \/ q = p
      BY <1>1, <1>5 DEF Holders, DriversKeepPages
    <3>3. ASSUME NEW q \in Page, NEW x, x \notin Driver PROVE x \in Holders(q)' <=> x \in Holders(q)
      BY <1>5, <3>3, Zenon DEF Holders
    <3> HIDE DEF p
    <3>4. ASSUME NEW q \in Page, q = p PROVE Holders(q)' = Holders(q) \cup {d}
      BY <3>1, <3>2, <3>3, <3>4, Zenon
    <3>5. ASSUME NEW q \in Page, q # p PROVE Holders(q)' = Holders(q)
      <4>1. ASSUME NEW x PROVE x \in Holders(q)' <=> x \in Holders(q)
        BY <3>1, <3>2, <3>3, <3>5, Zenon
      <4> QED
        BY <4>1
    <3> QED
      BY <3>4, <3>5, Zenon
  <2>2. \A q \in Page :
          referenceCount'[q] = IF q = p THEN referenceCount[q] + 1 ELSE referenceCount[q]
    BY <1>2, <1>4, <1>5 DEF BufferInv, TypeInv
  <2> HIDE DEF p
  <2>3. d \notin Holders(p)
    BY <1>3
  <2> QED
    BY <2>1, <2>2, <2>3, HoldersChange, Zenon DEF BufferInv
<1>9. referenceCount' \in [Page -> Int]
  <2>1. referenceCount \in [Page -> Int]
    BY DEF BufferInv, TypeInv
  <2>2. referenceCount' = [q \in Page |-> IF q = p THEN 1 ELSE referenceCount[q]]
    BY <1>5, <2>1, Zenon
  <2>3. \A q \in Page : (IF q = p THEN 1 ELSE referenceCount[q]) \in Int
    BY <2>1
  <2> QED
    BY <2>2, <2>3, Zenon
<1>10. MemoryIsAccounted' /\ bufferedBytes' \in Int
  <2> DEFINE held == {q \in Page : referenceCount[q] > 0}
  <2>1. {q \in Page : referenceCount'[q] > 0} = held \cup {p} /\ p \in Page \ held
    BY <1>2, <1>4, <1>5 DEF BufferInv, TypeInv
  <2>2. held \in SUBSET Page
    OBVIOUS
  <2>3. bufferedBytes = IF memoryClosed THEN 0 ELSE SizeOf(held)
    BY DEF BufferInv, MemoryIsAccounted
  <2> HIDE DEF held, p
  <2>4. SizeOf(held \cup {p}) = SizeOf(held) + PageSize[p]
    BY <2>1, <2>2, FinitePages, SizeIsSum, SumAdd
  <2>5. SizeOf(held) \in Int /\ PageSize[p] \in Int
    BY <1>2, <2>2, FinitePages, SizeIsSum, SumType
  <2>6. CASE memoryClosed
    BY <1>5, <2>3, <2>6 DEF MemoryIsAccounted
  <2>7. CASE ~memoryClosed
    <3>1. bufferedBytes' = SizeOf(held) + PageSize[p] /\ ~memoryClosed'
      BY <1>5, <2>3, <2>7
    <3>2. SizeOf({q \in Page : referenceCount'[q] > 0}) = SizeOf(held) + PageSize[p]
      BY <2>1, <2>4, Zenon
    <3> QED
      BY <2>5, <3>1, <3>2 DEF MemoryIsAccounted
  <2> QED
    BY <2>6, <2>7
<1>11. TypeInv'
  BY <1>1, <1>5, <1>9, <1>10 DEF BufferInv, TypeInv
<1> QED
  BY <1>6, <1>7, <1>8, <1>10, <1>11 DEF BufferInv

LEMMA EndEnqueueStep ==
    ASSUME BufferInv, NEW d \in Driver, EndEnqueue(d)
    PROVE  BufferInv'
<1> DEFINE p == driver[d].page
<1>1. /\ driver' \in [Driver -> DriverType]
      /\ \A e \in Driver \ {d} : driver'[e] = driver[e]
      /\ driver[d].pc = "enqueue" /\ driver[d].todo = {}
      /\ driver'[d].pc = "idle" /\ driver'[d].todo = {}
  BY NumberedPages DEF BufferInv, TypeInv, DriverType, EndEnqueue
<1>2. p \in Page /\ \A e \in Driver : Enqueueing(e) /\ driver[e].page = p => e = d
  BY <1>1, NumberedPages DEF BufferInv, TypeInv, PagesInv, DriverInv, Enqueueing
<1>3. /\ DereferencePage({p})
      /\ UNCHANGED <<state, outputBuffers, lock, buffers, initialPagesForNewBuffers, memoryClosed,
                     produced, finisher, coordinator, destroyer, consumer>>
  BY DEF EndEnqueue
<1>4. \A q \in Page :
        referenceCount'[q] = IF q = p THEN referenceCount[q] - 1 ELSE referenceCount[q]
  BY <1>3, Zenon DEF DereferencePage
<1>5. d \in Holders(p)
  BY <1>1 DEF Holders
<1>6. \A q \in Page : Holders(q)' = IF q = p THEN Holders(q) \ {d} ELSE Holders(q)
  <2>1. d \notin DOMAIN buffers /\ d # "initialPages"
    BY HoldersAssumption DEF BufferInv, TypeInv
  <2>2. ASSUME NEW q \in Page, NEW e \in Driver \ {d} PROVE e \in Holders(q)' <=> e \in Holders(q)
    BY <1>1, <1>3 DEF Holders
  <2>3. ASSUME NEW q \in Page PROVE d \notin Holders(q)' /\ (d \in Holders(q) => q = p)
    BY <1>1, <1>3, <2>1 DEF Holders
  <2>4. ASSUME NEW q \in Page, NEW x, x \notin Driver PROVE x \in Holders(q)' <=> x \in Holders(q)
    BY <1>3, <2>4 DEF Holders
  <2>5. ASSUME NEW q \in Page PROVE Holders(q)' = Holders(q) \ {d}
    BY <2>2, <2>3, <2>4
  <2> QED
    BY <2>3, <2>5, Zenon
<1> HIDE DEF p
<1>7. ReferencesAreExact'
  BY <1>4, <1>5, <1>6, HoldersChange, Zenon DEF BufferInv
<1>8. MemoryIsAccounted' /\ referenceCount' \in [Page -> Int] /\ bufferedBytes' \in Int
  <2>1. \A q \in Page : referenceCount[q] \in Nat
    BY HeldPage DEF BufferInv
  <2>2. referenceCount[p] # 0
    BY <1>2, <1>5, HeldPage DEF BufferInv
  <2> QED
    BY <1>2, <1>3, <2>1, <2>2, DereferenceMemory DEF BufferInv
<1>9. TypeInv'
  BY <1>1, <1>3, <1>8 DEF BufferInv, TypeInv
<1>10. ControlInv'
  BY <1>1, <1>3, DriverFrame, Zenon DEF DriversDone
<1>11. \A e \in Driver :
         /\ Enqueueing(e)' => Enqueueing(e) /\ driver'[e] = driver[e]
         /\ Unshared(e) \/ Unshared(e)' => Unshared(e) /\ Unshared(e)' /\ driver'[e] = driver[e]
         /\ \A c : Pending(e, c) \/ Pending(e, c)'
                     => Pending(e, c) /\ Pending(e, c)' /\ driver'[e] = driver[e]
  BY <1>1 DEF Enqueueing, Unshared, Pending
<1>12. PagesInv'
  <2>1. DriverInv'
    BY <1>1, <1>3, <1>11, Zenon DEF BufferInv, PagesInv, DriverInv
  <2>2. PlaceInv'
    BY <1>3, <1>11, Zenon DEF BufferInv, PagesInv, PlaceInv, PlacedOnce
  <2>3. WindowInv'
    <3>1. \A c : InWindow(c)' <=> InWindow(c)
      BY <1>3 DEF InWindow, Acknowledged
    <3> QED
      BY <1>3, <1>11, <3>1, Zenon DEF BufferInv, PagesInv, WindowInv, ReceivedOnce
  <2>4. CoverInv'
    <3>1. Undisturbed' <=> Undisturbed
      BY <1>3, Zenon DEF Undisturbed
    <3>2. KeptForLater => KeptForLater'
      BY <1>3, <1>11, Zenon DEF KeptForLater
    <3>3. ASSUME NEW c, Covered(c) PROVE Covered(c)'
      <4>1. Acknowledged(c)' = Acknowledged(c)
        BY <1>3, Zenon DEF Acknowledged
      <4> QED
        BY <1>3, <1>11, <3>3, <4>1, Zenon DEF Covered
    <3>4. ~DriversDone
      BY <1>1 DEF DriversDone
    <3> QED
      BY <1>3, <3>1, <3>2, <3>3, <3>4, Zenon DEF BufferInv, PagesInv, CoverInv
  <2> QED
    BY <2>1, <2>2, <2>3, <2>4 DEF PagesInv
<1> QED
  BY <1>7, <1>8, <1>9, <1>10, <1>12 DEF BufferInv

LEMMA ConcatPages ==
    ASSUME NEW S, NEW s \in Seq(S), NEW t \in Seq(S)
    PROVE  /\ s \o t \in Seq(S)
           /\ Range(s \o t) = Range(s) \cup Range(t)
           /\ IsInjective(s) /\ IsInjective(t) /\ Range(s) \cap Range(t) = {} => IsInjective(s \o t)
<1> DEFINE r == s \o t
<1>1. /\ r \in Seq(S) /\ Len(r) = Len(s) + Len(t)
      /\ \A i \in 1..Len(r) : r[i] = IF i <= Len(s) THEN s[i] ELSE t[i - Len(s)]
  BY ConcatProperties, Zenon
<1>2. /\ DOMAIN r = 1..Len(r) /\ DOMAIN s = 1..Len(s) /\ DOMAIN t = 1..Len(t)
      /\ Len(s) \in Nat /\ Len(t) \in Nat
  BY <1>1, LenProperties, Zenon
<1> HIDE DEF r
<1>3. ASSUME NEW i \in DOMAIN r
      PROVE  \/ i \in DOMAIN s /\ r[i] = s[i]
             \/ i - Len(s) \in DOMAIN t /\ i > Len(s) /\ r[i] = t[i - Len(s)]
  BY <1>1, <1>2, SMTT(30)
<1>4. Range(r) = Range(s) \cup Range(t)
  <2>1. Range(r) \subseteq Range(s) \cup Range(t)
    BY <1>3 DEF Range
  <2>2. ASSUME NEW y \in Range(s) PROVE y \in Range(r)
    <3>1. PICK i \in DOMAIN s : y = s[i]
      BY DEF Range
    <3>2. i \in DOMAIN r /\ r[i] = y
      BY <1>1, <1>2, <3>1
    <3> QED
      BY <3>2 DEF Range
  <2>3. ASSUME NEW y \in Range(t) PROVE y \in Range(r)
    <3>1. PICK i \in DOMAIN t : y = t[i]
      BY DEF Range
    <3>2. i + Len(s) \in DOMAIN r /\ r[i + Len(s)] = y
      BY <1>1, <1>2, <3>1
    <3> QED
      BY <3>2 DEF Range
  <2> QED
    BY <2>1, <2>2, <2>3
<1>5. ASSUME IsInjective(s), IsInjective(t), Range(s) \cap Range(t) = {}
      PROVE  IsInjective(r)
  <2>1. SUFFICES ASSUME NEW i \in DOMAIN r, NEW j \in DOMAIN r, r[i] = r[j] PROVE i = j
    BY DEF IsInjective
  <2>2. i \in Int /\ j \in Int
    BY <1>2
  <2>3. CASE i \in DOMAIN s /\ r[i] = s[i] /\ j \in DOMAIN s /\ r[j] = s[j]
    BY <1>5, <2>1, <2>3, Zenon DEF IsInjective
  <2>4. CASE /\ i - Len(s) \in DOMAIN t /\ r[i] = t[i - Len(s)]
             /\ j - Len(s) \in DOMAIN t /\ r[j] = t[j - Len(s)]
    <3>1. i - Len(s) = j - Len(s)
      BY <1>5, <2>1, <2>4, Zenon DEF IsInjective
    <3> QED
      BY <1>2, <2>2, <3>1
  <2>5. ASSUME NEW k \in DOMAIN s, NEW l \in DOMAIN t PROVE s[k] # t[l]
    BY <1>5, Zenon DEF Range
  <2> QED
    BY <1>3, <2>1, <2>3, <2>4, <2>5
<1> QED
  BY <1>1, <1>4, <1>5, Zenon DEF r

LEMMA AppendPage ==
    ASSUME NEW S, NEW s \in Seq(S), NEW x \in S
    PROVE  /\ Append(s, x) \in Seq(S)
           /\ Range(Append(s, x)) = Range(s) \cup {x}
           /\ IsInjective(s) /\ x \notin Range(s) => IsInjective(Append(s, x))
<1>1. PICK one \in Seq(S) : one = <<x>>
  <2>1. <<x>> \in Seq(S)
    OBVIOUS
  <2> QED
    BY <2>1, Zenon
<1>2. Range(one) = {x} /\ IsInjective(one)
  BY <1>1 DEF Range, IsInjective
<1>3. Append(s, x) = s \o one
  BY <1>1, AppendIsConcat
<1>4. /\ s \o one \in Seq(S) /\ Range(s \o one) = Range(s) \cup Range(one)
      /\ IsInjective(s) /\ IsInjective(one) /\ Range(s) \cap Range(one) = {}
           => IsInjective(s \o one)
  BY ConcatPages, ZenonT(30)
<1> QED
  BY <1>2, <1>3, <1>4

\* A driver's page goes to the buffers there are now, and to the later ones as
\* long as there may be any.
LEMMA SnapshotForEnqueueStep ==
    ASSUME BufferInv, NEW d \in Driver, SnapshotForEnqueue(d)
    PROVE  BufferInv'
<1> DEFINE p == driver[d].page
           initial == initialPagesForNewBuffers
<1>1. /\ driver' \in [Driver -> DriverType]
      /\ \A e \in Driver \ {d} : driver'[e] = driver[e]
      /\ driver'[d].page = p /\ driver'[d].todo = DOMAIN buffers
      /\ driver[d].pc = "snapshot" /\ driver'[d].pc = "enqueue"
  <2>1. DEFINE f == [driver EXCEPT ![d].pc = "enqueue"]
  <2>2. driver' = [f EXCEPT ![d].todo = DOMAIN buffers] /\ driver[d].pc = "snapshot"
    BY DEF SnapshotForEnqueue
  <2> QED
    BY <2>2, Zenon DEF BufferInv, TypeInv, DriverType
<1>2. p \in Page /\ p \in 1..produced /\ p \notin Range(initial)
  <2>1. Enqueueing(d) /\ Unshared(d)
    BY <1>1, Zenon DEF Enqueueing, Unshared
  <2>2. DriverInv /\ PlaceInv /\ produced \in 0..MaxPages
    BY Zenon DEF BufferInv, TypeInv, PagesInv
  <2>3. p \in 1..produced /\ p \notin Range(initial)
    BY <2>1, <2>2, Zenon DEF DriverInv, PlaceInv
  <2> HIDE DEF p
  <2> QED
    BY <2>2, <2>3, NumberedPages
<1>3. UNCHANGED <<state, outputBuffers, lock, buffers, bufferedBytes, memoryClosed, produced,
                  finisher, coordinator, destroyer, consumer>>
  BY DEF SnapshotForEnqueue
<1>4. \/ /\ CanAddBuffers(state)
         /\ initial' = Append(initial, p) /\ referenceCount' = AddReference({p})
      \/ ~CanAddBuffers(state) /\ initial' = initial /\ referenceCount' = referenceCount
  BY DEF SnapshotForEnqueue
<1>5. initial \in Seq(Page)
  BY DEF BufferInv, TypeInv
<1> HIDE DEF p
<1>6. /\ initial' \in Seq(Page) /\ IsInjective(initial')
      /\ Range(initial') = IF CanAddBuffers(state) THEN Range(initial) \cup {p} ELSE Range(initial)
  <2>1. IsInjective(initial)
    BY DEF BufferInv, PagesInv, PlaceInv
  <2>2. /\ Append(initial, p) \in Seq(Page) /\ IsInjective(Append(initial, p))
        /\ Range(Append(initial, p)) = Range(initial) \cup {p}
    <3>1. /\ Append(initial, p) \in Seq(Page)
          /\ Range(Append(initial, p)) = Range(initial) \cup {p}
          /\ IsInjective(initial) /\ p \notin Range(initial) => IsInjective(Append(initial, p))
      BY <1>2, <1>5, AppendPage
    <3> QED
      BY <1>2, <2>1, <3>1, Zenon
  <2> QED
    BY <1>4, <1>5, <2>1, <2>2, Zenon
<1>7. d \in Holders(p)
  BY <1>1 DEF Holders, p
<1>8. \A q \in Page : Holders(q)' = IF q = p /\ CanAddBuffers(state)
                                    THEN Holders(q) \cup {"initialPages"} ELSE Holders(q)
  BY <1>1, <1>3, <1>6, ZenonT(30) DEF Holders, p
<1>9. "initialPages" \notin Holders(p)
  BY <1>2, HoldersAssumption DEF Holders, BufferInv, TypeInv
<1>10. \A q \in Page : referenceCount'[q] = IF q = p /\ CanAddBuffers(state)
                                            THEN referenceCount[q] + 1 ELSE referenceCount[q]
  BY <1>4 DEF AddReference
<1>11. ReferencesAreExact'
  BY <1>8, <1>9, <1>10, HoldersChange, Zenon DEF BufferInv
<1>12. MemoryIsAccounted' /\ referenceCount' \in [Page -> Int]
  <2>1. \A q \in Page : referenceCount[q] \in Nat
    BY HeldPage DEF BufferInv
  <2>2. referenceCount[p] # 0
    BY <1>2, <1>7, HeldPage DEF BufferInv
  <2>3. CASE referenceCount' = AddReference({p})
    BY <1>2, <1>3, <2>1, <2>2, <2>3, AddReferenceMemory DEF BufferInv
  <2>4. CASE referenceCount' = referenceCount
    BY <1>3, <2>4, MemoryFrame DEF BufferInv, TypeInv
  <2> QED
    BY <1>4, <2>3, <2>4
<1>13. TypeInv'
  BY <1>1, <1>3, <1>6, <1>12 DEF BufferInv, TypeInv
<1>14. ControlInv'
  BY <1>1, <1>3, DriverFrame, Zenon DEF DriversDone
<1>15. \A e \in Driver :
         /\ driver'[e].page = driver[e].page
         /\ Enqueueing(e)' <=> Enqueueing(e)
         /\ Unshared(e)' <=> Unshared(e) /\ e # d
         /\ \A c : Pending(e, c)' => Pending(e, c)
         /\ \A c \in DOMAIN buffers : Pending(e, c) => Pending(e, c)'
  BY <1>1, Zenon DEF Enqueueing, Unshared, Pending, p
<1>16. PagesInv'
  <2>1. DriverInv'
    BY <1>1, <1>3, <1>15, ZenonT(30) DEF BufferInv, PagesInv, DriverInv
  <2>2. PlaceInv'
    <3>1. \A e \in Driver : Unshared(e)' => driver[e].page # p
      BY <1>1, <1>15, Zenon DEF BufferInv, PagesInv, DriverInv, Unshared, Enqueueing, p
    <3>2. \A c \in DOMAIN buffers : PlacedOnce(c)'
      BY <1>3, <1>15, Zenon DEF BufferInv, PagesInv, PlaceInv, PlacedOnce
    <3> QED
      BY <1>2, <1>3, <1>6, <1>15, <3>1, <3>2, Zenon DEF BufferInv, PagesInv, PlaceInv
  <2>3. WindowInv'
    <3>1. \A c : InWindow(c)' <=> InWindow(c)
      BY <1>3, Zenon DEF InWindow, Acknowledged
    <3> QED
      BY <1>3, <1>15, <3>1, Zenon DEF BufferInv, PagesInv, WindowInv, ReceivedOnce
  <2>4. CoverInv'
    <3>1. Undisturbed' <=> Undisturbed
      BY <1>3 DEF Undisturbed
    <3>2. ASSUME Undisturbed, DOMAIN buffers # Consumer PROVE KeptForLater'
      <4>1. CanAddBuffers(state)
        BY <3>2 DEF BufferInv, ControlInv, EndInv, CanAddBuffers
      <4>2. KeptForLater
        BY <3>2 DEF BufferInv, PagesInv, CoverInv
      <4> QED
        BY <1>3, <1>6, <1>15, <4>1, <4>2, Zenon DEF KeptForLater, p
    <3>3. \A c \in DOMAIN buffers : Covered(c) => Covered(c)'
      <4>1. ASSUME NEW c \in DOMAIN buffers, Covered(c) PROVE Covered(c)'
        <5>1. Acknowledged(c)' = Acknowledged(c)
          BY <1>3, Zenon DEF Acknowledged
        <5> QED
          BY <1>3, <1>15, <4>1, <5>1, Zenon DEF Covered
      <4> QED
        BY <4>1, Zenon
    <3>4. ~DriversDone
      BY <1>1 DEF DriversDone
    <3> QED
      BY <1>3, <3>1, <3>2, <3>3, <3>4, Zenon DEF BufferInv, PagesInv, CoverInv
  <2> QED
    BY <2>1, <2>2, <2>3, <2>4 DEF PagesInv
<1> QED
  BY <1>11, <1>12, <1>13, <1>14, <1>16 DEF BufferInv

-----------------------------------------------------------------------------
(* The steps that change one client buffer. *)

LEMMA PutBufferEffect ==
    ASSUME TypeInv, NEW c \in Consumer, NEW b \in ClientBufferType, PutBuffer(c, b)
    PROVE  /\ DOMAIN buffers' = DOMAIN buffers \cup {c} /\ DOMAIN buffers' \subseteq Consumer
           /\ buffers'[c] = b
           /\ \A x \in DOMAIN buffers \ {c} : buffers'[x] = buffers[x]
           /\ buffers' \in [DOMAIN buffers' -> ClientBufferType]
BY DEF TypeInv, PutBuffer

\* Drivers keep their pages, but may have passed them on to the buffer of c.
PassedOnlyTo(c) ==
    \A d \in Driver : /\ driver'[d].page = driver[d].page /\ driver'[d].pc = driver[d].pc
                      /\ driver'[d].todo \subseteq driver[d].todo
                      /\ driver[d].todo \subseteq driver'[d].todo \cup {c}

\* What is said of pages and buffers holds after a step that changes the buffer of
\* c, if it holds for c.
LEMMA OneBufferStep ==
    ASSUME BufferInv, NEW c \in Consumer,
           DOMAIN buffers' = DOMAIN buffers \cup {c},
           \A x \in DOMAIN buffers \ {c} : buffers'[x] = buffers[x],
           UNCHANGED <<initialPagesForNewBuffers, produced, state>>,
           PassedOnlyTo(c),
           destroyer'.cancelled <=> destroyer.cancelled,
           finisher'.todo \subseteq DOMAIN buffers, destroyer'.todo \subseteq DOMAIN buffers,
           \A x \in Consumer \ {c} : consumer'[x] = consumer[x],
           PlacedOnce(c)', ReceivedOnce(c)', ~buffers'[c].destroyed => InWindow(c)',
           Undisturbed =>
             /\ ~buffers'[c].destroyed => Covered(c)'
             /\ consumer'[c].complete => DriversDone /\ Range(consumer'[c].received) = 1..produced
    PROVE  PagesInv'
<1>1. \A d \in Driver :
        /\ Enqueueing(d)' <=> Enqueueing(d)
        /\ Unshared(d)' <=> Unshared(d)
        /\ \A x \in Consumer \ {c} : Pending(d, x)' <=> Pending(d, x)
  BY Zenon DEF PassedOnlyTo, Enqueueing, Unshared, Pending
<1>2. DOMAIN buffers \subseteq Consumer
  BY DEF BufferInv, TypeInv
<1>3. \A x \in DOMAIN buffers \ {c} : PlacedOnce(x)' /\ (~buffers[x].destroyed => InWindow(x)')
  <2>1. SUFFICES ASSUME NEW x \in DOMAIN buffers \ {c}
                 PROVE  PlacedOnce(x)' /\ (~buffers[x].destroyed => InWindow(x)')
    BY Zenon
  <2>2. buffers'[x] = buffers[x] /\ consumer'[x] = consumer[x] /\ x \in Consumer \ {c}
    BY <1>2, <2>1, Zenon
  <2>3. PlacedOnce(x) /\ (~buffers[x].destroyed => InWindow(x))
    BY Zenon DEF BufferInv, PagesInv, PlaceInv, WindowInv
  <2>4. PlacedOnce(x)'
    BY <1>1, <2>2, <2>3, ZenonT(30) DEF PlacedOnce, PassedOnlyTo
  <2>5. InWindow(x) <=> InWindow(x)'
    <3>1. Acknowledged(x)' = Acknowledged(x)
      BY <2>2, Zenon DEF Acknowledged
    <3> QED
      BY <2>2, <3>1, Zenon DEF InWindow
  <2> QED
    BY <2>3, <2>4, <2>5, Zenon
<1>4. DriverInv'
  <2>1. \A d \in Driver : driver'[d].todo \subseteq DOMAIN buffers'
    BY Zenon DEF BufferInv, PagesInv, DriverInv, PassedOnlyTo
  <2>2. \A d \in Driver : (Enqueueing(d)' <=> Enqueueing(d)) /\ driver'[d].page = driver[d].page
    BY <1>1, Zenon DEF PassedOnlyTo
  <2>3. \A d \in Driver : Enqueueing(d)' => driver'[d].page \in 1..produced'
    BY <2>2, Zenon DEF BufferInv, PagesInv, DriverInv
  <2>4. ASSUME NEW d \in Driver, NEW e \in Driver, d # e, Enqueueing(d)', Enqueueing(e)'
        PROVE  driver'[d].page # driver'[e].page
    <3>1. DriverInv
      BY Zenon DEF BufferInv, PagesInv
    <3> QED
      BY <2>2, <2>4, <3>1, Zenon DEF DriverInv
  <2> QED
    BY <2>1, <2>3, <2>4, Zenon DEF DriverInv
<1>5. PlaceInv'
  BY <1>1, <1>3, Zenon DEF BufferInv, PagesInv, PlaceInv, PassedOnlyTo
<1>6. WindowInv'
  <2>1. \A x \in Consumer \ {c} : ReceivedOnce(x) => ReceivedOnce(x)'
    BY <1>1, Zenon DEF ReceivedOnce, PassedOnlyTo
  <2> QED
    BY <1>3, <2>1, Zenon DEF BufferInv, PagesInv, WindowInv
<1>7. CoverInv'
  <2>1. Undisturbed' <=> Undisturbed
    BY Zenon DEF Undisturbed
  <2>2. KeptForLater => KeptForLater'
    BY <1>1, Zenon DEF KeptForLater, PassedOnlyTo
  <2>3. \A x \in DOMAIN buffers \ {c} : Covered(x) => Covered(x)'
    <3>1. SUFFICES ASSUME NEW x \in DOMAIN buffers \ {c}, Covered(x) PROVE Covered(x)'
      BY Zenon
    <3>2. buffers'[x] = buffers[x] /\ consumer'[x] = consumer[x] /\ x \in Consumer \ {c}
      BY <1>2, <3>1, Zenon
    <3>3. Acknowledged(x)' = Acknowledged(x)
      BY <3>2, Zenon DEF Acknowledged
    <3>4. \A d \in Driver : (Pending(d, x)' <=> Pending(d, x)) /\ driver'[d].page = driver[d].page
      BY <1>1, <3>2, Zenon DEF PassedOnlyTo
    <3> QED
      BY <3>1, <3>2, <3>3, <3>4, Zenon DEF Covered
  <2>4. DriversDone' <=> DriversDone
    BY Zenon DEF DriversDone, PassedOnlyTo
  <2>5. DOMAIN buffers' # Consumer => DOMAIN buffers # Consumer
    BY <1>2, Zenon
  <2> QED
    BY <2>1, <2>2, <2>3, <2>4, <2>5, Zenon DEF BufferInv, PagesInv, CoverInv
<1> QED
  BY <1>4, <1>5, <1>6, <1>7, Zenon DEF PagesInv

LEMMA EnqueuePagesFields ==
    ASSUME NEW b \in ClientBufferType, NEW ps \in Seq(Page)
    PROVE  /\ EnqueuePages(b, ps) \in ClientBufferType
           /\ b.noMorePages => EnqueuePages(b, ps) = b
           /\ ~b.noMorePages =>
                /\ EnqueuePages(b, ps).pages = b.pages \o ps
                /\ EnqueuePages(b, ps).currentSequenceId = b.currentSequenceId
                /\ EnqueuePages(b, ps).destroyed <=> b.destroyed
                /\ ~EnqueuePages(b, ps).noMorePages
<1>1. b.pages \o ps \in Seq(Page)
  BY ConcatProperties, Zenon DEF ClientBufferType
<1> QED
  BY <1>1, Zenon DEF ClientBufferType, EnqueuePages

LEMMA SetNoMorePagesFields ==
    ASSUME NEW b \in ClientBufferType
    PROVE  /\ SetNoMorePages(b) \in ClientBufferType
           /\ SetNoMorePages(b).pages = b.pages
           /\ SetNoMorePages(b).currentSequenceId = b.currentSequenceId
           /\ SetNoMorePages(b).destroyed <=> b.destroyed
           /\ SetNoMorePages(b).noMorePages
BY Zenon DEF ClientBufferType, SetNoMorePages

LEMMA DestroyFields ==
    ASSUME NEW b \in ClientBufferType
    PROVE  /\ Destroy(b) \in ClientBufferType
           /\ Destroy(b).pages = << >>
           /\ Destroy(b).destroyed /\ Destroy(b).noMorePages
<1>0. PICK none \in Seq(Page) : none = << >>
  <2>1. << >> \in Seq(Page)
    OBVIOUS
  <2> QED
    BY <2>1, Zenon
<1> DEFINE b1 == [b EXCEPT !.pages = none]
           b2 == [b1 EXCEPT !.noMorePages = TRUE]
           b3 == [b2 EXCEPT !.destroyed = TRUE]
<1>1. b1 \in ClientBufferType /\ b1.pages = none
  BY DEF ClientBufferType
<1> HIDE DEF b1
<1>2. b2 \in ClientBufferType /\ b2.pages = none /\ b2.noMorePages
  BY <1>1, Zenon DEF ClientBufferType
<1> HIDE DEF b2
<1>3. b3 \in ClientBufferType /\ b3.pages = none /\ b3.noMorePages /\ b3.destroyed
  BY <1>2, Zenon DEF ClientBufferType
<1> HIDE DEF b3
<1>4. Destroy(b) = [b3 EXCEPT !.pendingRead = NoRead]
  BY <1>0 DEF Destroy, b1, b2, b3
<1> QED
  BY <1>0, <1>3, <1>4 DEF ClientBufferType

\* The same for the state and the threads.
LEMMA OneBufferControl ==
    ASSUME BufferInv, NEW c \in Consumer,
           UNCHANGED <<state, outputBuffers, lock, coordinator>>,
           finisher'.pc = finisher.pc,
           destroyer'.pc = "idle" <=> destroyer.pc = "idle",
           destroyer'.cancelled <=> destroyer.cancelled,
           DOMAIN buffers' = DOMAIN buffers \cup {c},
           \A x \in DOMAIN buffers \ {c} : buffers'[x] = buffers[x],
           \A x \in Consumer \ {c} : consumer'[x] = consumer[x],
           DriversDone' <=> DriversDone,
           Undisturbed =>
             /\ state = "FINISHED" => buffers'[c].destroyed
             /\ buffers'[c].noMorePages /\ ~buffers'[c].destroyed => DriversDone
             /\ buffers'[c].destroyed => consumer'[c].pc # "reading"
    PROVE  ControlInv'
<1>1. DOMAIN buffers \subseteq Consumer
  BY DEF BufferInv, TypeInv
<1>2. FlowInv'
  BY <1>1, Zenon DEF BufferInv, ControlInv, FlowInv
<1>3. CallsInv'
  BY DEF BufferInv, ControlInv, CallsInv
<1>4. EndInv'
  <2>1. Undisturbed' <=> Undisturbed
    BY DEF Undisturbed
  <2>2. DOMAIN buffers' # Consumer => DOMAIN buffers # Consumer
    BY <1>1
  <2> QED
    BY <1>1, <2>1, <2>2 DEF BufferInv, ControlInv, EndInv
<1> QED
  BY <1>2, <1>3, <1>4 DEF ControlInv

\* A buffer that takes no pages any more is not waited for.
LEMMA EnqueueInBufferStep ==
    ASSUME BufferInv, NEW d \in Driver, NEW c \in Consumer, EnqueueInBuffer(d, c)
    PROVE  BufferInv'
<1>1. PICK p : p = driver[d].page
  OBVIOUS
<1>2. PICK b : b = buffers[c]
  OBVIOUS
<1>3. /\ driver[d].pc = "enqueue" /\ c \in driver[d].todo
      /\ PutBuffer(c, EnqueuePages(b, <<p>>))
      /\ referenceCount' = AddReference(IF b.noMorePages THEN {} ELSE {p})
      /\ driver' = [driver EXCEPT ![d].todo = @ \ {c}]
      /\ UNCHANGED <<state, outputBuffers, lock, initialPagesForNewBuffers, bufferedBytes,
                     memoryClosed, produced, finisher, coordinator, destroyer, consumer>>
  BY <1>1, <1>2 DEF EnqueueInBuffer
<1>4. /\ driver' \in [Driver -> DriverType] /\ PassedOnlyTo(c)
      /\ c \notin driver'[d].todo
      /\ \A e \in Driver \ {d} : driver'[e] = driver[e]
  BY <1>3, Zenon DEF BufferInv, TypeInv, DriverType, PassedOnlyTo
<1>5. Pending(d, c) /\ Enqueueing(d) /\ ~Pending(d, c)'
  BY <1>3, <1>4 DEF Pending, Enqueueing, Unshared, PassedOnlyTo
<1>6. c \in DOMAIN buffers /\ p \in 1..produced /\ p \in Page
  BY <1>1, <1>3, <1>5, NumberedPages DEF BufferInv, TypeInv, PagesInv, DriverInv
<1>7. b \in ClientBufferType
  BY <1>2, <1>6 DEF BufferInv, TypeInv
<1>8. PICK one \in Seq(Page) : one = <<p>>
  <2>1. <<p>> \in Seq(Page)
    BY <1>6
  <2> QED
    BY <2>1, Zenon
<1>9. PICK new \in ClientBufferType :
        /\ PutBuffer(c, new)
        /\ b.noMorePages => new = b
        /\ ~b.noMorePages =>
             /\ new.pages = b.pages \o one /\ new.currentSequenceId = b.currentSequenceId
             /\ new.destroyed <=> b.destroyed
             /\ ~new.noMorePages
  BY <1>3, <1>7, <1>8, EnqueuePagesFields, Zenon
<1>10. /\ DOMAIN buffers' = DOMAIN buffers /\ DOMAIN buffers' \subseteq Consumer
       /\ buffers'[c] = new
       /\ \A x \in DOMAIN buffers \ {c} : buffers'[x] = buffers[x]
       /\ buffers' \in [DOMAIN buffers' -> ClientBufferType]
  <2>1. /\ DOMAIN buffers' = DOMAIN buffers \cup {c} /\ DOMAIN buffers' \subseteq Consumer
        /\ buffers'[c] = new
        /\ \A x \in DOMAIN buffers \ {c} : buffers'[x] = buffers[x]
        /\ buffers' \in [DOMAIN buffers' -> ClientBufferType]
    BY <1>9, PutBufferEffect, Zenon DEF BufferInv
  <2> QED
    BY <1>6, <2>1, Zenon
<1>11. PlacedOnce(c) /\ ReceivedOnce(c) /\ (~b.destroyed => InWindow(c))
  BY <1>2, <1>6, Zenon DEF BufferInv, PagesInv, PlaceInv, WindowInv
<1>12. ~DriversDone /\ (DriversDone' <=> DriversDone)
  BY <1>3, <1>4 DEF DriversDone, PassedOnlyTo
<1>13. Undisturbed => (b.noMorePages => b.destroyed)
  BY <1>2, <1>6, <1>12 DEF BufferInv, ControlInv, EndInv
<1>14. b.destroyed => b.noMorePages
  BY <1>2, <1>11 DEF PlacedOnce
<1>15. p \notin Range(b.pages)
  BY <1>1, <1>2, <1>5, <1>11, Zenon DEF PlacedOnce
<1>16. Range(one) = {p} /\ IsInjective(one) /\ Len(one) = 1
  BY <1>8 DEF Range, IsInjective
<1>17. ~b.noMorePages => Range(new.pages) = Range(b.pages) \cup {p} /\ IsInjective(new.pages)
  <2>1. b.pages \in Seq(Page) /\ IsInjective(b.pages)
    BY <1>2, <1>7, <1>11, Zenon DEF ClientBufferType, PlacedOnce
  <2>2. PICK ps \in Seq(Page) : ps = b.pages
    BY <2>1, Zenon
  <2>3. /\ Range(ps \o one) = Range(ps) \cup Range(one)
        /\ IsInjective(ps) /\ IsInjective(one) /\ Range(ps) \cap Range(one) = {}
             => IsInjective(ps \o one)
    BY ConcatPages, ZenonT(30)
  <2> QED
    BY <1>9, <1>15, <1>16, <2>1, <2>2, <2>3, Zenon
<1>18. \A e \in Driver : /\ driver'[e].page = driver[e].page
                         /\ Pending(e, c)' <=> Pending(e, c) /\ e # d
  BY <1>3, <1>4, <1>5 DEF Pending, Unshared, PassedOnlyTo
<1>19. \A e \in Driver : Pending(e, c)' => driver[e].page # p
  <2>1. \A e \in Driver : Pending(e, c) => Enqueueing(e)
    BY DEF Pending, Enqueueing, Unshared
  <2> QED
    BY <1>1, <1>5, <1>18, <2>1, Zenon DEF BufferInv, PagesInv, DriverInv
<1>20. PlacedOnce(c)'
  <2>1. CASE b.noMorePages
    BY <1>2, <1>3, <1>9, <1>10, <1>11, <1>18, <2>1 DEF PlacedOnce
  <2>2. CASE ~b.noMorePages
    BY <1>2, <1>3, <1>6, <1>9, <1>10, <1>11, <1>14, <1>17, <1>18, <1>19, <2>2 DEF PlacedOnce
  <2> QED
    BY <2>1, <2>2
<1>21. ReceivedOnce(c)'
  BY <1>3, <1>11, <1>18 DEF ReceivedOnce
<1>22. /\ new.currentSequenceId = b.currentSequenceId
       /\ consumer' = consumer /\ Acknowledged(c)' = Acknowledged(c)
  <2>1. new.currentSequenceId = b.currentSequenceId
    BY <1>9
  <2> QED
    BY <1>2, <1>3, <1>10, <2>1 DEF Acknowledged
<1>23. p \notin Range(consumer[c].received)
  BY <1>1, <1>5, <1>11, Zenon DEF ReceivedOnce
<1>24. ~new.destroyed => InWindow(c)'
  <2>1. CASE b.noMorePages
    BY <1>2, <1>9, <1>10, <1>11, <1>22, <2>1 DEF InWindow
  <2>2. CASE ~b.noMorePages
    <3>1. PICK r : r = consumer[c].received
      OBVIOUS
    <3>2. r \in Seq(Page) /\ b.pages \in Seq(Page) /\ b.currentSequenceId \in Nat
      BY <1>7, <3>1 DEF BufferInv, TypeInv, ConsumerType, ClientBufferType
    <3>3. Len(r) \in Nat /\ Len(b.pages) \in Nat /\ DOMAIN r = 1..Len(r)
      BY <3>2, LenProperties
    <3>4. /\ Len(new.pages) = Len(b.pages) + 1
          /\ \A i \in 1..Len(b.pages) : new.pages[i] = b.pages[i]
      <4>1. /\ Len(b.pages \o one) = Len(b.pages) + Len(one)
            /\ \A i \in 1..Len(b.pages) + Len(one) :
                 (b.pages \o one)[i] = IF i <= Len(b.pages) THEN b.pages[i]
                                       ELSE one[i - Len(b.pages)]
        BY <3>2, ConcatProperties, Zenon
      <4> QED
        BY <1>9, <1>16, <2>2, <3>3, <4>1
    <3>5. InWindow(c)
      BY <1>11, <1>14, <2>2
    <3>6. p \notin Acknowledged(c)
      <4>1. b.currentSequenceId <= Len(r)
        BY <1>2, <3>1, <3>5, Zenon DEF InWindow
      <4>2. \A i \in 1..b.currentSequenceId : i \in DOMAIN r
        BY <3>2, <3>3, <4>1
      <4> QED
        BY <1>2, <1>23, <3>1, <4>2, Zenon DEF Acknowledged, Range
    <3>7. Acknowledged(c)' \cap Range(new.pages) = {}
      BY <1>2, <1>17, <1>22, <2>2, <3>5, <3>6, Zenon DEF InWindow
    <3>8. /\ b.currentSequenceId <= Len(r)
          /\ Len(r) <= b.currentSequenceId + Len(new.pages)
          /\ \A i \in 1..Len(new.pages) :
               b.currentSequenceId + i <= Len(r) => r[b.currentSequenceId + i] = new.pages[i]
      <4>1. PICK n, ps, qs : n = b.currentSequenceId /\ ps = b.pages /\ qs = new.pages
        OBVIOUS
      <4>2. /\ n <= Len(r) /\ Len(r) <= n + Len(ps)
            /\ \A i \in 1..Len(ps) : n + i <= Len(r) => r[n + i] = ps[i]
        BY <1>2, <3>1, <3>5, <4>1 DEF InWindow
      <4>3. n \in Nat /\ Len(r) \in Nat /\ Len(ps) \in Nat
        BY <3>2, <3>3, <4>1
      <4>4. Len(qs) = Len(ps) + 1 /\ \A i \in 1..Len(ps) : qs[i] = ps[i]
        BY <3>4, <4>1
      <4>5. \A i \in 1..Len(qs) : n + i <= Len(r) => i \in 1..Len(ps)
        BY <4>2, <4>3, <4>4
      <4>6. /\ n <= Len(r) /\ Len(r) <= n + Len(qs)
            /\ \A i \in 1..Len(qs) : n + i <= Len(r) => r[n + i] = qs[i]
        BY <4>2, <4>3, <4>4, <4>5
      <4> QED
        BY <4>1, <4>6
    <3> QED
      BY <1>10, <1>22, <3>1, <3>7, <3>8 DEF InWindow
  <2> QED
    BY <2>1, <2>2
<1>25. ASSUME Undisturbed, ~new.destroyed PROVE Covered(c)'
  <2>1. ~b.noMorePages /\ ~b.destroyed
    BY <1>9, <1>13, <1>14, <1>25
  <2>2. Covered(c)
    BY <1>2, <1>6, <1>25, <2>1 DEF BufferInv, PagesInv, CoverInv
  <2> QED
    BY <1>1, <1>2, <1>3, <1>10, <1>17, <1>18, <1>22, <2>1, <2>2 DEF Covered
<1>26. PagesInv'
  <2>1. /\ finisher'.todo \subseteq DOMAIN buffers /\ destroyer'.todo \subseteq DOMAIN buffers
        /\ destroyer'.cancelled <=> destroyer.cancelled
    BY <1>3 DEF BufferInv, PagesInv, PlaceInv
  <2>2. Undisturbed => ~consumer'[c].complete
    BY <1>12, <1>22, Zenon DEF BufferInv, PagesInv, CoverInv
  <2>3. DOMAIN buffers' = DOMAIN buffers \cup {c}
    BY <1>6, <1>10, Zenon
  <2> QED
    BY <1>3, <1>4, <1>10, <1>20, <1>21, <1>24, <1>25, <2>1, <2>2, <2>3, OneBufferStep
<1>27. ControlInv'
  <2>1. DOMAIN buffers' = DOMAIN buffers \cup {c}
    BY <1>6, <1>10, Zenon
  <2>2. Undisturbed =>
          /\ state = "FINISHED" => new.destroyed
          /\ new.noMorePages /\ ~new.destroyed => DriversDone
          /\ new.destroyed => consumer'[c].pc # "reading"
    BY <1>2, <1>3, <1>6, <1>9, <1>13, <1>14 DEF BufferInv, ControlInv, EndInv
  <2> QED
    BY <1>3, <1>10, <1>12, <2>1, <2>2, OneBufferControl
<1>28. ReferencesAreExact' /\ MemoryIsAccounted' /\ referenceCount' \in [Page -> Int]
  <2> DEFINE added == IF b.noMorePages THEN {} ELSE {p}
  <2>1. \A q \in Page : Holders(q)' = IF q \in added THEN Holders(q) \cup {c} ELSE Holders(q)
    <3>1. \A q \in Page : \A x \in DOMAIN buffers :
            q \in Range(buffers'[x].pages)
              <=> (q \in Range(buffers[x].pages) \/ (x = c /\ q \in added))
      BY <1>2, <1>9, <1>10, <1>17
    <3>2. \A e \in Driver : driver'[e].pc = driver[e].pc /\ driver'[e].page = driver[e].page
      BY <1>4, Zenon DEF PassedOnlyTo
    <3> HIDE DEF added
    <3> QED
      BY <1>3, <1>6, <1>10, <3>1, <3>2 DEF Holders
  <2>2. \A q \in added : c \notin Holders(q)
    BY <1>2, <1>15, HoldersAssumption, Zenon DEF Holders
  <2>3. d \in Holders(p)
    BY <1>1, <1>3 DEF Holders
  <2>4. added \in SUBSET Page /\ \A q \in added : q = p
    BY <1>6
  <2>5. referenceCount' = AddReference(added)
    BY <1>3
  <2> HIDE DEF added
  <2>6. \A q \in Page : referenceCount'[q] = IF q \in added THEN referenceCount[q] + 1
                                             ELSE referenceCount[q]
    BY <2>5 DEF AddReference
  <2>7. ReferencesAreExact'
    BY <2>1, <2>2, <2>6, HoldersChange, Zenon DEF BufferInv
  <2>8. \A q \in Page : referenceCount[q] \in Nat
    BY HeldPage DEF BufferInv
  <2>9. \A q \in added : referenceCount[q] # 0
    BY <1>6, <2>3, <2>4, HeldPage DEF BufferInv
  <2> QED
    BY <1>3, <2>4, <2>5, <2>7, <2>8, <2>9, AddReferenceMemory, Zenon DEF BufferInv
<1>29. TypeInv'
  BY <1>3, <1>4, <1>10, <1>28, Zenon DEF BufferInv, TypeInv
<1> QED
  BY <1>26, <1>27, <1>28, <1>29 DEF BufferInv

LEMMA SetNoMorePagesInBufferStep ==
    ASSUME BufferInv, NEW c \in Consumer, SetNoMorePagesInBuffer(c)
    PROVE  BufferInv'
<1>1. PICK b : b = buffers[c]
  OBVIOUS
<1>2. /\ finisher.pc = "setNoMorePages" /\ c \in finisher.todo
      /\ PutBuffer(c, SetNoMorePages(b))
      /\ finisher' = [finisher EXCEPT !.todo = @ \ {c}]
      /\ UNCHANGED <<state, outputBuffers, lock, initialPagesForNewBuffers, referenceCount,
                     bufferedBytes, memoryClosed, produced, driver, coordinator, destroyer,
                     consumer>>
  BY <1>1 DEF SetNoMorePagesInBuffer, memory
<1>3. /\ finisher' \in FinisherType /\ finisher'.pc = finisher.pc
      /\ finisher'.todo \subseteq finisher.todo
  BY <1>2 DEF BufferInv, TypeInv, FinisherType
<1>4. c \in DOMAIN buffers /\ b \in ClientBufferType
  BY <1>1, <1>2 DEF BufferInv, TypeInv, PagesInv, PlaceInv
<1>5. PICK new \in ClientBufferType :
        /\ PutBuffer(c, new)
        /\ new.pages = b.pages /\ new.currentSequenceId = b.currentSequenceId
        /\ new.destroyed <=> b.destroyed
        /\ new.noMorePages
  BY <1>2, <1>4, SetNoMorePagesFields, Zenon
<1>6. /\ DOMAIN buffers' = DOMAIN buffers \cup {c} /\ DOMAIN buffers' \subseteq Consumer
      /\ buffers'[c] = new
      /\ \A x \in DOMAIN buffers \ {c} : buffers'[x] = buffers[x]
      /\ buffers' \in [DOMAIN buffers' -> ClientBufferType]
  BY <1>5, PutBufferEffect, Zenon DEF BufferInv
<1>7. DriversDone /\ (DriversDone' <=> DriversDone)
  BY <1>2 DEF BufferInv, ControlInv, FlowInv, DriversDone
<1>8. \A d \in Driver : Pending(d, c)' <=> Pending(d, c)
  BY <1>2 DEF Pending, Unshared
<1>9. PagesInv'
  <2>1. PlacedOnce(c) /\ ReceivedOnce(c) /\ (~b.destroyed => InWindow(c))
    BY <1>1, <1>4, Zenon DEF BufferInv, PagesInv, PlaceInv, WindowInv
  <2>2. PlacedOnce(c)'
    BY <1>1, <1>2, <1>5, <1>6, <1>8, <2>1 DEF PlacedOnce
  <2>3. ReceivedOnce(c)'
    BY <1>2, <1>8, <2>1 DEF ReceivedOnce
  <2>4. (InWindow(c)' <=> InWindow(c)) /\ Acknowledged(c)' = Acknowledged(c)
    <3>1. /\ buffers'[c].pages = buffers[c].pages /\ consumer' = consumer
          /\ buffers'[c].currentSequenceId = buffers[c].currentSequenceId
      BY <1>1, <1>2, <1>5, <1>6
    <3>2. Acknowledged(c)' = Acknowledged(c)
      BY <3>1, Zenon DEF Acknowledged
    <3> QED
      BY <3>1, <3>2, Zenon DEF InWindow
  <2>5. Covered(c) => Covered(c)'
    BY <1>1, <1>2, <1>5, <1>6, <1>8, <2>4 DEF Covered
  <2>6. Undisturbed => /\ ~b.destroyed => Covered(c)
                       /\ consumer'[c].complete => Range(consumer'[c].received) = 1..produced
    BY <1>1, <1>2, <1>4 DEF BufferInv, PagesInv, CoverInv
  <2>7. /\ finisher'.todo \subseteq DOMAIN buffers /\ destroyer'.todo \subseteq DOMAIN buffers
        /\ destroyer'.cancelled <=> destroyer.cancelled
        /\ PassedOnlyTo(c)
    BY <1>2, <1>3 DEF BufferInv, PagesInv, PlaceInv, PassedOnlyTo
  <2> QED
    BY <1>2, <1>5, <1>6, <1>7, <2>1, <2>2, <2>3, <2>4, <2>5, <2>6, <2>7, OneBufferStep
<1>10. ControlInv'
  <2>1. Undisturbed =>
          /\ state = "FINISHED" => new.destroyed
          /\ new.destroyed => consumer'[c].pc # "reading"
    BY <1>1, <1>2, <1>4, <1>5 DEF BufferInv, ControlInv, EndInv
  <2> QED
    BY <1>2, <1>3, <1>6, <1>7, <2>1, OneBufferControl
<1>11. ReferencesAreExact' /\ MemoryIsAccounted'
  <2>1. \A x \in DOMAIN buffers : buffers'[x].pages = buffers[x].pages
    BY <1>1, <1>5, <1>6
  <2>2. \A q \in Page : Holders(q)' = Holders(q)
    BY <1>2, <1>4, <1>6, <2>1 DEF Holders
  <2> QED
    BY <1>2, <2>2, MemoryFrame DEF BufferInv, ReferencesAreExact
<1>12. TypeInv'
  BY <1>2, <1>3, <1>6 DEF BufferInv, TypeInv
<1> QED
  BY <1>9, <1>10, <1>11, <1>12 DEF BufferInv
=============================================================================
