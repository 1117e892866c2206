-------------------------- MODULE TaskOutputProofs --------------------------
(***************************************************************************)
(* The broadcast output buffer and the task around it, for any number of   *)
(* drivers, consumers and pages, any page sizes and any history of         *)
(* OutputBuffers: reference counts are exact, the reported memory is that  *)
(* of the referenced pages, a consumer that is told that its buffer is     *)
(* complete has every page, and a task only says FINISHED when it is.      *)
(*                                                                         *)
(* One inductive invariant, BufferInv, serves the buffer alone (Spec) and  *)
(* the buffer within a task (TaskSpec): every action of the buffer keeps   *)
(* it, and so does a task that calls setNoMorePages when its drivers are   *)
(* done.                                                                   *)
(***************************************************************************)
EXTENDS TaskOutput, BroadcastOutputBufferProofs

-----------------------------------------------------------------------------
(* Buffers that are destroyed and buffers that are added. *)

\* A destroyed client buffer gives back its pages.
LEMMA DestroyedBuffer ==
    ASSUME BufferInv, NEW c \in DOMAIN buffers,
           PutBuffer(c, Destroy(buffers[c])),
           DereferencePage(Range(buffers[c].pages)),
           UNCHANGED <<state, outputBuffers, lock, initialPagesForNewBuffers, memoryClosed,
                       produced, driver, finisher, coordinator>>,
           destroyer' \in DestroyerType, destroyer'.pc = destroyer.pc,
           destroyer'.todo \subseteq DOMAIN buffers,
           destroyer'.cancelled <=> destroyer.cancelled,
           consumer' \in [Consumer -> ConsumerType], NothingReceived,
           \A x \in Consumer \ {c} : consumer'[x] = consumer[x],
           Undisturbed => consumer'[c].pc # "reading"
    PROVE  BufferInv'
<1>1. PICK b : b = buffers[c]
  OBVIOUS
<1>2. c \in Consumer /\ b \in ClientBufferType
  BY <1>1 DEF BufferInv, TypeInv
<1>3. PICK new \in ClientBufferType :
        PutBuffer(c, new) /\ new.pages = << >> /\ new.destroyed /\ new.noMorePages
  BY <1>1, <1>2, DestroyFields, Zenon
<1>4. /\ DOMAIN buffers' = DOMAIN buffers \cup {c} /\ DOMAIN buffers' \subseteq Consumer
      /\ buffers'[c] = new
      /\ \A x \in DOMAIN buffers \ {c} : buffers'[x] = buffers[x]
      /\ buffers' \in [DOMAIN buffers' -> ClientBufferType]
  BY <1>2, <1>3, PutBufferEffect, Zenon DEF BufferInv
<1>5. Range(new.pages) = {} /\ IsInjective(new.pages)
  BY <1>3 DEF Range, IsInjective
<1>6. DriversDone' <=> DriversDone
  BY DEF DriversDone
<1>7. PagesInv'
  <2>1. PlacedOnce(c)'
    BY <1>3, <1>4, <1>5 DEF PlacedOnce
  <2>2. ReceivedOnce(c)'
    <3>1. ReceivedOnce(c) /\ consumer'[c].received = consumer[c].received
      BY <1>2, Zenon DEF BufferInv, PagesInv, WindowInv, NothingReceived
    <3> QED
      BY <3>1, Zenon DEF ReceivedOnce, Pending, Unshared
  <2>3. Undisturbed =>
          (consumer'[c].complete => DriversDone /\ Range(consumer'[c].received) = 1..produced)
    BY <1>2 DEF BufferInv, PagesInv, CoverInv, NothingReceived
  <2>4. finisher'.todo \subseteq DOMAIN buffers /\ PassedOnlyTo(c)
    BY DEF BufferInv, PagesInv, PlaceInv, PassedOnlyTo
  <2> QED
    BY <1>2, <1>3, <1>4, <2>1, <2>2, <2>3, <2>4, OneBufferStep
<1>8. ControlInv'
  BY <1>2, <1>3, <1>4, <1>6, OneBufferControl
<1>9. ReferencesAreExact' /\ MemoryIsAccounted' /\ referenceCount' \in [Page -> Int]
        /\ bufferedBytes' \in Int
  <2> DEFINE dropped == Range(b.pages)
  <2>1. \A q \in Page : Holders(q)' = IF q \in dropped THEN Holders(q) \ {c} ELSE Holders(q)
    <3>1. \A q \in Page : \A x \in DOMAIN buffers :
            q \in Range(buffers'[x].pages) <=> q \in Range(buffers[x].pages) /\ x # c
      BY <1>3, <1>4, <1>5
    <3>2. c \notin Driver /\ c # "initialPages" /\ DOMAIN buffers' = DOMAIN buffers
      BY <1>2, <1>4, HoldersAssumption
    <3> QED
      BY <1>1, <3>1, <3>2, Zenon DEF Holders
  <2>2. dropped \in SUBSET Page
    BY <1>2, LenProperties DEF ClientBufferType, Range
  <2>3. \A q \in dropped : c \in Holders(q)
    BY <1>1 DEF Holders
  <2>4. DereferencePage(dropped)
    BY <1>1
  <2> HIDE DEF dropped
  <2>5. \A q \in Page : referenceCount'[q] = IF q \in dropped THEN referenceCount[q] - 1
                                             ELSE referenceCount[q]
    BY <2>4, Zenon DEF DereferencePage
  <2>6. ReferencesAreExact'
    BY <2>1, <2>3, <2>5, HoldersChange, Zenon DEF BufferInv
  <2>7. \A q \in Page : referenceCount[q] \in Nat
    BY HeldPage, Zenon DEF BufferInv
  <2>8. \A q \in dropped : referenceCount[q] # 0
    BY <2>2, <2>3, HeldPage DEF BufferInv
  <2> QED
    BY <2>2, <2>4, <2>6, <2>7, <2>8, DereferenceMemory, Zenon DEF BufferInv
<1>10. TypeInv'
  BY <1>4, <1>9 DEF BufferInv, TypeInv
<1> QED
  BY <1>7, <1>8, <1>9, <1>10 DEF BufferInv

LEMMA DestroyBufferStep ==
    ASSUME BufferInv, NEW c \in Consumer, DestroyBuffer(c)
    PROVE  BufferInv'
<1>1. /\ destroyer' \in DestroyerType /\ destroyer'.pc = destroyer.pc
      /\ destroyer'.todo \subseteq destroyer.todo
      /\ destroyer'.cancelled <=> destroyer.cancelled
  BY DEF BufferInv, TypeInv, DestroyerType, DestroyBuffer
<1>2. c \in DOMAIN buffers /\ destroyer'.todo \subseteq DOMAIN buffers
  BY <1>1 DEF BufferInv, PagesInv, PlaceInv, DestroyBuffer
<1>3. Undisturbed => consumer'[c].pc # "reading"
  <2>1. state \in {"FINISHED", "FAILED"}
    BY DEF BufferInv, ControlInv, FlowInv, IsTerminal, DestroyBuffer
  <2> QED
    BY <1>2, <2>1 DEF BufferInv, ControlInv, EndInv, Undisturbed, DestroyBuffer
<1>4. consumer' = consumer /\ consumer' \in [Consumer -> ConsumerType]
  BY DEF BufferInv, TypeInv, DestroyBuffer
<1> QED
  BY <1>1, <1>2, <1>3, <1>4, DestroyedBuffer DEF DestroyBuffer, NothingReceived

LEMMA AbortStep ==
    ASSUME BufferInv, NEW c \in Consumer, Abort(c)
    PROVE  BufferInv'
<1>1. /\ consumer' \in [Consumer -> ConsumerType] /\ NothingReceived
      /\ \A x \in Consumer \ {c} : consumer'[x] = consumer[x]
      /\ consumer'[c].pc = "check"
  BY Zenon DEF BufferInv, TypeInv, ConsumerType, Abort, NothingReceived
<1>2. destroyer' = destroyer /\ destroyer \in DestroyerType /\ destroyer.todo \subseteq DOMAIN buffers
  BY DEF BufferInv, TypeInv, PagesInv, PlaceInv, Abort
<1> QED
  BY <1>1, <1>2, DestroyedBuffer DEF Abort

\* What getBuffer returns for a consumer it does not know.
LEMMA NewBufferFields ==
    ASSUME TypeInv
    PROVE  /\ NewBuffer \in ClientBufferType
           /\ NewBuffer.currentSequenceId = 0
           /\ NewBuffer.pages = IF IsTerminal(state) THEN << >> ELSE initialPagesForNewBuffers
           /\ NewBuffer.destroyed <=> state = "FINISHED"
           /\ NewBuffer.noMorePages <=> ~CanAddPages(state) /\ state # "FAILED"
<1>1. PICK empty \in ClientBufferType :
        /\ empty = NewClientBuffer(0) /\ empty.pages = << >> /\ empty.currentSequenceId = 0
        /\ ~empty.destroyed /\ ~empty.noMorePages
  <2>1. /\ NewClientBuffer(0) \in ClientBufferType
        /\ NewClientBuffer(0).pages = << >> /\ NewClientBuffer(0).currentSequenceId = 0
    BY DEF NewClientBuffer, ClientBufferType
  <2>2. ~NewClientBuffer(0).destroyed /\ ~NewClientBuffer(0).noMorePages
    BY DEF NewClientBuffer
  <2> QED
    BY <2>1, <2>2, Zenon
<1>2. PICK initial \in Seq(Page) : initial = initialPagesForNewBuffers
  BY Zenon DEF TypeInv
<1>3. PICK full \in ClientBufferType :
        /\ full = EnqueuePages(empty, initial) /\ full.pages = initial
        /\ full.currentSequenceId = 0 /\ ~full.destroyed /\ ~full.noMorePages
  <2>1. << >> \o initial = initial
    BY ConcatEmptySeq, Zenon
  <2>2. /\ EnqueuePages(empty, initial) \in ClientBufferType
        /\ EnqueuePages(empty, initial).pages = empty.pages \o initial
        /\ EnqueuePages(empty, initial).currentSequenceId = empty.currentSequenceId
        /\ EnqueuePages(empty, initial).destroyed <=> empty.destroyed
        /\ ~EnqueuePages(empty, initial).noMorePages
    BY <1>1, EnqueuePagesFields, Zenon
  <2> QED
    BY <1>1, <2>1, <2>2, Zenon
<1>4. PICK closed \in ClientBufferType :
        /\ closed = SetNoMorePages(full) /\ closed.pages = initial
        /\ closed.currentSequenceId = 0 /\ ~closed.destroyed /\ closed.noMorePages
  BY <1>3, SetNoMorePagesFields, Zenon
<1>5. PICK over \in ClientBufferType :
        /\ over = Destroy(closed) /\ over.pages = << >>
        /\ over.destroyed /\ over.noMorePages /\ over.currentSequenceId = 0
  <2>1. Destroy(closed).currentSequenceId = closed.currentSequenceId
    BY DEF Destroy, ClientBufferType
  <2> QED
    BY <1>4, <2>1, DestroyFields, Zenon
<1>6. NewBuffer = CASE state = "FAILED" -> empty [] state = "FINISHED" -> over
                    [] CanAddPages(state) -> full [] OTHER -> closed
  BY <1>1, <1>2, <1>3, <1>4, <1>5 DEF NewBuffer
<1>7. CASE state = "FAILED"
  BY <1>1, <1>6, <1>7 DEF IsTerminal, CanAddPages
<1>8. CASE state = "FINISHED"
  BY <1>5, <1>6, <1>8 DEF IsTerminal, CanAddPages
<1>9. CASE CanAddPages(state)
  BY <1>2, <1>3, <1>6, <1>9 DEF IsTerminal, CanAddPages
<1>10. CASE ~CanAddPages(state) /\ state # "FAILED" /\ state # "FINISHED"
  BY <1>2, <1>4, <1>6, <1>10 DEF IsTerminal, CanAddPages
<1> QED
  BY <1>7, <1>8, <1>9, <1>10, Zenon

\* A new client buffer starts with the pages kept for it.
LEMMA AddedBuffer ==
    ASSUME BufferInv, NEW c \in Consumer, c \notin DOMAIN buffers,
           NEW new \in ClientBufferType,
           new.pages = NewBuffer.pages, new.currentSequenceId = 0,
           new.destroyed <=> NewBuffer.destroyed,
           NewBuffer.noMorePages => new.noMorePages,
           new.noMorePages => NewBuffer.noMorePages \/ DriversDone,
           PutBuffer(c, new),
           referenceCount' = AddReference(Range(NewBuffer.pages)),
           UNCHANGED <<state, outputBuffers, lock, initialPagesForNewBuffers, bufferedBytes,
                       memoryClosed, produced, driver, finisher, coordinator, destroyer, consumer>>
    PROVE  BufferInv'
<1> DEFINE initial == initialPagesForNewBuffers
<1>1. /\ DOMAIN buffers' = DOMAIN buffers \cup {c} /\ DOMAIN buffers' \subseteq Consumer
      /\ buffers'[c] = new
      /\ \A x \in DOMAIN buffers \ {c} : buffers'[x] = buffers[x]
      /\ buffers' \in [DOMAIN buffers' -> ClientBufferType]
  BY PutBufferEffect, Zenon DEF BufferInv
<1>2. /\ new.pages = IF IsTerminal(state) THEN << >> ELSE initial
      /\ new.destroyed <=> state = "FINISHED"
      /\ NewBuffer.noMorePages <=> ~CanAddPages(state) /\ state # "FAILED"
  BY NewBufferFields DEF BufferInv
<1>3. /\ initial \in Seq(Page) /\ IsInjective(initial) /\ Range(initial) \subseteq 1..produced
      /\ Range(initial) \subseteq Page
  BY LenProperties DEF BufferInv, TypeInv, PagesInv, PlaceInv, Range
<1>4. /\ IsInjective(new.pages) /\ Range(new.pages) \subseteq Range(initial)
      /\ new.destroyed => new.pages = << >>
  <2>1. CASE new.pages = << >>
    BY <2>1 DEF IsInjective, Range
  <2>2. CASE new.pages = initial /\ ~IsTerminal(state)
    BY <1>2, <1>3, <2>2, Zenon DEF IsTerminal
  <2> QED
    BY <1>2, <2>1, <2>2, Zenon
<1>5. new.destroyed => new.noMorePages
  BY <1>2 DEF CanAddPages
<1>6. consumer[c].received = << >> /\ ~consumer[c].complete
  BY DEF BufferInv, PagesInv, WindowInv
<1>7. \A d \in Driver : /\ Pending(d, c) <=> Unshared(d)
                        /\ Pending(d, c)' <=> Unshared(d)
  BY Zenon DEF BufferInv, PagesInv, DriverInv, Pending, Unshared
<1>8. Undisturbed => /\ state \in {"OPEN", "NO_MORE_PAGES"} /\ KeptForLater
                     /\ new.pages = initial /\ ~new.destroyed
  <2>1. DOMAIN buffers # Consumer
    BY Zenon
  <2> QED
    BY <1>2, <2>1 DEF BufferInv, ControlInv, EndInv, PagesInv, CoverInv, IsTerminal
<1>9. Undisturbed => (new.noMorePages => DriversDone)
  BY <1>2, <1>8 DEF BufferInv, ControlInv, FlowInv, CanAddPages
<1>10. PagesInv'
  <2>1. PlacedOnce(c)'
    BY <1>1, <1>3, <1>4, <1>5, <1>7 DEF BufferInv, PagesInv, PlaceInv, PlacedOnce
  <2>2. ReceivedOnce(c)'
    BY <1>7, Zenon DEF BufferInv, PagesInv, WindowInv, ReceivedOnce
  <2>3. Acknowledged(c)' = {}
    BY <1>1 DEF Acknowledged
  <2>4. InWindow(c)'
    <3>1. new.pages \in Seq(Page) /\ Len(new.pages) \in Nat
      BY LenProperties DEF ClientBufferType
    <3> QED
      BY <1>1, <1>6, <2>3, <3>1 DEF InWindow
  <2>5. Undisturbed => Covered(c)'
    BY <1>1, <1>7, <1>8 DEF Covered, KeptForLater
  <2>6. /\ finisher'.todo \subseteq DOMAIN buffers /\ destroyer'.todo \subseteq DOMAIN buffers
        /\ PassedOnlyTo(c) /\ (destroyer'.cancelled <=> destroyer.cancelled)
    BY Zenon DEF BufferInv, PagesInv, PlaceInv, PassedOnlyTo
  <2> QED
    BY <1>1, <1>6, <2>1, <2>2, <2>4, <2>5, <2>6, OneBufferStep
<1>11. ControlInv'
  <2>1. DriversDone' <=> DriversDone
    BY Zenon DEF DriversDone
  <2>2. Undisturbed => state # "FINISHED"
    BY <1>8
  <2> QED
    BY <1>1, <1>8, <1>9, <2>1, <2>2, OneBufferControl
<1>12. ReferencesAreExact' /\ MemoryIsAccounted' /\ referenceCount' \in [Page -> Int]
  <2> DEFINE added == Range(new.pages)
  <2>1. \A q \in Page : Holders(q)' = IF q \in added THEN Holders(q) \cup {c} ELSE Holders(q)
    BY <1>1 DEF Holders
  <2>2. \A q \in Page : c \notin Holders(q)
    BY HoldersAssumption, Zenon DEF Holders
  <2>3. added \in SUBSET Page /\ \A q \in added : "initialPages" \in Holders(q)
    BY <1>3, <1>4 DEF Holders
  <2>4. referenceCount' = AddReference(added)
    BY Zenon
  <2> HIDE DEF added
  <2>5. \A q \in Page : referenceCount'[q] = IF q \in added THEN referenceCount[q] + 1
                                             ELSE referenceCount[q]
    BY <2>4 DEF AddReference
  <2>6. ReferencesAreExact'
    BY <2>1, <2>2, <2>5, HoldersChange, Zenon DEF BufferInv
  <2>7. \A q \in Page : referenceCount[q] \in Nat
    BY HeldPage, Zenon DEF BufferInv
  <2>8. \A q \in added : referenceCount[q] # 0
    BY <2>3, HeldPage DEF BufferInv
  <2> QED
    BY <2>3, <2>4, <2>6, <2>7, <2>8, AddReferenceMemory DEF BufferInv
<1>13. TypeInv'
  BY <1>1, <1>12 DEF BufferInv, TypeInv
<1> QED
  BY <1>10, <1>11, <1>12, <1>13 DEF BufferInv

LEMMA CreateBufferStep ==
    ASSUME BufferInv, NEW c \in Consumer, CreateBuffer(c)
    PROVE  BufferInv'
<1>1. NewBuffer \in ClientBufferType /\ NewBuffer.currentSequenceId = 0
  BY NewBufferFields DEF BufferInv
<1> QED
  BY <1>1, AddedBuffer, Zenon DEF CreateBuffer

LEMMA AddDeclaredBufferStep ==
    ASSUME BufferInv, NEW c \in Consumer, AddDeclaredBuffer(c)
    PROVE  BufferInv'
<1>1. NewBuffer \in ClientBufferType /\ NewBuffer.currentSequenceId = 0
  BY NewBufferFields DEF BufferInv
<1>2. CASE CanAddPages(coordinator.read)
  BY <1>1, <1>2, AddedBuffer DEF AddDeclaredBuffer
<1>3. CASE ~CanAddPages(coordinator.read)
  <2>1. DriversDone
    BY <1>3 DEF BufferInv, ControlInv, FlowInv, AddDeclaredBuffer
  <2>2. PICK new \in ClientBufferType :
          /\ new = SetNoMorePages(NewBuffer)
          /\ new.pages = NewBuffer.pages /\ new.currentSequenceId = 0
          /\ new.destroyed <=> NewBuffer.destroyed
          /\ new.noMorePages
    BY <1>1, SetNoMorePagesFields, Zenon
  <2>3. PutBuffer(c, new)
    BY <1>3, <2>2 DEF AddDeclaredBuffer
  <2> QED
    BY <2>1, <2>2, <2>3, AddedBuffer DEF AddDeclaredBuffer
<1> QED
  BY <1>2, <1>3

-----------------------------------------------------------------------------
(* noMoreBuffers and the end of the memory manager. *)

\* The pages kept for new buffers are dropped when there will be none that needs them.
LEMMA DroppedInitialPages ==
    ASSUME BufferInv, DropInitialPages,
           UNCHANGED <<state, outputBuffers, lock, buffers, memoryClosed, produced, driver,
                       finisher, consumer>>,
           coordinator' \in CoordinatorType,
           destroyer' \in DestroyerType, destroyer'.todo \subseteq DOMAIN buffers,
           destroyer'.cancelled <=> destroyer.cancelled,
           Undisturbed => DOMAIN buffers = Consumer,
           ControlInv'
    PROVE  BufferInv'
<1> DEFINE initial == initialPagesForNewBuffers
           dropped == Range(initial)
<1>1. initial' = << >> /\ Range(initial') = {} /\ IsInjective(initial') /\ initial' \in Seq(Page)
  BY DEF DropInitialPages, Range, IsInjective
<1>2. \A d \in Driver : /\ Enqueueing(d)' <=> Enqueueing(d)
                        /\ Unshared(d)' <=> Unshared(d)
                        /\ \A c : Pending(d, c)' <=> Pending(d, c)
  BY DEF Enqueueing, Unshared, Pending
<1>3. \A c : /\ PlacedOnce(c)' <=> PlacedOnce(c)
             /\ ReceivedOnce(c)' <=> ReceivedOnce(c)
             /\ InWindow(c)' <=> InWindow(c)
             /\ Covered(c)' <=> Covered(c)
  <2>1. \A c : Acknowledged(c)' = Acknowledged(c)
    BY DEF Acknowledged
  <2>2. \A c : (PlacedOnce(c)' <=> PlacedOnce(c)) /\ (ReceivedOnce(c)' <=> ReceivedOnce(c))
    BY <1>2, Zenon DEF PlacedOnce, ReceivedOnce
  <2>3. \A c : InWindow(c)' <=> InWindow(c)
    BY <2>1, Zenon DEF InWindow
  <2>4. \A c : Covered(c)' <=> Covered(c)
    BY <1>2, <2>1, Zenon DEF Covered
  <2> QED
    BY <2>2, <2>3, <2>4
<1>4. PagesInv'
  <2>1. DriverInv'
    BY <1>2 DEF BufferInv, PagesInv, DriverInv
  <2>2. PlaceInv'
    BY <1>1, <1>3, Zenon DEF BufferInv, PagesInv, PlaceInv
  <2>3. WindowInv'
    BY <1>3, Zenon DEF BufferInv, PagesInv, WindowInv
  <2>4. CoverInv'
    <3>1. Undisturbed' <=> Undisturbed
      BY DEF Undisturbed
    <3> QED
      BY <1>3, <3>1 DEF BufferInv, PagesInv, CoverInv, DriversDone
  <2> QED
    BY <2>1, <2>2, <2>3, <2>4 DEF PagesInv
<1>5. \A q \in Page : Holders(q)' = IF q \in dropped THEN Holders(q) \ {"initialPages"} ELSE Holders(q)
  <2>1. "initialPages" \notin Driver \cup DOMAIN buffers
    BY HoldersAssumption DEF BufferInv, TypeInv
  <2> QED
    BY <1>1, <2>1 DEF Holders
<1>6. dropped \in SUBSET Page
  BY LenProperties DEF BufferInv, TypeInv, Range
<1>7. \A q \in dropped : "initialPages" \in Holders(q)
  BY DEF Holders
<1>8. DereferencePage(dropped)
  BY DEF DropInitialPages
<1> HIDE DEF dropped
<1>9. ReferencesAreExact'
  <2>1. \A q \in Page : referenceCount'[q] = IF q \in dropped THEN referenceCount[q] - 1
                                             ELSE referenceCount[q]
    BY <1>8 DEF DereferencePage
  <2> QED
    BY <1>5, <1>7, <2>1, HoldersChange, Zenon DEF BufferInv
<1>10. MemoryIsAccounted' /\ referenceCount' \in [Page -> Int] /\ bufferedBytes' \in Int
  <2>1. \A q \in Page : referenceCount[q] \in Nat
    BY HeldPage DEF BufferInv
  <2>2. \A q \in dropped : referenceCount[q] # 0
    BY <1>6, <1>7, HeldPage DEF BufferInv
  <2> QED
    BY <1>6, <1>8, <2>1, <2>2, DereferenceMemory DEF BufferInv
<1>11. TypeInv'
  BY <1>1, <1>10 DEF BufferInv, TypeInv
<1> QED
  BY <1>4, <1>9, <1>10, <1>11, Zenon DEF BufferInv

LEMMA NoMoreBuffersStep ==
    ASSUME BufferInv, NoMoreBuffers
    PROVE  BufferInv'
<1>1. coordinator' \in CoordinatorType /\ coordinator'.pc = "check" /\ coordinator.pc = "noMoreBuffers"
  BY DEF BufferInv, TypeInv, CoordinatorType, NoMoreBuffers
<1>2. destroyer \in DestroyerType /\ destroyer.todo \subseteq DOMAIN buffers
  BY DEF BufferInv, TypeInv, PagesInv, PlaceInv
<1>3. FlowInv' /\ CallsInv'
  BY <1>1 DEF BufferInv, ControlInv, FlowInv, CallsInv, NoMoreBuffers, DriversDone
<1>4. EndInv'
  BY DEF BufferInv, ControlInv, EndInv, Undisturbed, NoMoreBuffers, DriversDone
<1>5. CASE CanAddBuffers(state)
  <2>1. TypeInv'
    BY <1>1, <1>5 DEF BufferInv, TypeInv, NoMoreBuffers, memory
  <2> QED
    BY <1>2, <1>3, <1>4, <1>5, <2>1, ControlStep
       DEF NoMoreBuffers, memory, ControlInv, NothingReceived, Undisturbed, BufferInv, PagesInv,
           PlaceInv
<1>6. CASE ~CanAddBuffers(state)
  <2>1. Undisturbed => DOMAIN buffers = Consumer
    BY <1>6 DEF BufferInv, ControlInv, EndInv, CanAddBuffers
  <2> QED
    BY <1>1, <1>2, <1>3, <1>4, <1>6, <2>1, DroppedInitialPages DEF NoMoreBuffers, ControlInv
<1> QED
  BY <1>5, <1>6

LEMMA DestroyNoMoreBuffersStep ==
    ASSUME BufferInv, DestroyNoMoreBuffers
    PROVE  BufferInv'
<1>1. /\ destroyer' \in DestroyerType
      /\ destroyer'.pc = "snapshot" /\ destroyer.pc = "noMoreBuffers"
      /\ destroyer'.todo = destroyer.todo
      /\ destroyer'.cancelled <=> destroyer.cancelled
  BY Zenon DEF BufferInv, TypeInv, DestroyerType, DestroyNoMoreBuffers
<1>2. coordinator \in CoordinatorType /\ destroyer.todo \subseteq DOMAIN buffers
  BY DEF BufferInv, TypeInv, PagesInv, PlaceInv
<1>3. FlowInv' /\ CallsInv'
  BY <1>1, FlowFrame DEF DestroyNoMoreBuffers, DriversDone, BufferInv, TypeInv
<1>4. EndInv'
  BY <1>1 DEF BufferInv, ControlInv, EndInv, Undisturbed, DestroyNoMoreBuffers, DriversDone
<1>5. Undisturbed => DOMAIN buffers = Consumer
  <2>1. IsTerminal(state)
    BY <1>1 DEF BufferInv, ControlInv, FlowInv
  <2> QED
    BY <2>1 DEF BufferInv, ControlInv, EndInv, IsTerminal
<1> QED
  BY <1>1, <1>2, <1>3, <1>4, <1>5, DroppedInitialPages DEF DestroyNoMoreBuffers, ControlInv

LEMMA ForceFreeMemoryStep ==
    ASSUME BufferInv, ForceFreeMemory
    PROVE  BufferInv'
<1>1. /\ destroyer' \in DestroyerType
      /\ destroyer'.pc = "done" /\ destroyer.pc # "idle"
      /\ destroyer'.todo = destroyer.todo
      /\ destroyer'.cancelled <=> destroyer.cancelled
  BY Zenon DEF BufferInv, TypeInv, DestroyerType, ForceFreeMemory
<1>2. FlowInv' /\ CallsInv'
  BY <1>1, FlowFrame DEF ForceFreeMemory, DriversDone, BufferInv, TypeInv
<1>3. EndInv'
  BY <1>1 DEF BufferInv, ControlInv, EndInv, Undisturbed, ForceFreeMemory, DriversDone
<1>4. PagesInv'
  BY <1>1, PagesFrame
     DEF ForceFreeMemory, DriversKeepPages, Unshared, NothingReceived, Undisturbed, BufferInv,
         PagesInv, PlaceInv
<1>5. ReferencesAreExact'
  BY ReferencesFrame DEF BufferInv, ForceFreeMemory
<1>6. bufferedBytes' = 0 /\ memoryClosed'
  BY DEF ForceFreeMemory
<1>7. MemoryIsAccounted'
  BY <1>6 DEF MemoryIsAccounted
<1>8. TypeInv'
  <2>1. memoryClosed' \in BOOLEAN
    BY DEF ForceFreeMemory
  <2> QED
    BY <1>1, <1>6, <2>1 DEF BufferInv, TypeInv, ForceFreeMemory
<1> QED
  BY <1>2, <1>3, <1>4, <1>5, <1>7, <1>8 DEF BufferInv, ControlInv

-----------------------------------------------------------------------------
(* A consumer's read. *)

\* processRead returns the first pages of the buffer, and at least one if there is
\* any.
LEMMA FittingPagesIsPrefix ==
    ASSUME NEW ps \in Seq(Page)
    PROVE  \E n \in 0..Len(ps) :
              /\ FittingPages(ps) = SubSeq(ps, 1, n)
              /\ ps # << >> => n >= 1
<1> DEFINE fits == {n \in 0..Len(ps) : n <= 1 \/ Bytes(SubSeq(ps, 1, n)) <= MaxSize}
           last == CHOOSE n \in fits : \A m \in fits : m <= n
<1>1. Len(ps) \in Nat /\ 0 \in fits /\ (ps # << >> => 1 \in fits)
  OBVIOUS
<1>2. \E m \in fits : \A k \in fits : k <= m
  <2>1. fits \in SUBSET (0..Len(ps)) /\ fits # {}
    BY <1>1
  <2> HIDE DEF fits
  <2> QED
    BY <1>1, <2>1, BoundedSetHasMaximum, Zenon
<1>3. last \in fits /\ \A m \in fits : m <= last
  <2> HIDE DEF fits
  <2> QED
    BY <1>2
<1>4. ps # << >> => last >= 1
  <2> HIDE DEF fits, last
  <2> QED
    BY <1>1, <1>3
<1>5. FittingPages(ps) = SubSeq(ps, 1, last)
  BY DEF FittingPages
<1> QED
  BY <1>3, <1>4, <1>5, Zenon

LEMMA PartOfPages ==
    ASSUME NEW S, NEW s \in Seq(S), NEW m \in 0..Len(s), NEW n \in m..Len(s)
    PROVE  /\ SubSeq(s, m + 1, n) \in Seq(S)
           /\ Len(SubSeq(s, m + 1, n)) = n - m
           /\ \A i \in 1..(n - m) : SubSeq(s, m + 1, n)[i] = s[m + i]
<1>1. Len(s) \in Nat /\ \A i \in 1..Len(s) : s[i] \in S
  BY LenProperties
<1>2. m + 1 \in Int /\ n \in Int /\ \A i \in (m + 1)..n : s[i] \in S
  BY <1>1
<1>3. /\ SubSeq(s, m + 1, n) \in Seq(S)
      /\ Len(SubSeq(s, m + 1, n)) = IF m + 1 <= n THEN n - (m + 1) + 1 ELSE 0
      /\ \A i \in 1..(n - (m + 1) + 1) : SubSeq(s, m + 1, n)[i] = s[(m + 1) + i - 1]
  BY <1>2, SubSeqProperties
<1> QED
  BY <1>1, <1>3

\* The buffer b becomes a when the pages before token are acknowledged, and read is
\* what the reader is told.
IsRead(b, token, a, read) ==
    /\ a \in ClientBufferType
    /\ a.pages = SubSeq(b.pages, token - b.currentSequenceId + 1, Len(b.pages))
    /\ a.currentSequenceId = token
    /\ a.noMorePages <=> b.noMorePages
    /\ ~a.destroyed
    /\ \E n \in 0..Len(a.pages) : read.serializedPages = SubSeq(a.pages, 1, n)
    /\ read.bufferComplete \in BOOLEAN
    /\ read.bufferComplete =>
         a.pages = << >> /\ a.noMorePages /\ read.serializedPages = << >>

\* An acknowledgement within the window and the read that follows.
LEMMA ReadFields ==
    ASSUME NEW b \in ClientBufferType, NEW token \in Nat, ~b.destroyed,
           b.currentSequenceId <= token, token <= b.currentSequenceId + Len(b.pages)
    PROVE  IsRead(b, token, AcknowledgePages(b, token),
                  ProcessRead(AcknowledgePages(b, token), token))
<1> DEFINE k == token - b.currentSequenceId
           rest == SubSeq(b.pages, k + 1, Len(b.pages))
           b1 == [b EXCEPT !.pages = rest]
<1>1. b.pages \in Seq(Page) /\ b.currentSequenceId \in Nat /\ Len(b.pages) \in Nat
  BY LenProperties DEF ClientBufferType
<1>2. k \in 0..Len(b.pages) /\ Len(b.pages) \in k..Len(b.pages)
  BY <1>1
<1> HIDE DEF k
<1>3. rest \in Seq(Page)
  BY <1>1, <1>2, PartOfPages
<1> HIDE DEF rest
<1>4. /\ b1 \in ClientBufferType /\ b1.pages = rest
      /\ (b1.noMorePages <=> b.noMorePages) /\ ~b1.destroyed
  BY <1>3 DEF ClientBufferType
<1>5. ~AcknowledgeIgnored(b, token)
  BY <1>1 DEF AcknowledgeIgnored
<1>6. AcknowledgePages(b, token) = [b1 EXCEPT !.currentSequenceId = token]
  BY <1>5 DEF AcknowledgePages, rest, k
<1> HIDE DEF b1
<1>7. PICK a : a = AcknowledgePages(b, token)
  OBVIOUS
<1>8. /\ a \in ClientBufferType /\ a.pages = rest /\ a.currentSequenceId = token
      /\ (a.noMorePages <=> b.noMorePages) /\ ~a.destroyed
  BY <1>4, <1>6, <1>7 DEF ClientBufferType
<1>9. PICK read : read = ProcessRead(a, token)
  OBVIOUS
<1>10. CASE AtEnd(a)
  <2>1. read.serializedPages = << >> /\ read.bufferComplete = TRUE
    BY <1>8, <1>9, <1>10 DEF ProcessRead, EmptyResults, BufferResult
  <2>2. SubSeq(a.pages, 1, 0) = << >> /\ 0 \in 0..Len(a.pages)
    BY <1>8, LenProperties, SubSeqEmpty DEF ClientBufferType
  <2> QED
    BY <1>7, <1>8, <1>9, <1>10, <2>1, <2>2, Zenon DEF IsRead, AtEnd, rest, k
<1>11. CASE ~AtEnd(a)
  <2>0. ~(token < a.currentSequenceId)
    BY <1>8
  <2>1. read.serializedPages = FittingPages(a.pages) /\ read.bufferComplete = FALSE
    <3>1. PICK fit : fit = FittingPages(a.pages)
      OBVIOUS
    <3>2. read = BufferResult(a, token, token + Len(fit), FALSE, fit)
      BY <1>9, <1>11, <2>0, <3>1, Zenon DEF ProcessRead
    <3> QED
      BY <3>1, <3>2 DEF BufferResult
  <2>2. PICK n \in 0..Len(a.pages) : FittingPages(a.pages) = SubSeq(a.pages, 1, n)
    BY <1>8, FittingPagesIsPrefix DEF ClientBufferType
  <2> QED
    BY <1>7, <1>8, <1>9, <2>1, <2>2, Zenon DEF IsRead, rest, k
<1> QED
  BY <1>10, <1>11

LEMMA IgnoredReadFields ==
    ASSUME NEW b \in ClientBufferType, NEW token \in Nat,
           b.destroyed, b.noMorePages, b.pages = << >>
    PROVE  /\ AcknowledgePages(b, token) = b
           /\ ProcessRead(b, token).serializedPages = << >>
           /\ ProcessRead(b, token).bufferComplete \in BOOLEAN
<1>1. AcknowledgePages(b, token) = b
  BY DEF AcknowledgePages, AcknowledgeIgnored
<1>2. CASE token < b.currentSequenceId
  BY <1>1, <1>2 DEF ProcessRead, EmptyResults, BufferResult
<1>3. CASE ~(token < b.currentSequenceId)
  BY <1>1, <1>3 DEF ProcessRead, EmptyResults, BufferResult, AtEnd
<1> QED
  BY <1>1, <1>2, <1>3


\* A client buffer gives back the pages that are acknowledged.
LEMMA DroppedPages ==
    ASSUME BufferInv, NEW c \in DOMAIN buffers, NEW b, b = buffers[c],
           NEW new \in ClientBufferType,
           DOMAIN buffers' = DOMAIN buffers, buffers'[c] = new,
           \A x \in DOMAIN buffers \ {c} : buffers'[x] = buffers[x],
           Range(new.pages) \subseteq Range(b.pages),
           DereferencePage(Range(b.pages) \ Range(new.pages)),
           UNCHANGED <<driver, initialPagesForNewBuffers, memoryClosed>>
    PROVE  /\ ReferencesAreExact' /\ MemoryIsAccounted'
           /\ referenceCount' \in [Page -> Int] /\ bufferedBytes' \in Int
<1> DEFINE dropped == Range(b.pages) \ Range(new.pages)
<1>1. c \in Consumer /\ b \in ClientBufferType
  BY DEF BufferInv, TypeInv
<1>2. \A q \in Page : Holders(q)' = IF q \in dropped THEN Holders(q) \ {c} ELSE Holders(q)
  <2>1. \A q \in Page : \A x \in DOMAIN buffers :
          q \in Range(buffers'[x].pages)
            <=> q \in Range(buffers[x].pages) /\ ~(x = c /\ q \in dropped)
    OBVIOUS
  <2>2. c \notin Driver /\ c # "initialPages"
    BY <1>1, HoldersAssumption
  <2>3. ASSUME NEW q \in Page, NEW x, x # c PROVE x \in Holders(q)' <=> x \in Holders(q)
    BY <2>1, <2>3, Zenon DEF Holders
  <2>4. ASSUME NEW q \in Page PROVE c \in Holders(q)' <=> c \in Holders(q) /\ q \notin dropped
    BY <2>1, <2>2, Zenon DEF Holders
  <2> HIDE DEF dropped
  <2>5. ASSUME NEW q \in Page, q \in dropped PROVE Holders(q)' = Holders(q) \ {c}
    <3>1. ASSUME NEW x PROVE x \in Holders(q)' <=> x \in Holders(q) \ {c}
      BY <2>3, <2>4, <2>5, Zenon
    <3> QED
      BY <3>1, Zenon
  <2>6. ASSUME NEW q \in Page, q \notin dropped PROVE Holders(q)' = Holders(q)
    <3>1. ASSUME NEW x PROVE x \in Holders(q)' <=> x \in Holders(q)
      BY <2>3, <2>4, <2>6, Zenon
    <3> QED
      BY <3>1
  <2> QED
    BY <2>5, <2>6, Zenon
<1>3. dropped \in SUBSET Page
  BY <1>1, LenProperties DEF ClientBufferType, Range
<1>4. \A q \in dropped : c \in Holders(q)
  BY DEF Holders
<1>5. DereferencePage(dropped)
  OBVIOUS
<1> HIDE DEF dropped
<1>6. \A q \in Page : referenceCount'[q] = IF q \in dropped THEN referenceCount[q] - 1
                                           ELSE referenceCount[q]
  BY <1>5 DEF DereferencePage
<1>7. ReferencesAreExact'
  BY <1>2, <1>4, <1>6, HoldersChange, Zenon DEF BufferInv
<1>8. \A q \in Page : referenceCount[q] \in Nat
  BY HeldPage, Zenon DEF BufferInv
<1>9. \A q \in dropped : referenceCount[q] # 0
  BY <1>3, <1>4, HeldPage DEF BufferInv
<1> QED
  BY <1>3, <1>5, <1>7, <1>8, <1>9, DereferenceMemory DEF BufferInv

\* A read of a buffer that was destroyed, which tells nothing of a task that is
\* well: nobody reads there.
LEMMA GetDestroyedStep ==
    ASSUME BufferInv, NEW c \in Consumer, Get(c), buffers[c].destroyed
    PROVE  BufferInv'
<1>1. PICK b : b = buffers[c]
  OBVIOUS
<1>2. PICK received : received = consumer[c].received
  OBVIOUS
<1>3. c \in DOMAIN buffers /\ consumer[c].pc = "reading"
  BY Zenon DEF Get
<1>4. b \in ClientBufferType /\ b.destroyed /\ b.noMorePages /\ b.pages = << >>
  BY <1>1, <1>3 DEF BufferInv, TypeInv, PagesInv, PlaceInv, PlacedOnce
<1>5. received \in Seq(Page) /\ Len(received) \in Nat
  BY <1>2, LenProperties DEF BufferInv, TypeInv, ConsumerType
<1>6. PICK read : read = ProcessRead(b, Len(received))
  OBVIOUS
<1>7. /\ AcknowledgePages(b, Len(received)) = b
      /\ read.serializedPages = << >> /\ read.bufferComplete \in BOOLEAN
  BY <1>4, <1>5, <1>6, IgnoredReadFields
<1>8. /\ PutBuffer(c, b) /\ DereferencePage(Range(b.pages) \ Range(b.pages))
      /\ consumer' = [consumer EXCEPT ![c].received = @ \o read.serializedPages,
                                      ![c].complete = read.bufferComplete]
      /\ UNCHANGED <<state, outputBuffers, lock, initialPagesForNewBuffers, memoryClosed,
                     produced, driver, finisher, coordinator, destroyer>>
  BY <1>1, <1>2, <1>6, <1>7, Zenon DEF Get
<1>9. /\ DOMAIN buffers' = DOMAIN buffers \cup {c} /\ DOMAIN buffers' \subseteq Consumer
      /\ buffers'[c] = b
      /\ \A x \in DOMAIN buffers \ {c} : buffers'[x] = buffers[x]
      /\ buffers' \in [DOMAIN buffers' -> ClientBufferType]
  BY <1>4, <1>8, PutBufferEffect, Zenon DEF BufferInv
<1>10. received \o << >> = received
  BY <1>5, ConcatEmptySeq
<1>11. /\ consumer' \in [Consumer -> ConsumerType] /\ consumer'[c].received = received
       /\ \A x \in Consumer \ {c} : consumer'[x] = consumer[x]
  BY <1>2, <1>5, <1>7, <1>8, <1>10, Zenon DEF BufferInv, TypeInv, ConsumerType
<1>12. ~Undisturbed
  BY <1>1, <1>3, <1>4 DEF BufferInv, ControlInv, EndInv
<1>13. PagesInv'
  <2>1. PlacedOnce(c)'
    BY <1>1, <1>3, <1>8, <1>9 DEF BufferInv, PagesInv, PlaceInv, PlacedOnce, Pending, Unshared
  <2>2. ReceivedOnce(c)'
    <3>1. ReceivedOnce(c)
      BY DEF BufferInv, PagesInv, WindowInv
    <3> QED
      BY <1>2, <1>8, <1>11, <3>1, Zenon DEF ReceivedOnce, Pending, Unshared
  <2>3. finisher'.todo \subseteq DOMAIN buffers /\ destroyer'.todo \subseteq DOMAIN buffers
    BY <1>8 DEF BufferInv, PagesInv, PlaceInv
  <2>4. PassedOnlyTo(c)
    BY <1>8 DEF PassedOnlyTo
  <2> QED
    BY <1>4, <1>8, <1>9, <1>11, <1>12, <2>1, <2>2, <2>3, <2>4, OneBufferStep
<1>14. ControlInv'
  BY <1>8, <1>9, <1>11, <1>12, OneBufferControl DEF DriversDone
<1>15. /\ ReferencesAreExact' /\ MemoryIsAccounted'
       /\ referenceCount' \in [Page -> Int] /\ bufferedBytes' \in Int
  BY <1>1, <1>3, <1>4, <1>8, <1>9, DroppedPages, Zenon
<1>16. TypeInv'
  BY <1>8, <1>9, <1>11, <1>15 DEF BufferInv, TypeInv
<1> QED
  BY <1>13, <1>14, <1>15, <1>16 DEF BufferInv


\* Of the pages r a consumer has received the first cur are acknowledged, and the
\* others are the first k of the pages ps in its buffer.
IsWindow(ps, r, cur, k) ==
    /\ ps \in Seq(Page) /\ r \in Seq(Page) /\ IsInjective(ps)
    /\ cur \in Nat /\ k \in 0..Len(ps) /\ Len(r) = cur + k
    /\ \A i \in 1..Len(ps) : cur + i <= Len(r) => r[cur + i] = ps[i]
    /\ {r[i] : i \in 1..cur} \cap Range(ps) = {}

IsPart(s, k, n, t) ==
    /\ t \in Seq(Page) /\ Len(t) = n
    /\ \A i \in 1..n : t[i] = s[k + i]

\* The window after all of r is acknowledged.
LEMMA AcknowledgedWindow ==
    ASSUME NEW ps, NEW r, NEW cur, NEW k, NEW rest,
           IsWindow(ps, r, cur, k), IsPart(ps, k, Len(ps) - k, rest)
    PROVE  /\ IsInjective(rest) /\ Range(rest) \subseteq Range(ps)
           /\ Range(r) \cap Range(rest) = {}
           /\ {r[i] : i \in 1..cur} \cup Range(ps) \subseteq Range(r) \cup Range(rest)
<1> USE DEF IsWindow, IsPart
<1>1. /\ DOMAIN r = 1..Len(r) /\ Len(r) \in Nat /\ DOMAIN ps = 1..Len(ps) /\ Len(ps) \in Nat
  BY LenProperties
<1>2. /\ IsInjective(rest) /\ Range(rest) \subseteq Range(ps)
      /\ \A i \in 1..k : ps[i] \notin Range(rest)
      /\ \A x \in Range(ps) : x \in Range(rest) \/ \E i \in 1..k : x = ps[i]
  <2>1. DOMAIN ps = 1..Len(ps) /\ DOMAIN rest = 1..Len(rest) /\ Len(ps) \in Nat /\ Len(rest) \in Nat
    BY LenProperties
  <2>2. \A i \in DOMAIN rest : k + i \in DOMAIN ps /\ rest[i] = ps[k + i]
    BY <2>1
  <2>3. IsInjective(rest)
    <3>1. SUFFICES ASSUME NEW i \in DOMAIN rest, NEW j \in DOMAIN rest, rest[i] = rest[j] PROVE i = j
      BY DEF IsInjective
    <3>2. k + i = k + j
      BY <2>2, <3>1 DEF IsInjective
    <3> QED
      BY <2>1, <3>2
  <2>4. Range(rest) \subseteq Range(ps)
    BY <2>2 DEF Range
  <2>5. ASSUME NEW i \in 1..k PROVE ps[i] \notin Range(rest)
    <3>1. SUFFICES ASSUME NEW j \in DOMAIN rest, ps[i] = rest[j] PROVE FALSE
      BY DEF Range
    <3>2. i \in DOMAIN ps /\ k + j \in DOMAIN ps /\ ps[i] = ps[k + j]
      BY <2>1, <2>2, <3>1
    <3>3. i = k + j
      BY <3>2 DEF IsInjective
    <3> QED
      BY <2>1, <3>3
  <2>6. ASSUME NEW x \in Range(ps) PROVE x \in Range(rest) \/ \E i \in 1..k : x = ps[i]
    <3>1. PICK j \in DOMAIN ps : x = ps[j]
      BY DEF Range
    <3>2. CASE j <= k
      BY <2>1, <3>1, <3>2
    <3>3. CASE j > k
      <4>1. j - k \in DOMAIN rest /\ rest[j - k] = x
        BY <2>1, <3>1, <3>3
      <4> QED
        BY <4>1 DEF Range
    <3> QED
      BY <2>1, <3>2, <3>3
  <2> QED
    BY <2>3, <2>4, <2>5, <2>6
<1>3. \A i \in 1..k : cur + i \in 1..Len(r) /\ r[cur + i] = ps[i]
  BY <1>1
<1>4. Range(r) \cap Range(rest) = {}
  <2>1. SUFFICES ASSUME NEW i \in 1..Len(r), r[i] \in Range(rest) PROVE FALSE
    BY <1>1 DEF Range
  <2>2. CASE i <= cur
    BY <1>2, <2>1, <2>2
  <2>3. CASE i > cur
    <3>1. i - cur \in 1..k /\ cur + (i - cur) = i
      BY <1>1, <2>3
    <3>2. r[i] = ps[i - cur]
      BY <1>3, <3>1
    <3> QED
      BY <1>2, <2>1, <3>1, <3>2
  <2> QED
    BY <1>1, <2>2, <2>3
<1>5. {r[i] : i \in 1..cur} \subseteq Range(r)
  <2>1. \A i \in 1..cur : i \in DOMAIN r
    BY <1>1
  <2> QED
    BY <2>1, Zenon DEF Range
<1>6. \A i \in 1..k : ps[i] \in Range(r)
  BY <1>1, <1>3, Zenon DEF Range
<1>7. Range(ps) \subseteq Range(r) \cup Range(rest)
  BY <1>2, <1>6, ZenonT(30)
<1> QED
  BY <1>2, <1>4, <1>5, <1>7, Zenon

\* What a consumer has received once it has read the first n pages of the window.
IsReceived(r, rest, n, r2) ==
    /\ r2 \in Seq(Page) /\ IsInjective(r2)
    /\ Range(r2) \subseteq Range(r) \cup Range(rest)
    /\ Len(r2) = Len(r) + n
    /\ \A i \in 1..n : r2[Len(r) + i] = rest[i]
    /\ {r2[i] : i \in 1..Len(r)} = Range(r)

LEMMA ReadWindow ==
    ASSUME NEW r \in Seq(Page), NEW rest \in Seq(Page), IsInjective(r), IsInjective(rest),
           Range(r) \cap Range(rest) = {},
           NEW n \in 0..Len(rest), NEW more, IsPart(rest, 0, n, more)
    PROVE  IsReceived(r, rest, n, r \o more)
<1>0. more \in Seq(Page) /\ Len(more) = n /\ \A i \in 1..n : more[i] = rest[i]
  BY DEF IsPart
<1>1. /\ DOMAIN r = 1..Len(r) /\ Len(r) \in Nat /\ DOMAIN rest = 1..Len(rest) /\ Len(rest) \in Nat
      /\ DOMAIN more = 1..n /\ n \in Nat
  BY <1>0, LenProperties
<1>2. \A i \in DOMAIN more : i \in DOMAIN rest /\ more[i] = rest[i]
  BY <1>0, <1>1
<1>3. IsInjective(more)
  BY <1>2, Zenon DEF IsInjective
<1>4. Range(more) \subseteq Range(rest)
  BY <1>2 DEF Range
<1>5. Range(r) \cap Range(more) = {}
  BY <1>4
<1>6. /\ r \o more \in Seq(Page) /\ Range(r \o more) = Range(r) \cup Range(more)
      /\ IsInjective(r \o more)
  <2>1. r \o more \in Seq(Page) /\ Range(r \o more) = Range(r) \cup Range(more)
    BY <1>0, ConcatPages
  <2>2. IsInjective(r) /\ IsInjective(more) /\ Range(r) \cap Range(more) = {}
          => IsInjective(r \o more)
    BY <1>0, ConcatPages, Zenon
  <2> QED
    BY <1>3, <1>5, <2>1, <2>2
<1>7. PICK r2 : r2 = r \o more
  BY Zenon
<1>8. /\ Len(r2) = Len(r) + n
      /\ \A i \in 1..(Len(r) + n) : r2[i] = IF i <= Len(r) THEN r[i] ELSE more[i - Len(r)]
  BY <1>0, <1>7, ConcatProperties, ZenonT(30)
<1>9. {r2[i] : i \in 1..Len(r)} = Range(r)
  <2>1. \A i \in 1..Len(r) : r2[i] = r[i]
    BY <1>1, <1>8
  <2> QED
    BY <1>1, <2>1 DEF Range
<1>10. ASSUME NEW i \in 1..n PROVE r2[Len(r) + i] = rest[i]
  <2>1. /\ Len(r) + i \in 1..(Len(r) + n) /\ ~(Len(r) + i <= Len(r))
        /\ (Len(r) + i) - Len(r) = i
    BY <1>1
  <2> QED
    BY <1>0, <1>8, <2>1
<1>11. Range(r) \cup Range(more) \subseteq Range(r) \cup Range(rest)
  BY <1>4
<1> QED
  BY <1>6, <1>7, <1>8, <1>9, <1>10, <1>11, ZenonT(30) DEF IsReceived


\* A read of a buffer that has not been destroyed: b is the buffer before it and
\* new after it, and the consumer gets more.
LEMMA GetLiveStep ==
    ASSUME BufferInv, NEW c \in Consumer, Get(c), ~buffers[c].destroyed
    PROVE  BufferInv'
<1>1. PICK b : b = buffers[c]
  OBVIOUS
<1>2. PICK r : r = consumer[c].received
  OBVIOUS
<1>3. PICK cur : cur = b.currentSequenceId
  OBVIOUS
<1>4. /\ c \in DOMAIN buffers /\ b \in ClientBufferType /\ b.pages \in Seq(Page)
      /\ Len(b.pages) \in Nat /\ cur \in Nat /\ r \in Seq(Page) /\ Len(r) \in Nat
  BY <1>1, <1>2, <1>3, LenProperties DEF BufferInv, TypeInv, ConsumerType, ClientBufferType, Get
<1>5. /\ PlacedOnce(c) /\ ReceivedOnce(c) /\ InWindow(c)
  BY <1>4 DEF BufferInv, PagesInv, PlaceInv, WindowInv
<1>6. /\ cur <= Len(r) /\ Len(r) <= cur + Len(b.pages)
      /\ \A i \in 1..Len(b.pages) : cur + i <= Len(r) => r[cur + i] = b.pages[i]
      /\ {r[i] : i \in 1..cur} \cap Range(b.pages) = {}
      /\ Acknowledged(c) = {r[i] : i \in 1..cur}
  BY <1>1, <1>2, <1>3, <1>5 DEF InWindow, Acknowledged
<1>7. PICK new : new = AcknowledgePages(b, Len(r))
  OBVIOUS
<1>8. PICK read : read = ProcessRead(new, Len(r))
  OBVIOUS
<1>9. PICK more : more = read.serializedPages
  OBVIOUS
<1>10. IsRead(b, Len(r), new, read)
  <2>1. ~b.destroyed /\ b.currentSequenceId <= Len(r) /\ Len(r) <= b.currentSequenceId + Len(b.pages)
    BY <1>1, <1>3, <1>6
  <2> QED
    BY <1>4, <1>7, <1>8, <2>1, ReadFields, Zenon
<1>11. /\ PutBuffer(c, new) /\ DereferencePage(Range(b.pages) \ Range(new.pages))
       /\ consumer' = [consumer EXCEPT ![c].received = @ \o more,
                                       ![c].complete = read.bufferComplete]
       /\ UNCHANGED <<state, outputBuffers, lock, initialPagesForNewBuffers, memoryClosed,
                      produced, driver, finisher, coordinator, destroyer>>
  BY <1>1, <1>2, <1>7, <1>8, <1>9, Zenon DEF Get
<1>12. PICK k \in 0..Len(b.pages) : k = Len(r) - cur
  <2>1. Len(r) - cur \in 0..Len(b.pages)
    BY <1>4, <1>6
  <2> QED
    BY <2>1, Zenon
<1>13. PICK rest : rest = new.pages
  OBVIOUS
<1>14. IsPart(b.pages, k, Len(b.pages) - k, rest) /\ rest \in Seq(Page) /\ Len(rest) \in Nat
  <2>1. PICK ps \in Seq(Page) : ps = b.pages
    BY <1>4, Zenon
  <2>2. rest = SubSeq(ps, k + 1, Len(ps)) /\ k \in 0..Len(ps) /\ Len(ps) \in k..Len(ps)
    BY <1>3, <1>4, <1>10, <1>12, <1>13, <2>1 DEF IsRead
  <2>3. /\ SubSeq(ps, k + 1, Len(ps)) \in Seq(Page)
        /\ Len(SubSeq(ps, k + 1, Len(ps))) = Len(ps) - k
        /\ \A i \in 1..(Len(ps) - k) : SubSeq(ps, k + 1, Len(ps))[i] = ps[k + i]
    BY <2>2, PartOfPages, Zenon
  <2>4. IsPart(ps, k, Len(ps) - k, rest)
    BY <2>2, <2>3, Zenon DEF IsPart
  <2> QED
    BY <2>1, <2>4, LenProperties DEF IsPart
<1>15. IsWindow(b.pages, r, cur, k)
  <2>1. IsInjective(b.pages)
    BY <1>1, <1>5, Zenon DEF PlacedOnce
  <2>2. Len(r) = cur + k
    BY <1>4, <1>12
  <2> QED
    BY <1>4, <1>6, <2>1, <2>2, Zenon DEF IsWindow
<1>16. /\ IsInjective(rest) /\ Range(rest) \subseteq Range(b.pages)
       /\ Range(r) \cap Range(rest) = {}
       /\ {r[i] : i \in 1..cur} \cup Range(b.pages) \subseteq Range(r) \cup Range(rest)
  BY <1>14, <1>15, AcknowledgedWindow, Zenon
<1>17. PICK n \in 0..Len(rest) : more = SubSeq(rest, 1, n)
  BY <1>9, <1>10, <1>13, Zenon DEF IsRead
<1>18. IsPart(rest, 0, n, more) /\ more \in Seq(Page)
  <2>1. 0 \in 0..Len(rest) /\ 0 + 1 = 1 /\ n - 0 = n
    BY <1>14
  <2>2. /\ SubSeq(rest, 0 + 1, n) \in Seq(Page) /\ Len(SubSeq(rest, 0 + 1, n)) = n - 0
        /\ \A i \in 1..(n - 0) : SubSeq(rest, 0 + 1, n)[i] = rest[0 + i]
    BY <1>14, <2>1, PartOfPages
  <2> QED
    BY <1>17, <2>1, <2>2, Zenon DEF IsPart
<1>19. PICK r2 : r2 = r \o more
  BY Zenon
<1>20. IsReceived(r, rest, n, r2)
  <2>1. IsInjective(r)
    BY <1>2, <1>5 DEF ReceivedOnce
  <2> QED
    BY <1>4, <1>14, <1>16, <1>18, <1>19, <2>1, ReadWindow, Zenon
<1>21. /\ DOMAIN buffers' = DOMAIN buffers \cup {c} /\ DOMAIN buffers' \subseteq Consumer
       /\ buffers'[c] = new
       /\ \A x \in DOMAIN buffers \ {c} : buffers'[x] = buffers[x]
       /\ buffers' \in [DOMAIN buffers' -> ClientBufferType]
  BY <1>10, <1>11, PutBufferEffect, Zenon DEF BufferInv, IsRead
<1>22. PICK complete \in BOOLEAN : complete = read.bufferComplete
  BY <1>10, Zenon DEF IsRead
<1>23. /\ consumer' \in [Consumer -> ConsumerType] /\ consumer'[c].received = r2
       /\ consumer'[c].complete <=> complete
       /\ \A x \in Consumer \ {c} : consumer'[x] = consumer[x]
  <2>1. PICK one \in ConsumerType : one = consumer[c]
    BY DEF BufferInv, TypeInv
  <2> DEFINE one1 == [one EXCEPT !.received = r2]
             one2 == [one1 EXCEPT !.complete = complete]
  <2>2. consumer' = [consumer EXCEPT ![c] = one2]
    BY <1>2, <1>11, <1>19, <1>22, <2>1, Zenon DEF BufferInv, TypeInv
  <2>3. one1 \in ConsumerType /\ one1.received = r2
    BY <1>20 DEF ConsumerType, IsReceived
  <2> HIDE DEF one1
  <2>4. one2 \in ConsumerType /\ one2.received = r2 /\ (one2.complete <=> complete)
    BY <2>3 DEF ConsumerType
  <2> HIDE DEF one2
  <2> QED
    BY <2>2, <2>4 DEF BufferInv, TypeInv
<1>24. PlacedOnce(c)'
  <2>1. IsInjective(rest) /\ Range(rest) \subseteq Range(b.pages) /\ ~new.destroyed
    BY <1>10, <1>16, Zenon DEF IsRead
  <2>2. \A d \in Driver : Pending(d, c)' <=> Pending(d, c)
    BY <1>11 DEF Pending, Unshared
  <2> QED
    BY <1>1, <1>5, <1>11, <1>13, <1>21, <2>1, <2>2 DEF PlacedOnce
<1>25. ReceivedOnce(c)'
  <2>1. Range(r2) \subseteq Range(r) \cup Range(b.pages) /\ IsInjective(r2)
    BY <1>16, <1>20 DEF IsReceived
  <2>2. \A d \in Driver : Pending(d, c)' <=> Pending(d, c)
    BY <1>11 DEF Pending, Unshared
  <2> QED
    BY <1>1, <1>2, <1>5, <1>11, <1>23, <2>1, <2>2, Zenon DEF PlacedOnce, ReceivedOnce
<1>26. Acknowledged(c)' = Range(r)
  BY <1>10, <1>20, <1>21, <1>23 DEF Acknowledged, IsRead, IsReceived
<1>27. InWindow(c)'
  <2>1. new.currentSequenceId = Len(r) /\ Len(r2) = Len(r) + n
    BY <1>10, <1>20 DEF IsRead, IsReceived
  <2>2. Len(r) <= Len(r2) /\ Len(r2) <= Len(r) + Len(rest)
    BY <1>4, <1>14, <2>1
  <2>3. \A i \in 1..Len(rest) : Len(r) + i <= Len(r2) => r2[Len(r) + i] = rest[i]
    <3>1. \A i \in 1..Len(rest) : Len(r) + i <= Len(r2) => i \in 1..n
      BY <1>4, <1>14, <2>1
    <3> QED
      BY <1>20, <3>1 DEF IsReceived
  <2>4. Range(r) \cap Range(rest) = {}
    BY <1>16
  <2> QED
    BY <1>13, <1>21, <1>23, <1>26, <2>1, <2>2, <2>3, <2>4, Zenon DEF InWindow
<1>28. ASSUME Undisturbed
       PROVE  /\ Covered(c)'
              /\ complete => DriversDone /\ Range(r2) = 1..produced
  <2>1. Covered(c) /\ (b.noMorePages => DriversDone)
    BY <1>1, <1>4, <1>28 DEF BufferInv, PagesInv, CoverInv, ControlInv, EndInv
  <2>2. \A d \in Driver : driver'[d].page = driver[d].page /\ (Pending(d, c)' <=> Pending(d, c))
    BY <1>11 DEF Pending, Unshared
  <2>3. \A p \in 1..produced : \/ p \in Range(r) \cup Range(rest)
                               \/ \E d \in Driver : driver[d].page = p /\ Pending(d, c)
    BY <1>1, <1>6, <1>16, <2>1, Zenon DEF Covered
  <2>4. Covered(c)'
    BY <1>11, <1>13, <1>21, <1>26, <2>2, <2>3 DEF Covered
  <2>5. ASSUME complete PROVE DriversDone /\ Range(r2) = 1..produced
    <3>1. rest = << >> /\ b.noMorePages /\ more = << >>
      BY <1>9, <1>10, <1>13, <1>22, <2>5, Zenon DEF IsRead
    <3>2. DriversDone /\ \A d \in Driver : ~Pending(d, c)
      BY <2>1, <3>1 DEF DriversDone, Pending, Unshared
    <3>3. r2 = r
      BY <1>4, <1>19, <3>1, ConcatEmptySeq
    <3>4. Range(rest) = {}
      BY <3>1 DEF Range
    <3>5. Range(r) \subseteq 1..produced
      BY <1>2, <1>5 DEF ReceivedOnce
    <3> QED
      BY <2>3, <3>2, <3>3, <3>4, <3>5, Zenon
  <2> QED
    BY <2>4, <2>5
<1>29. PagesInv'
  <2>1. finisher'.todo \subseteq DOMAIN buffers /\ destroyer'.todo \subseteq DOMAIN buffers
    BY <1>11 DEF BufferInv, PagesInv, PlaceInv
  <2>2. PassedOnlyTo(c)
    BY <1>11 DEF PassedOnlyTo
  <2> QED
    BY <1>11, <1>21, <1>23, <1>24, <1>25, <1>27, <1>28, <2>1, <2>2, OneBufferStep, Zenon
<1>30. ControlInv'
  <2>1. Undisturbed => /\ state # "FINISHED"
                       /\ new.noMorePages => DriversDone
                       /\ ~new.destroyed
    BY <1>1, <1>4, <1>10, Zenon DEF BufferInv, ControlInv, EndInv, IsRead
  <2> QED
    BY <1>11, <1>21, <1>23, <2>1, OneBufferControl DEF DriversDone
<1>31. /\ ReferencesAreExact' /\ MemoryIsAccounted'
       /\ referenceCount' \in [Page -> Int] /\ bufferedBytes' \in Int
  <2>1. new \in ClientBufferType /\ Range(new.pages) \subseteq Range(b.pages)
    BY <1>10, <1>13, <1>16, Zenon DEF IsRead
  <2>2. DOMAIN buffers' = DOMAIN buffers
    BY <1>4, <1>21, Zenon
  <2> QED
    BY <1>1, <1>4, <1>11, <1>21, <2>1, <2>2, DroppedPages, Zenon
<1>32. TypeInv'
  BY <1>11, <1>21, <1>23, <1>31 DEF BufferInv, TypeInv
<1> QED
  BY <1>29, <1>30, <1>31, <1>32 DEF BufferInv

LEMMA GetStep ==
    ASSUME BufferInv, NEW c \in Consumer, Get(c)
    PROVE  BufferInv'
BY GetDestroyedStep, GetLiveStep


-----------------------------------------------------------------------------
(* All steps of the buffer. *)

LEMMA EnqueueStep ==
    ASSUME BufferInv, NEW d \in Driver, Enqueue(d)
    PROVE  BufferInv'
BY StartEnqueueStep, ReserveMemoryStep, SnapshotForEnqueueStep, EnqueueInBufferStep,
   EndEnqueueStep, Zenon DEF Enqueue

LEMMA SetOutputBuffersStep ==
    ASSUME BufferInv, SetOutputBuffers
    PROVE  BufferInv'
BY AcceptOutputBuffersStep, AddDeclaredBufferStep, SetOutputBuffersThrowsStep,
   ToNoMoreBuffersStep, NoMorePagesToFlushingStep, NoMoreBuffersStep,
   SetOutputBuffersReadsStateStep, EndSetOutputBuffersStep, Zenon DEF SetOutputBuffers

\* Every step of a call that has begun keeps the invariant.
LEMMA BufferNextStep ==
    ASSUME BufferInv, BufferNext
    PROVE  BufferInv'
<1>1. ASSUME NEW c \in Consumer,
             \/ SetNoMorePagesInBuffer(c) \/ DestroyBuffer(c)
             \/ CreateBuffer(c) \/ Get(c) \/ Abort(c)
             \/ AbortReadsState(c) \/ EndAbort(c)
      PROVE  BufferInv'
  BY <1>1, SetNoMorePagesInBufferStep, DestroyBufferStep, CreateBufferStep, GetStep, AbortStep,
     AbortReadsStateStep, EndAbortStep, Zenon
<1>2. CASE ToFlushing \/ SnapshotForNoMorePages \/ EndSetNoMorePages
  BY <1>2, ToFlushingStep, SnapshotForNoMorePagesStep, EndSetNoMorePagesStep, Zenon
<1>3. CASE DestroyNoMoreBuffers \/ SnapshotForDestroy \/ ForceFreeMemory
  BY <1>3, DestroyNoMoreBuffersStep, SnapshotForDestroyStep, ForceFreeMemoryStep, Zenon
<1> QED
  BY <1>1, <1>2, <1>3, EnqueueStep, SetOutputBuffersStep, Zenon DEF BufferNext

LEMMA StutterStep ==
    ASSUME BufferInv, UNCHANGED vars
    PROVE  BufferInv'
<1>1. UNCHANGED <<buffers, initialPagesForNewBuffers, produced, driver, memory, memoryClosed>>
  BY DEF vars
<1>2. TypeInv'
  BY DEF BufferInv, TypeInv, vars, memory
<1>3. FlowInv' /\ CallsInv'
  BY Zenon DEF BufferInv, ControlInv, FlowInv, CallsInv, vars, DriversDone
<1>4. EndInv'
  BY Zenon DEF BufferInv, ControlInv, EndInv, Undisturbed, vars, DriversDone
<1>5. NothingReceived /\ (Undisturbed' => Undisturbed)
  BY DEF vars, NothingReceived, Undisturbed
<1>6. finisher'.todo \subseteq DOMAIN buffers /\ destroyer'.todo \subseteq DOMAIN buffers
  BY Zenon DEF BufferInv, PagesInv, PlaceInv, vars
<1> QED
  BY <1>1, <1>2, <1>3, <1>4, <1>5, <1>6, ControlStep DEF ControlInv

\* What a task sees of the steps of the calls that have begun: no driver ends, a
\* call of setNoMorePages neither begins nor returns, FINISHED is final, and nobody
\* fails or cancels.
TaskSees ==
    /\ \A d \in Driver : driver'[d].pc = "done" <=> driver[d].pc = "done"
    /\ finisher'.pc = finisher.pc \/ {finisher.pc, finisher'.pc} \cap {"idle", "checked"} = {}
    /\ state = "FINISHED" => state' = "FINISHED"
    /\ ~Undisturbed' => ~Undisturbed


LEMMA EnqueueIsSeen ==
    ASSUME TypeInv, NEW d \in Driver, Enqueue(d)
    PROVE  TaskSees
<1>1. UNCHANGED <<state, finisher, destroyer>>
  BY DEF Enqueue, StartEnqueue, ReserveMemory, SnapshotForEnqueue, EnqueueInBuffer, EndEnqueue
<1>2. \A e \in Driver : driver'[e].pc = "done" <=> driver[e].pc = "done"
  <2>1. CASE StartEnqueue(d)
    BY <2>1 DEF TypeInv, DriverType, StartEnqueue
  <2>2. CASE ReserveMemory(d)
    BY <2>2 DEF TypeInv, DriverType, ReserveMemory
  <2>3. CASE SnapshotForEnqueue(d)
    BY <2>3 DEF TypeInv, DriverType, SnapshotForEnqueue
  <2>4. CASE \E c \in Consumer : EnqueueInBuffer(d, c)
    BY <2>4 DEF TypeInv, DriverType, EnqueueInBuffer
  <2>5. CASE EndEnqueue(d)
    BY <2>5 DEF TypeInv, DriverType, EndEnqueue
  <2> QED
    BY <2>1, <2>2, <2>3, <2>4, <2>5, Zenon DEF Enqueue
<1> QED
  BY <1>1, <1>2 DEF TaskSees, Undisturbed

LEMMA CheckFlushCompleteIsSeen ==
    ASSUME BufferInv, NEW seen \in BOOLEAN, CheckFlushComplete(seen)
    PROVE  /\ UNCHANGED driver
           /\ state = "FINISHED" => state' = "FINISHED"
           /\ ~Undisturbed' => ~Undisturbed
<1>1. UNCHANGED driver
  BY DEF CheckFlushComplete
<1>2. \/ state' = state /\ destroyer' = destroyer
      \/ state' = "FINISHED" /\ destroyer' = [pc |-> "noMoreBuffers", todo |-> {}, cancelled |-> FALSE]
  BY CheckFlushCompleteEffect, Zenon
<1> QED
  BY <1>1, <1>2 DEF Undisturbed

LEMMA SetOutputBuffersIsSeen ==
    ASSUME BufferInv, SetOutputBuffers
    PROVE  TaskSees
<1>1. CASE EndSetOutputBuffers
  <2>1. CheckFlushComplete(coordinator.pc = "recheck") /\ UNCHANGED finisher
    BY <1>1 DEF EndSetOutputBuffers
  <2> QED
    BY <2>1, CheckFlushCompleteIsSeen, Zenon DEF TaskSees
<1>2. CASE ~EndSetOutputBuffers
  <2>1. UNCHANGED <<driver, finisher, destroyer>>
    BY <1>2 DEF SetOutputBuffers, AcceptOutputBuffers, AddDeclaredBuffer, SetOutputBuffersThrows,
                ToNoMoreBuffers, NoMorePagesToFlushing, NoMoreBuffers, SetOutputBuffersReadsState
  <2>2. state' = state \/ (state \in {"OPEN", "NO_MORE_PAGES"} /\ state' # "FAILED")
    BY <1>2 DEF SetOutputBuffers, AcceptOutputBuffers, AddDeclaredBuffer, SetOutputBuffersThrows,
                ToNoMoreBuffers, NoMorePagesToFlushing, NoMoreBuffers, SetOutputBuffersReadsState,
                CompareAndSet
  <2> QED
    BY <2>1, <2>2 DEF TaskSees, Undisturbed
<1> QED
  BY <1>1, <1>2

LEMMA BufferNextIsSeen ==
    ASSUME BufferInv, BufferNext
    PROVE  TaskSees
<1>1. CASE \E d \in Driver : Enqueue(d)
  BY <1>1, EnqueueIsSeen DEF BufferInv
<1>2. CASE SetOutputBuffers
  BY <1>2, SetOutputBuffersIsSeen
<1>3. CASE ToFlushing \/ SnapshotForNoMorePages
  BY <1>3 DEF ToFlushing, SnapshotForNoMorePages, CompareAndSet, BufferInv, TypeInv, FinisherType,
              TaskSees, Undisturbed
<1>4. CASE EndSetNoMorePages
  <2>1. \E seen \in BOOLEAN : CheckFlushComplete(seen)
    BY <1>4, Zenon DEF EndSetNoMorePages
  <2>2. finisher.pc \notin {"idle", "checked"} /\ finisher'.pc \notin {"idle", "checked"}
    BY <1>4 DEF EndSetNoMorePages, BufferInv, TypeInv, FinisherType
  <2> QED
    BY <2>1, <2>2, CheckFlushCompleteIsSeen DEF TaskSees
<1>5. CASE DestroyNoMoreBuffers \/ SnapshotForDestroy \/ ForceFreeMemory
  BY <1>5, Zenon DEF DestroyNoMoreBuffers, SnapshotForDestroy, ForceFreeMemory, BufferInv, TypeInv,
              DestroyerType, TaskSees, Undisturbed
<1>6. ASSUME NEW c \in Consumer,
             \/ SetNoMorePagesInBuffer(c) \/ DestroyBuffer(c) \/ CreateBuffer(c)
             \/ Get(c) \/ Abort(c) \/ AbortReadsState(c)
      PROVE  TaskSees
  BY <1>6, Zenon DEF SetNoMorePagesInBuffer, DestroyBuffer, CreateBuffer, Get, Abort, AbortReadsState,
              BufferInv, TypeInv, FinisherType, DestroyerType, TaskSees, Undisturbed
<1>7. ASSUME NEW c \in Consumer, EndAbort(c) PROVE TaskSees
  <2>1. CheckFlushComplete(consumer[c].pc = "recheck") /\ UNCHANGED finisher
    BY <1>7 DEF EndAbort
  <2> QED
    BY <2>1, CheckFlushCompleteIsSeen, Zenon DEF TaskSees
<1> QED
  BY <1>1, <1>2, <1>3, <1>4, <1>5, <1>6, <1>7, Zenon DEF BufferNext


-----------------------------------------------------------------------------
(* The buffer alone. *)

\* A sequence without repetition that has the numbers up to n has n elements.
LEMMA CountReceived ==
    ASSUME NEW s \in Seq(Page), IsInjective(s), NEW n \in Nat, Range(s) = 1..n
    PROVE  Len(s) = n
<1>1. Len(s) \in Nat /\ DOMAIN s = 1..Len(s) /\ s \in [1..Len(s) -> Page]
  BY LenProperties
<1>2. s \in [1..Len(s) -> 1..n] /\ \A i \in 1..n : \E j \in 1..Len(s) : s[j] = i
  BY <1>1 DEF Range
<1>3. s \in Bijection(1..Len(s), 1..n)
  BY <1>2 DEF Bijection, Injection, Surjection
<1>4. ExistsBijection(1..Len(s), 1..n)
  BY <1>3 DEF ExistsBijection
<1>5. Cardinality(1..n) = Len(s)
  BY <1>1, <1>4, FS_CountingElements
<1>6. Cardinality(1..n) = n
  BY FS_Interval
<1> QED
  BY <1>5, <1>6

\* What the inductive invariant says about the consumers.
LEMMA CompleteConsumer ==
    ASSUME BufferInv
    PROVE  CompleteConsumerHasEveryPage
<1>1. SUFFICES ASSUME Undisturbed, NEW c \in Consumer, consumer[c].complete
               PROVE  /\ Range(consumer[c].received) = 1..produced
                      /\ Len(consumer[c].received) = produced
  BY DEF CompleteConsumerHasEveryPage, Undisturbed
<1>2. Range(consumer[c].received) = 1..produced /\ IsInjective(consumer[c].received)
  BY <1>1, Zenon DEF BufferInv, PagesInv, CoverInv, WindowInv, ReceivedOnce
<1>3. consumer[c].received \in Seq(Page) /\ produced \in Nat
  BY NumberedPages DEF BufferInv, TypeInv, ConsumerType
<1> QED
  BY <1>2, <1>3, CountReceived

\* The buffer alone: setNoMorePages is called once.
SpecInv == BufferInv /\ finisher.pc # "checked"

\* The inductive invariant holds of the buffer in every behaviour.
THEOREM BufferInvariant == Spec => []SpecInv
<1>1. Init => SpecInv
  <2>1. Init => finisher.pc = "idle"
    BY DEF Init
  <2> QED
    BY <2>1, InitInv DEF SpecInv
<1>2. SpecInv /\ [Next]_vars => SpecInv'
  <2>1. SUFFICES ASSUME SpecInv, [Next]_vars PROVE SpecInv'
    OBVIOUS
  <2>2. CASE UNCHANGED vars
    <3>1. finisher' = finisher
      BY <2>2 DEF vars
    <3> QED
      BY <2>1, <2>2, <3>1, StutterStep DEF SpecInv
  <2>3. CASE BufferNext
    BY <2>1, <2>3, BufferNextStep, BufferNextIsSeen, Zenon DEF SpecInv, TaskSees
  <2>4. CASE \E d \in Driver : DriverDone(d)
    BY <2>1, <2>4, DriverDoneStep, Zenon DEF SpecInv, DriverDone
  <2>5. CASE DriversDone /\ StartSetNoMorePages("idle")
    <3>1. BufferInv'
      BY <2>1, <2>5, StartSetNoMorePagesStep DEF SpecInv
    <3>2. finisher'.pc # "checked"
      BY <2>1, <2>5 DEF SpecInv, BufferInv, TypeInv, FinisherType, StartSetNoMorePages
    <3> QED
      BY <3>1, <3>2 DEF SpecInv
  <2>6. CASE Cancel
    BY <2>1, <2>6, CancelStep DEF SpecInv, Cancel
  <2>7. CASE Fail
    BY <2>1, <2>7, FailStep DEF SpecInv, Fail
  <2> QED
    BY <2>1, <2>2, <2>3, <2>4, <2>5, <2>6, <2>7 DEF Next, TaskNext
<1> QED
  BY <1>1, <1>2, PTL DEF Spec

\* The reference count of a page (SerializedPageReference) is the number of those
\* that hold it, whatever the interleaving of enqueue, setOutputBuffers, get, abort,
\* cancel and fail.
THEOREM CountsAreExact == Spec => []ReferencesAreExact
<1>1. SpecInv => ReferencesAreExact
  BY DEF SpecInv, BufferInv
<1> QED
  BY <1>1, BufferInvariant, PTL

\* The memory reported to OutputBufferMemoryManager is that of the pages that are
\* referenced, until the manager is closed.
THEOREM MemoryIsExact == Spec => []MemoryIsAccounted
<1>1. SpecInv => MemoryIsAccounted
  BY DEF SpecInv, BufferInv
<1> QED
  BY <1>1, BufferInvariant, PTL

\* A consumer that is told its buffer is complete has every page once, unless the
\* task has failed or was cancelled.
THEOREM CompleteHasEveryPage == Spec => []CompleteConsumerHasEveryPage
<1>1. SpecInv => CompleteConsumerHasEveryPage
  BY CompleteConsumer DEF SpecInv
<1> QED
  BY <1>1, BufferInvariant, PTL

\* Once setNoMorePages and the final setOutputBuffers have made their transitions,
\* in whatever order, the buffer is FLUSHING or at its end.
THEOREM BothCallsFlush == Spec => []BothCallsMeanFlushing
<1>1. SpecInv => BothCallsMeanFlushing
  BY DEF SpecInv, BufferInv, TypeInv, BufferState, FinisherType, ControlInv, CallsInv,
         BothCallsMeanFlushing, IsTerminal
<1> QED
  BY <1>1, BufferInvariant, PTL


-----------------------------------------------------------------------------
(* The buffer within a task. *)

\* The drivers that have not been counted as finished.
Remaining == {d \in Driver : driver[d].pc # "done"} \cup failing

\* How the task's state goes with its drivers and its buffer.  The driver count is
\* read after the task's state and the buffer's state after both.
CompletionInv ==
    /\ taskState \in {"RUNNING", "FINISHED", "FAILED", "ABORTED", "CANCELED"}
    /\ failing \subseteq failedDrivers /\ failing \subseteq Driver
    /\ \A d \in failing : driver[d].pc = "done"
    /\ remainingDriver = Cardinality(Remaining)
    /\ finisher.pc \notin {"idle", "checked"} => remainingDriver = 0
    /\ failedDrivers # {} => taskState # "RUNNING"
    /\ FinishedTaskSucceeded
    /\ ~Undisturbed => taskState \in {"FAILED", "ABORTED", "CANCELED"}

TaskInv == BufferInv /\ CompletionInv

LEMMA RemainingIsFinite ==
    ASSUME TaskInv
    PROVE  /\ IsFiniteSet(Remaining)
           /\ remainingDriver = Cardinality(Remaining)
           /\ remainingDriver = 0 <=> Remaining = {}
<1>1. Remaining \subseteq Driver
  BY DEF Remaining, TaskInv, CompletionInv
<1>2. IsFiniteSet(Remaining)
  BY <1>1, HoldersAssumption, FS_Subset
<1>3. remainingDriver = Cardinality(Remaining)
  BY DEF TaskInv, CompletionInv
<1> QED
  BY <1>2, <1>3, FS_EmptySet

LEMMA BufferStepInTask ==
    ASSUME TaskInv, BufferStep
    PROVE  TaskInv'
<1>1. BufferInv' /\ TaskSees
  BY BufferNextStep, BufferNextIsSeen DEF TaskInv, BufferStep
<1>2. UNCHANGED <<taskState, remainingDriver, failing, failedDrivers>>
  BY DEF BufferStep
<1>3. Remaining' = Remaining
  BY <1>1, <1>2 DEF Remaining, TaskSees
<1>4. FinishedTaskSucceeded'
  BY <1>1, <1>2 DEF TaskInv, CompletionInv, FinishedTaskSucceeded, TaskSees
<1>5. finisher'.pc \notin {"idle", "checked"} => remainingDriver' = 0
  BY <1>1, <1>2, Zenon DEF TaskInv, CompletionInv, TaskSees
<1>6. \A d \in failing' : driver'[d].pc = "done"
  BY <1>1, <1>2 DEF TaskInv, CompletionInv, TaskSees
<1>7. remainingDriver' = Cardinality(Remaining')
  BY <1>2, <1>3, Zenon DEF TaskInv, CompletionInv
<1>8. ~Undisturbed' => taskState' \in {"FAILED", "ABORTED", "CANCELED"}
  BY <1>1, <1>2 DEF TaskInv, CompletionInv, TaskSees
<1> QED
  BY <1>1, <1>2, <1>4, <1>5, <1>6, <1>7, <1>8 DEF TaskInv, CompletionInv

\* A driver that ends was counted.
LEMMA DriverEnds ==
    ASSUME TaskInv, NEW d \in Driver, DriverDone(d)
    PROVE  /\ BufferInv' /\ (Undisturbed' <=> Undisturbed) /\ UNCHANGED <<finisher, state>>
           /\ d \notin failing /\ d \in Remaining
           /\ remainingDriver # 0 /\ taskState # "FINISHED"
           /\ finisher.pc \in {"idle", "checked"}
           /\ driver'[d].pc = "done"
           /\ \A e \in Driver \ {d} : driver'[e] = driver[e]
<1>1. BufferInv' /\ (Undisturbed' <=> Undisturbed) /\ UNCHANGED <<finisher, state>>
  BY DriverDoneStep, Zenon DEF TaskInv, DriverDone, Undisturbed
<1>2. driver[d].pc = "idle" /\ driver'[d].pc = "done" /\ \A e \in Driver \ {d} : driver'[e] = driver[e]
  BY DEF DriverDone, TaskInv, BufferInv, TypeInv, DriverType
<1>3. d \notin failing /\ d \in Remaining
  BY <1>2 DEF TaskInv, CompletionInv, Remaining
<1>4. remainingDriver # 0
  BY <1>3, RemainingIsFinite
<1> QED
  BY <1>1, <1>2, <1>3, <1>4 DEF TaskInv, CompletionInv, FinishedTaskSucceeded

LEMMA OnSuccessStep ==
    ASSUME TaskInv, NEW d \in Driver, OnSuccess(d)
    PROVE  TaskInv'
<1>1. DriverDone(d) /\ UNCHANGED <<taskState, failing, failedDrivers>>
  BY DEF OnSuccess
<1>2. remainingDriver' = remainingDriver - 1
  BY DEF OnSuccess
<1>3. Remaining' = Remaining \ {d}
  BY <1>1, DriverEnds DEF Remaining
<1>4. d \in Remaining /\ IsFiniteSet(Remaining) /\ remainingDriver = Cardinality(Remaining)
  BY <1>1, DriverEnds, RemainingIsFinite
<1>5. Cardinality(Remaining \ {d}) = Cardinality(Remaining) - 1
  BY <1>4, FS_RemoveElement
<1>6. remainingDriver' = Cardinality(Remaining')
  BY <1>2, <1>3, <1>4, <1>5, Zenon
<1>7. \A e \in failing' : driver'[e].pc = "done"
  BY <1>1, DriverEnds, Zenon DEF TaskInv, CompletionInv
<1>8. taskState' # "FINISHED" /\ finisher'.pc \in {"idle", "checked"} /\ BufferInv'
  BY <1>1, DriverEnds
<1>9. ~Undisturbed' => taskState' \in {"FAILED", "ABORTED", "CANCELED"}
  BY <1>1, DriverEnds DEF TaskInv, CompletionInv
<1> QED
  BY <1>1, <1>6, <1>7, <1>8, <1>9, Zenon DEF TaskInv, CompletionInv, FinishedTaskSucceeded

LEMMA OnFailureStep ==
    ASSUME TaskInv, NEW d \in Driver, OnFailure(d)
    PROVE  TaskInv'
<1>1. /\ DriverDone(d) /\ UNCHANGED remainingDriver
      /\ failing' = failing \cup {d} /\ failedDrivers' = failedDrivers \cup {d}
      /\ taskState' = IF IsDone(taskState) THEN taskState ELSE "FAILED"
  BY DEF OnFailure, TransitionToDoneState
<1>2. Remaining' = Remaining
  BY <1>1, DriverEnds DEF Remaining
<1>3. remainingDriver' = Cardinality(Remaining')
  BY <1>1, <1>2, Zenon DEF TaskInv, CompletionInv
<1>4. \A e \in failing' : driver'[e].pc = "done"
  BY <1>1, DriverEnds, Zenon DEF TaskInv, CompletionInv
<1>5. finisher'.pc \in {"idle", "checked"} /\ BufferInv' /\ taskState # "FINISHED"
  BY <1>1, DriverEnds
<1>6. taskState' \in {"FAILED", "ABORTED", "CANCELED"}
  BY <1>1, <1>5 DEF TaskInv, CompletionInv, IsDone
<1>7. failing' \subseteq failedDrivers' /\ failing' \subseteq Driver
  BY <1>1 DEF TaskInv, CompletionInv
<1> QED
  BY <1>3, <1>4, <1>5, <1>6, <1>7 DEF TaskInv, CompletionInv, FinishedTaskSucceeded


LEMMA EndOnFailureStep ==
    ASSUME TaskInv, NEW d \in Driver, EndOnFailure(d)
    PROVE  TaskInv'
<1>1. /\ d \in failing /\ failing' = failing \ {d} /\ remainingDriver' = remainingDriver - 1
      /\ UNCHANGED <<vars, taskState, failedDrivers>>
  BY DEF EndOnFailure
<1>2. UNCHANGED <<driver, finisher, state, destroyer>> /\ BufferInv'
  BY <1>1, StutterStep DEF TaskInv, vars
<1>3. driver[d].pc = "done"
  BY <1>1 DEF TaskInv, CompletionInv
<1>4. Remaining' = Remaining \ {d} /\ d \in Remaining
  BY <1>1, <1>2, <1>3 DEF Remaining
<1>5. IsFiniteSet(Remaining) /\ remainingDriver = Cardinality(Remaining) /\ remainingDriver # 0
  BY <1>4, RemainingIsFinite
<1>6. Cardinality(Remaining \ {d}) = Cardinality(Remaining) - 1
  BY <1>4, <1>5, FS_RemoveElement
<1>7. remainingDriver' = Cardinality(Remaining')
  BY <1>1, <1>4, <1>5, <1>6, Zenon
<1>8. finisher'.pc \in {"idle", "checked"} /\ taskState' # "FINISHED"
  BY <1>1, <1>2, <1>5 DEF TaskInv, CompletionInv, FinishedTaskSucceeded
<1>9. ~Undisturbed' => taskState' \in {"FAILED", "ABORTED", "CANCELED"}
  BY <1>1, <1>2 DEF TaskInv, CompletionInv, Undisturbed
<1> QED
  BY <1>1, <1>2, <1>7, <1>8, <1>9 DEF TaskInv, CompletionInv, FinishedTaskSucceeded

\* The finisher is on its way into checkTaskCompletion or out of it.
LEMMA FinisherMoves ==
    ASSUME BufferInv, NEW pc \in {"idle", "checked"}, finisher' = [finisher EXCEPT !.pc = pc],
           UNCHANGED <<state, outputBuffers, lock, buffers, initialPagesForNewBuffers, memory,
                       memoryClosed, produced, driver, coordinator, destroyer, consumer>>
    PROVE  BufferInv' /\ finisher'.pc = pc
<1>1. finisher' \in FinisherType /\ finisher'.pc = pc /\ finisher'.todo = finisher.todo
  BY Zenon DEF BufferInv, TypeInv, FinisherType
<1>2. TypeInv'
  BY <1>1 DEF BufferInv, TypeInv, memory
<1>3. FlowInv' /\ CallsInv'
  BY <1>1 DEF BufferInv, ControlInv, FlowInv, CallsInv, DriversDone
<1>4. EndInv'
  BY DEF BufferInv, ControlInv, EndInv, Undisturbed, DriversDone
<1>5. NothingReceived /\ (Undisturbed' => Undisturbed)
  BY DEF NothingReceived, Undisturbed
<1>6. finisher'.todo \subseteq DOMAIN buffers /\ destroyer'.todo \subseteq DOMAIN buffers
  BY <1>1 DEF BufferInv, PagesInv, PlaceInv
<1> QED
  BY <1>1, <1>2, <1>3, <1>4, <1>5, <1>6, ControlStep DEF ControlInv

\* A step that is no driver's keeps the driver count.
LEMMA CountKept ==
    ASSUME TaskInv, BufferInv',
           UNCHANGED <<driver, remainingDriver, failing, failedDrivers>>,
           taskState' \in {"RUNNING", "FINISHED", "FAILED", "ABORTED", "CANCELED"},
           finisher'.pc \notin {"idle", "checked"} => remainingDriver = 0,
           taskState' = "RUNNING" => taskState = "RUNNING",
           FinishedTaskSucceeded',
           ~Undisturbed' => taskState' \in {"FAILED", "ABORTED", "CANCELED"}
    PROVE  TaskInv'
<1>1. Remaining' = Remaining
  BY DEF Remaining
<1>2. remainingDriver' = Cardinality(Remaining')
  BY <1>1, Zenon DEF TaskInv, CompletionInv
<1> QED
  BY <1>2 DEF TaskInv, CompletionInv

LEMMA CheckTaskCompletionStep ==
    ASSUME TaskInv, NEW t, CheckTaskCompletion(t)
    PROVE  TaskInv'
<1>1. /\ UNCHANGED <<state, outputBuffers, lock, buffers, initialPagesForNewBuffers, memory,
                     memoryClosed, produced, driver, coordinator, destroyer, consumer>>
      /\ UNCHANGED <<taskState, remainingDriver, failing, failedDrivers>>
      /\ finisher.pc = "idle"
      /\ finisher' = finisher \/ finisher' = [finisher EXCEPT !.pc = "checked"]
  BY DEF CheckTaskCompletion
<1>2. BufferInv' /\ finisher'.pc \in {"idle", "checked"}
  <2>1. CASE finisher' = finisher
    BY <1>1, <2>1, StutterStep DEF TaskInv, vars
  <2>2. CASE finisher' = [finisher EXCEPT !.pc = "checked"]
    BY <1>1, <2>2, FinisherMoves DEF TaskInv
  <2> QED
    BY <1>1, <2>1, <2>2
<1>3. FinishedTaskSucceeded' /\ (Undisturbed' <=> Undisturbed)
  BY <1>1 DEF TaskInv, CompletionInv, FinishedTaskSucceeded, Undisturbed
<1> QED
  BY <1>1, <1>2, <1>3, CountKept DEF TaskInv, CompletionInv

LEMMA CheckRemainingDriverStep ==
    ASSUME TaskInv, CheckRemainingDriver
    PROVE  TaskInv'
<1>1. UNCHANGED <<taskState, remainingDriver, failing, failedDrivers>> /\ finisher.pc = "checked"
  BY DEF CheckRemainingDriver, taskVars
<1>2. CASE remainingDriver # 0
  <2>1. /\ UNCHANGED <<state, outputBuffers, lock, buffers, initialPagesForNewBuffers, memory,
                       memoryClosed, produced, driver, coordinator, destroyer, consumer>>
        /\ finisher' = [finisher EXCEPT !.pc = "idle"]
    BY <1>2 DEF CheckRemainingDriver
  <2>2. BufferInv' /\ finisher'.pc = "idle"
    BY <2>1, FinisherMoves DEF TaskInv
  <2>3. FinishedTaskSucceeded' /\ (Undisturbed' <=> Undisturbed)
    BY <1>1, <2>1 DEF TaskInv, CompletionInv, FinishedTaskSucceeded, Undisturbed
  <2> QED
    BY <1>1, <2>1, <2>2, <2>3, CountKept DEF TaskInv, CompletionInv
<1>3. CASE remainingDriver = 0
  <2>1. StartSetNoMorePages("checked")
    BY <1>3 DEF CheckRemainingDriver
  <2>2. DriversDone
    BY <1>3, RemainingIsFinite DEF Remaining, DriversDone
  <2>3. BufferInv'
    BY <2>1, <2>2, StartSetNoMorePagesStep DEF TaskInv
  <2>4. UNCHANGED <<driver, destroyer>> /\ (state' = state \/ (state = "OPEN" /\ state' = "NO_MORE_PAGES"))
    BY <2>1 DEF StartSetNoMorePages, CompareAndSet
  <2>5. FinishedTaskSucceeded' /\ (Undisturbed' <=> Undisturbed)
    BY <1>1, <2>4 DEF TaskInv, CompletionInv, FinishedTaskSucceeded, Undisturbed
  <2> QED
    BY <1>1, <1>3, <2>3, <2>4, <2>5, CountKept, Zenon DEF TaskInv, CompletionInv
<1> QED
  BY <1>2, <1>3


LEMMA CheckBufferFinishedStep ==
    ASSUME TaskInv, CheckBufferFinished
    PROVE  TaskInv'
<1>1. /\ UNCHANGED <<state, outputBuffers, lock, buffers, initialPagesForNewBuffers, memory,
                     memoryClosed, produced, driver, coordinator, destroyer, consumer>>
      /\ UNCHANGED <<remainingDriver, failing, failedDrivers>>
      /\ finisher.pc = "done" /\ finisher' = [finisher EXCEPT !.pc = "idle"]
      /\ \/ taskState' = taskState
         \/ taskState = "RUNNING" /\ taskState' = "FINISHED" /\ state = "FINISHED"
  BY DEF CheckBufferFinished, TransitionToDoneState, IsDone
<1>2. BufferInv' /\ finisher'.pc = "idle"
  BY <1>1, FinisherMoves DEF TaskInv
<1>3. Undisturbed' <=> Undisturbed
  BY <1>1 DEF Undisturbed
<1>4. CASE taskState' = taskState
  <2>1. FinishedTaskSucceeded'
    BY <1>1, <1>4 DEF TaskInv, CompletionInv, FinishedTaskSucceeded
  <2> QED
    BY <1>1, <1>2, <1>3, <1>4, <2>1, CountKept DEF TaskInv, CompletionInv
<1>5. CASE taskState = "RUNNING" /\ taskState' = "FINISHED" /\ state = "FINISHED"
  <2>1. remainingDriver = 0 /\ failedDrivers = {}
    BY <1>1, <1>5 DEF TaskInv, CompletionInv
  <2>2. FinishedTaskSucceeded'
    BY <1>1, <1>5, <2>1 DEF FinishedTaskSucceeded
  <2>3. Undisturbed
    BY <1>5 DEF TaskInv, CompletionInv
  <2> QED
    BY <1>1, <1>2, <1>3, <1>5, <2>2, <2>3, CountKept
<1> QED
  BY <1>1, <1>4, <1>5

LEMMA EndTaskStep ==
    ASSUME TaskInv, EndTask
    PROVE  TaskInv'
<1>1. /\ UNCHANGED vars /\ UNCHANGED <<remainingDriver, failing, failedDrivers>>
      /\ taskState = "RUNNING" /\ taskState' \in {"CANCELED", "ABORTED"}
  BY DEF EndTask, CancelTask, AbortTask, TransitionToDoneState, IsDone
<1>2. BufferInv' /\ UNCHANGED <<driver, finisher, state, destroyer>>
  BY <1>1, StutterStep DEF TaskInv, vars
<1>3. FinishedTaskSucceeded'
  BY <1>1 DEF FinishedTaskSucceeded
<1> QED
  BY <1>1, <1>2, <1>3, CountKept, Zenon DEF TaskInv, CompletionInv

LEMMA StateChangedStep ==
    ASSUME TaskInv, StateChanged
    PROVE  TaskInv'
<1>1. UNCHANGED <<taskState, remainingDriver, failing, failedDrivers>> /\ taskState # "RUNNING"
  BY DEF StateChanged, IsDone
<1>2. CASE UNCHANGED vars
  <2>1. BufferInv' /\ UNCHANGED <<driver, finisher, state, destroyer>>
    BY <1>2, StutterStep DEF TaskInv, vars
  <2>2. FinishedTaskSucceeded' /\ (Undisturbed' <=> Undisturbed)
    BY <1>1, <2>1 DEF TaskInv, CompletionInv, FinishedTaskSucceeded, Undisturbed
  <2> QED
    BY <1>1, <2>1, <2>2, CountKept, Zenon DEF TaskInv, CompletionInv
<1>3. CASE ~IsTerminal(state) /\ (Fail \/ Cancel)
  <2>1. BufferInv' /\ UNCHANGED <<driver, finisher>>
    BY <1>3, FailStep, CancelStep, Zenon DEF TaskInv, Fail, Cancel
  <2>2. taskState \in {"FAILED", "ABORTED", "CANCELED"}
    BY <1>1, <1>3 DEF TaskInv, CompletionInv, FinishedTaskSucceeded, IsTerminal
  <2>3. FinishedTaskSucceeded'
    BY <1>1, <2>2 DEF FinishedTaskSucceeded
  <2> QED
    BY <1>1, <2>1, <2>2, <2>3, CountKept, Zenon DEF TaskInv, CompletionInv
<1> QED
  BY <1>2, <1>3 DEF StateChanged

\* The inductive invariant holds of a task and its buffer in every behaviour: the
\* buffer keeps its promises when its calls come from checkTaskCompletion and the
\* task's listener.
THEOREM TaskInvariant == TaskSpec => []TaskInv
<1>1. TaskInit => TaskInv
  <2>1. SUFFICES ASSUME TaskInit PROVE TaskInv
    OBVIOUS
  <2>2. BufferInv
    BY <2>1, InitInv DEF TaskInit
  <2>3. Remaining = Driver /\ Undisturbed /\ finisher.pc = "idle"
    BY <2>1, Zenon DEF TaskInit, Init, Remaining, Undisturbed
  <2> QED
    BY <2>1, <2>2, <2>3 DEF TaskInit, TaskInv, CompletionInv, FinishedTaskSucceeded
<1>2. TaskInv /\ [TaskOutputNext]_allVars => TaskInv'
  <2>1. SUFFICES ASSUME TaskInv, [TaskOutputNext]_allVars PROVE TaskInv'
    OBVIOUS
  <2>2. CASE UNCHANGED allVars
    <3>1. UNCHANGED vars /\ UNCHANGED <<taskState, remainingDriver, failing, failedDrivers>>
      BY <2>2 DEF allVars, taskVars
    <3>2. BufferInv' /\ UNCHANGED <<driver, finisher, state, destroyer>>
      BY <2>1, <3>1, StutterStep DEF TaskInv, vars
    <3>3. FinishedTaskSucceeded' /\ (Undisturbed' <=> Undisturbed)
      BY <2>1, <3>1, <3>2, Zenon DEF TaskInv, CompletionInv, FinishedTaskSucceeded, Undisturbed
    <3> QED
      BY <2>1, <3>1, <3>2, <3>3, CountKept, Zenon DEF TaskInv, CompletionInv
  <2>3. CASE TaskStep
    BY <2>1, <2>3, BufferStepInTask, OnSuccessStep, EndOnFailureStep, CheckTaskCompletionStep,
       CheckRemainingDriverStep, CheckBufferFinishedStep, StateChangedStep, Zenon DEF TaskStep
  <2> QED
    BY <2>1, <2>2, <2>3, EndTaskStep, OnFailureStep DEF TaskOutputNext
<1> QED
  BY <1>1, <1>2, PTL DEF TaskSpec

\* A task that says FINISHED has no driver left, none that failed, and its output
\* was consumed, for every interleaving of checkTaskCompletion with the drivers'
\* callbacks and with cancel and abort.
THEOREM FinishedMeansSuccess == TaskSpec => []FinishedTaskSucceeded
<1>1. TaskInv => FinishedTaskSucceeded
  BY DEF TaskInv, CompletionInv
<1> QED
  BY <1>1, TaskInvariant, PTL

\* A consumer that is told that its buffer is complete has every page the task's
\* drivers produced, or the task is known not to have succeeded.
THEOREM NoPageMissing == TaskSpec => []CompleteOrNotSuccessful
<1>1. TaskInv => CompleteOrNotSuccessful
  BY CompleteConsumer DEF TaskInv, CompletionInv, CompleteOrNotSuccessful,
                          CompleteConsumerHasEveryPage, Undisturbed
<1> QED
  BY <1>1, TaskInvariant, PTL

\* Within a task too the reference counts are exact, the memory is accounted for and
\* complete consumers have every page once.
THEOREM BufferWithinTask ==
    TaskSpec => [](ReferencesAreExact /\ MemoryIsAccounted /\ CompleteConsumerHasEveryPage)
<1>1. TaskInv => ReferencesAreExact /\ MemoryIsAccounted /\ CompleteConsumerHasEveryPage
  BY CompleteConsumer DEF TaskInv, BufferInv
<1> QED
  BY <1>1, TaskInvariant, PTL
=============================================================================
