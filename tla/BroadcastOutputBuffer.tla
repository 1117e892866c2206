------------------------ MODULE BroadcastOutputBuffer ------------------------
(***************************************************************************)
(* The output buffer of a task whose pages go to every consumer            *)
(* (execution/buffer/BroadcastOutputBuffer.java), with the threads that    *)
(* call it: drivers that enqueue, the task that sets "no more pages",      *)
(* cancels or fails, the coordinator's updates of the set of consumers,    *)
(* and the consumers.                                                      *)
(*                                                                         *)
(* A step is a synchronized block, a compare-and-set of the buffer state   *)
(* outside of one, or one client buffer's turn in a loop over a snapshot.  *)
(* setOutputBuffers reads the state several times within its synchronized  *)
(* block, so it holds the lock over several steps.  A call of enqueue      *)
(* carries one page.  Consumers are those of ExchangeProtocol without the  *)
(* network: a get acknowledges what was received and reads what is there.  *)
(* The statistics are left out, and blocking on memory is in module        *)
(* OutputBufferMemory.                                                     *)
(***************************************************************************)
EXTENDS ClientBuffer, FiniteSets, FiniteSetsExt

CONSTANTS Consumer,  \* the output buffer ids
          Driver,    \* the drivers of the task
          MaxPages,  \* how many pages the drivers enqueue at most
          History    \* the OutputBuffers the coordinator sends, by version

ASSUME NumberedPages == MaxPages \in Nat /\ Page = 1..MaxPages

\* Versions only add buffers, and a final one declares every consumer (else
\* noMoreBuffers would throw).
ASSUME HistoryAssumption ==
    /\ History \in Seq([buffers : SUBSET Consumer, noMoreBufferIds : BOOLEAN])
    /\ \A v, w \in DOMAIN History : v < w =>
          History[v].buffers \subseteq History[w].buffers /\ ~History[v].noMoreBufferIds
    /\ \A v \in DOMAIN History : History[v].noMoreBufferIds => History[v].buffers = Consumer

\* Who can hold a page is finite, and told apart: see Holders.
ASSUME HoldersAssumption ==
    /\ IsFiniteSet(Driver) /\ IsFiniteSet(Consumer)
    /\ Driver \cap Consumer = {}
    /\ "initialPages" \notin Driver \cup Consumer

VARIABLES
    state,          \* the StateMachine<BufferState>
    outputBuffers,  \* the version of the OutputBuffers in force; 0 before the first
    lock,           \* setOutputBuffers holds the monitor of the buffer
    buffers,        \* the client buffers that exist, by consumer
    initialPagesForNewBuffers,
    referenceCount, \* of every page (SerializedPageReference)
    bufferedBytes,  \* OutputBufferMemoryManager.bufferedBytes
    memoryClosed,   \* OutputBufferMemoryManager.closed
    produced,       \* how many pages the drivers have passed to enqueue
    (* where the threads are *)
    driver, finisher, coordinator, destroyer, consumer

memory == <<referenceCount, bufferedBytes>>
vars == <<state, outputBuffers, lock, buffers, initialPagesForNewBuffers, memory, memoryClosed,
          produced, driver, finisher, coordinator, destroyer, consumer>>

-----------------------------------------------------------------------------
(* BufferState and OutputBuffers. *)

CanAddPages(s) == s \in {"OPEN", "NO_MORE_BUFFERS"}
CanAddBuffers(s) == s \in {"OPEN", "NO_MORE_PAGES"}
IsTerminal(s) == s \in {"FINISHED", "FAILED"}

CompareAndSet(old, new) == state' = IF state = old THEN new ELSE state

Declared(v) == IF v = 0 THEN {} ELSE History[v].buffers
IsNoMoreBufferIds(v) == v # 0 /\ History[v].noMoreBufferIds

Init ==
    /\ state = "OPEN"
    /\ outputBuffers = 0
    /\ lock = FALSE
    /\ buffers = << >>
    /\ initialPagesForNewBuffers = << >>
    /\ referenceCount = [p \in Page |-> 0]
    /\ bufferedBytes = 0
    /\ memoryClosed = FALSE
    /\ produced = 0
    /\ driver = [d \in Driver |-> [pc |-> "idle", page |-> 0, todo |-> {}]]
    /\ finisher = [pc |-> "idle", todo |-> {}]
    /\ coordinator = [pc |-> "idle", read |-> "OPEN"]
    /\ destroyer = [pc |-> "idle", todo |-> {}, cancelled |-> FALSE]
    /\ consumer = [c \in Consumer |->
                     [received |-> << >>, complete |-> FALSE, pc |-> "reading"]]

-----------------------------------------------------------------------------
(* SerializedPageReference and the memory behind it. *)

SizeOf(pages) == MapThenSumSet(LAMBDA p : PageSize[p], pages)

AddReference(pages) ==
    [p \in Page |-> IF p \in pages THEN referenceCount[p] + 1 ELSE referenceCount[p]]

\* mutant: memory is given back also after it was closed
DereferencePageClosed(pages) ==
    /\ referenceCount' =
         [p \in Page |-> IF p \in pages THEN referenceCount[p] - 1 ELSE referenceCount[p]]
    /\ bufferedBytes' = bufferedBytes - SizeOf({p \in pages : referenceCount[p] = 1})

\* dereferencePage of each page; the memory of a page goes with its last reference.
DereferencePage(pages) ==
    /\ referenceCount' =
         [p \in Page |-> IF p \in pages THEN referenceCount[p] - 1 ELSE referenceCount[p]]
    /\ bufferedBytes' =
         IF memoryClosed THEN bufferedBytes
         ELSE bufferedBytes - SizeOf({p \in pages : referenceCount[p] = 1})

-----------------------------------------------------------------------------
(* getBuffer, noMoreBuffers, destroy and checkFlushComplete, which the operations share. *)

\* The checkState of getBuffer.
CanGetBuffer(c) ==
    c \in DOMAIN buffers \/ CanAddBuffers(state) \/ ~IsNoMoreBufferIds(outputBuffers)

\* mutant: a new buffer does not get the pages before it
NewBufferUnfilled ==
    IF CanAddPages(state) THEN NewClientBuffer(0) ELSE SetNoMorePages(NewClientBuffer(0))

\* The rest of getBuffer, for a consumer it does not know.
NewBuffer ==
    LET empty == NewClientBuffer(0)
        full  == EnqueuePages(empty, initialPagesForNewBuffers)
    IN  CASE state = "FAILED"   -> empty
          [] state = "FINISHED" -> Destroy(SetNoMorePages(full))
          [] CanAddPages(state) -> full
          [] OTHER              -> SetNoMorePages(full)

PutBuffer(c, b) == buffers' = [x \in DOMAIN buffers \cup {c} |-> IF x = c THEN b ELSE buffers[x]]

\* The first half of get, acknowledge and abort.
CreateBuffer(c) ==
    /\ ~lock
    /\ consumer[c].pc = "reading"
    /\ c \notin DOMAIN buffers
    /\ CanGetBuffer(c)
    /\ PutBuffer(c, NewBuffer)
    /\ referenceCount' = AddReference(Range(NewBuffer.pages))
    /\ UNCHANGED <<state, outputBuffers, lock, initialPagesForNewBuffers, bufferedBytes,
                   memoryClosed, produced, driver, finisher, coordinator, destroyer, consumer>>

\* mutant: the pages are forgotten, not dereferenced
DropInitialPagesLeak == initialPagesForNewBuffers' = << >> /\ UNCHANGED memory

\* noMoreBuffers; its check that the created buffers are declared never fails.
DropInitialPages ==
    /\ initialPagesForNewBuffers' = << >>
    /\ DereferencePage(Range(initialPagesForNewBuffers))

\* The setIf of destroy: who finds the state not terminal goes on to destroy.
TryDestroy(cancelled) ==
    IF IsTerminal(state)
    THEN UNCHANGED <<state, destroyer>>
    ELSE /\ state' = "FINISHED"
         /\ destroyer' = [pc |-> "noMoreBuffers", todo |-> {}, cancelled |-> cancelled]

\* checkFlushComplete reads the state twice: a thread that saw NO_MORE_BUFFERS
\* returns when it sees FLUSHING the second time.
WaitsForFlush(seenNoMoreBuffers) ==
    state = "NO_MORE_BUFFERS" \/ (state = "FLUSHING" /\ ~seenNoMoreBuffers)

\* The buffers a flush waits for can only be destroyed, and none can be added,
\* so the last read of the state, the snapshot and the setIf of destroy are one step.
CheckFlushComplete(seenNoMoreBuffers) ==
    /\ WaitsForFlush(seenNoMoreBuffers) => ~lock
    /\ IF /\ WaitsForFlush(seenNoMoreBuffers)
          /\ \A c \in DOMAIN buffers : buffers[c].destroyed
       THEN TryDestroy(FALSE)
       ELSE UNCHANGED <<state, destroyer>>
    /\ UNCHANGED <<outputBuffers, lock, buffers, initialPagesForNewBuffers, memory,
                   memoryClosed, produced, driver>>

-----------------------------------------------------------------------------
(* enqueue. *)

\* Pages are ignored once no more can be added.
StartEnqueue(d) ==
    LET p == produced + 1
    IN  /\ driver[d].pc = "idle"
        /\ p \in Page
        /\ produced' = p
        /\ driver' = IF CanAddPages(state)
                     THEN [driver EXCEPT ![d].pc = "reserve", ![d].page = p] ELSE driver
        /\ UNCHANGED <<state, outputBuffers, lock, buffers, initialPagesForNewBuffers, memory,
                       memoryClosed, finisher, coordinator, destroyer, consumer>>

\* Reserve memory, and create the page's reference count with one reference.
ReserveMemory(d) ==
    LET p == driver[d].page
    IN  /\ driver[d].pc = "reserve"
        /\ bufferedBytes' = IF memoryClosed THEN bufferedBytes ELSE bufferedBytes + PageSize[p]
        /\ referenceCount' = [referenceCount EXCEPT ![p] = 1]
        /\ driver' = [driver EXCEPT ![d].pc = "snapshot"]
        /\ UNCHANGED <<state, outputBuffers, lock, buffers, initialPagesForNewBuffers,
                       memoryClosed, produced, finisher, coordinator, destroyer, consumer>>

\* The synchronized block: keep the page for later buffers, copy the buffers there are.
SnapshotForEnqueue(d) ==
    /\ driver[d].pc = "snapshot"
    /\ ~lock
    /\ IF CanAddBuffers(state)
       THEN /\ referenceCount' = AddReference({driver[d].page})
            /\ initialPagesForNewBuffers' = Append(initialPagesForNewBuffers, driver[d].page)
       ELSE UNCHANGED <<referenceCount, initialPagesForNewBuffers>>
    /\ driver' = [driver EXCEPT ![d].pc = "enqueue", ![d].todo = DOMAIN buffers]
    /\ UNCHANGED <<state, outputBuffers, lock, buffers, bufferedBytes, memoryClosed, produced,
                   finisher, coordinator, destroyer, consumer>>

EnqueueInBuffer(d, c) ==
    LET p == driver[d].page
    IN  /\ driver[d].pc = "enqueue"
        /\ c \in driver[d].todo
        /\ PutBuffer(c, EnqueuePages(buffers[c], <<p>>))
        /\ referenceCount' = AddReference(IF buffers[c].noMorePages THEN {} ELSE {p})
        /\ driver' = [driver EXCEPT ![d].todo = @ \ {c}]
        /\ UNCHANGED <<state, outputBuffers, lock, initialPagesForNewBuffers, bufferedBytes,
                       memoryClosed, produced, finisher, coordinator, destroyer, consumer>>

\* Drop the initial reference.
EndEnqueue(d) ==
    /\ driver[d].pc = "enqueue"
    /\ driver[d].todo = {}
    /\ DereferencePage({driver[d].page})
    /\ driver' = [driver EXCEPT ![d] = [pc |-> "idle", page |-> 0, todo |-> {}]]
    /\ UNCHANGED <<state, outputBuffers, lock, buffers, initialPagesForNewBuffers,
                   memoryClosed, produced, finisher, coordinator, destroyer, consumer>>

Enqueue(d) ==
    \/ StartEnqueue(d)
    \/ ReserveMemory(d)
    \/ SnapshotForEnqueue(d)
    \/ \E c \in Consumer : EnqueueInBuffer(d, c)
    \/ EndEnqueue(d)

-----------------------------------------------------------------------------
(* setNoMorePages. *)

\* Nobody will enqueue any more: SqlTaskExecution calls setNoMorePages when its
\* last driver is gone.
DriversDone == \A d \in Driver : driver[d].pc = "done"

StartSetNoMorePages(pc) ==
    /\ finisher.pc = pc
    /\ CompareAndSet("OPEN", "NO_MORE_PAGES")
    /\ finisher' = [finisher EXCEPT !.pc = "flushing"]
    /\ UNCHANGED <<outputBuffers, lock, buffers, initialPagesForNewBuffers, memory,
                   memoryClosed, produced, driver, coordinator, destroyer, consumer>>

\* mutant: the second transition is not tried
ToFlushingNot ==
    /\ finisher.pc = "flushing"
    /\ finisher' = [finisher EXCEPT !.pc = "snapshot"]
    /\ UNCHANGED <<state, outputBuffers, lock, buffers, initialPagesForNewBuffers, memory,
                   memoryClosed, produced, driver, coordinator, destroyer, consumer>>

ToFlushing ==
    /\ finisher.pc = "flushing"
    /\ CompareAndSet("NO_MORE_BUFFERS", "FLUSHING")
    /\ finisher' = [finisher EXCEPT !.pc = "snapshot"]
    /\ UNCHANGED <<outputBuffers, lock, buffers, initialPagesForNewBuffers, memory,
                   memoryClosed, produced, driver, coordinator, destroyer, consumer>>

SnapshotForNoMorePages ==
    /\ finisher.pc = "snapshot"
    /\ ~lock
    /\ finisher' = [pc |-> "setNoMorePages", todo |-> DOMAIN buffers]
    /\ UNCHANGED <<state, outputBuffers, lock, buffers, initialPagesForNewBuffers, memory,
                   memoryClosed, produced, driver, coordinator, destroyer, consumer>>

SetNoMorePagesInBuffer(c) ==
    /\ finisher.pc = "setNoMorePages"
    /\ c \in finisher.todo
    /\ PutBuffer(c, SetNoMorePages(buffers[c]))
    /\ finisher' = [finisher EXCEPT !.todo = @ \ {c}]
    /\ UNCHANGED <<state, outputBuffers, lock, initialPagesForNewBuffers, memory,
                   memoryClosed, produced, driver, coordinator, destroyer, consumer>>

EndSetNoMorePages ==
    /\ finisher.pc = "setNoMorePages"
    /\ finisher.todo = {}
    /\ CheckFlushComplete(FALSE)
    /\ finisher' = [finisher EXCEPT !.pc = "done"]
    /\ UNCHANGED <<coordinator, consumer>>

-----------------------------------------------------------------------------
(* setOutputBuffers. *)

\* An old version, or one that comes after the end, is ignored.
AcceptOutputBuffers(v) ==
    /\ coordinator.pc = "idle"
    /\ ~IsTerminal(state)
    /\ outputBuffers < v
    /\ outputBuffers' = v
    /\ lock' = TRUE
    /\ coordinator' = [pc |-> "create", read |-> state]
    /\ UNCHANGED <<state, buffers, initialPagesForNewBuffers, memory, memoryClosed, produced,
                   driver, finisher, destroyer, consumer>>

\* One turn of the loop: getBuffer, and setNoMorePages by the state read before.
AddDeclaredBuffer(c) ==
    /\ coordinator.pc = "create"
    /\ c \in Declared(outputBuffers) \ DOMAIN buffers
    /\ CanGetBuffer(c)
    /\ PutBuffer(c, IF CanAddPages(coordinator.read) THEN NewBuffer ELSE SetNoMorePages(NewBuffer))
    /\ referenceCount' = AddReference(Range(NewBuffer.pages))
    /\ UNCHANGED <<state, outputBuffers, lock, initialPagesForNewBuffers, bufferedBytes,
                   memoryClosed, produced, driver, finisher, coordinator, destroyer, consumer>>

\* getBuffer throws, and the call ends there.
SetOutputBuffersThrows(c) ==
    /\ coordinator.pc = "create"
    /\ c \in Declared(outputBuffers) \ DOMAIN buffers
    /\ ~CanGetBuffer(c)
    /\ lock' = FALSE
    /\ coordinator' = [pc |-> "threw", read |-> "OPEN"]
    /\ UNCHANGED <<state, outputBuffers, buffers, initialPagesForNewBuffers, memory,
                   memoryClosed, produced, driver, finisher, destroyer, consumer>>

\* The two compare-and-sets at the end of the synchronized block.
ToNoMoreBuffers ==
    /\ coordinator.pc = "create"
    /\ Declared(outputBuffers) \subseteq DOMAIN buffers
    /\ IF IsNoMoreBufferIds(outputBuffers)
       THEN /\ CompareAndSet("OPEN", "NO_MORE_BUFFERS")
            /\ coordinator' = [pc |-> "flushing", read |-> "OPEN"]
            /\ UNCHANGED lock
       ELSE /\ lock' = FALSE
            /\ coordinator' = [pc |-> "noMoreBuffers", read |-> "OPEN"]
            /\ UNCHANGED state
    /\ UNCHANGED <<outputBuffers, buffers, initialPagesForNewBuffers, memory, memoryClosed,
                   produced, driver, finisher, destroyer, consumer>>

NoMorePagesToFlushing ==
    /\ coordinator.pc = "flushing"
    /\ CompareAndSet("NO_MORE_PAGES", "FLUSHING")
    /\ lock' = FALSE
    /\ coordinator' = [coordinator EXCEPT !.pc = "noMoreBuffers"]
    /\ UNCHANGED <<outputBuffers, buffers, initialPagesForNewBuffers, memory, memoryClosed,
                   produced, driver, finisher, destroyer, consumer>>

\* noMoreBuffers, unless buffers can still be added.
NoMoreBuffers ==
    /\ coordinator.pc = "noMoreBuffers"
    /\ ~lock
    /\ IF CanAddBuffers(state)
       THEN UNCHANGED <<initialPagesForNewBuffers, memory>>
       ELSE DropInitialPages
    /\ coordinator' = [coordinator EXCEPT !.pc = "check"]
    /\ UNCHANGED <<state, outputBuffers, lock, buffers, memoryClosed, produced, driver,
                   finisher, destroyer, consumer>>

\* mutant: the flush is not checked
EndSetOutputBuffersUnchecked ==
    /\ coordinator.pc \in {"check", "recheck"}
    /\ coordinator' = [coordinator EXCEPT !.pc = "idle"]
    /\ UNCHANGED <<state, outputBuffers, lock, buffers, initialPagesForNewBuffers, memory,
                   memoryClosed, produced, driver, finisher, destroyer, consumer>>

\* The first read of the state in checkFlushComplete.
SetOutputBuffersReadsState ==
    /\ coordinator.pc = "check"
    /\ state = "NO_MORE_BUFFERS"
    /\ coordinator' = [coordinator EXCEPT !.pc = "recheck"]
    /\ UNCHANGED <<state, outputBuffers, lock, buffers, initialPagesForNewBuffers, memory,
                   memoryClosed, produced, driver, finisher, destroyer, consumer>>

EndSetOutputBuffers ==
    /\ coordinator.pc \in {"check", "recheck"}
    /\ CheckFlushComplete(coordinator.pc = "recheck")
    /\ coordinator' = [coordinator EXCEPT !.pc = "idle"]
    /\ UNCHANGED <<finisher, consumer>>

SetOutputBuffers ==
    \/ \E v \in DOMAIN History : AcceptOutputBuffers(v)
    \/ \E c \in Consumer : AddDeclaredBuffer(c) \/ SetOutputBuffersThrows(c)
    \/ ToNoMoreBuffers
    \/ NoMorePagesToFlushing
    \/ NoMoreBuffers
    \/ SetOutputBuffersReadsState
    \/ EndSetOutputBuffers

-----------------------------------------------------------------------------
(* destroy and fail. *)

\* The listener of the task's state machine calls destroy of a cancelled task.
Cancel ==
    /\ ~IsTerminal(state)
    /\ TryDestroy(TRUE)
    /\ UNCHANGED <<outputBuffers, lock, buffers, initialPagesForNewBuffers, memory,
                   memoryClosed, produced, driver, finisher, coordinator, consumer>>

DestroyNoMoreBuffers ==
    /\ destroyer.pc = "noMoreBuffers"
    /\ ~lock
    /\ DropInitialPages
    /\ destroyer' = [destroyer EXCEPT !.pc = "snapshot"]
    /\ UNCHANGED <<state, outputBuffers, lock, buffers, memoryClosed, produced, driver,
                   finisher, coordinator, consumer>>

SnapshotForDestroy ==
    /\ destroyer.pc = "snapshot"
    /\ ~lock
    /\ destroyer' = [destroyer EXCEPT !.pc = "destroy", !.todo = DOMAIN buffers]
    /\ UNCHANGED <<state, outputBuffers, lock, buffers, initialPagesForNewBuffers, memory,
                   memoryClosed, produced, driver, finisher, coordinator, consumer>>

DestroyBuffer(c) ==
    /\ destroyer.pc = "destroy"
    /\ c \in destroyer.todo
    /\ PutBuffer(c, Destroy(buffers[c]))
    /\ DereferencePage(Range(buffers[c].pages))
    /\ destroyer' = [destroyer EXCEPT !.todo = @ \ {c}]
    /\ UNCHANGED <<state, outputBuffers, lock, initialPagesForNewBuffers, memoryClosed,
                   produced, driver, finisher, coordinator, consumer>>

\* OutputBufferMemoryManager.close, the end of both destroy and fail.
ForceFreeMemory ==
    /\ \/ destroyer.pc = "destroy" /\ destroyer.todo = {}
       \/ destroyer.pc = "fail"
    /\ bufferedBytes' = 0
    /\ memoryClosed' = TRUE
    /\ destroyer' = [destroyer EXCEPT !.pc = "done"]
    /\ UNCHANGED <<state, outputBuffers, lock, buffers, initialPagesForNewBuffers,
                   referenceCount, produced, driver, finisher, coordinator, consumer>>

\* The listener of the task's state machine calls fail of a failed or aborted task.
Fail ==
    /\ ~IsTerminal(state)
    /\ state' = "FAILED"
    /\ destroyer' = [destroyer EXCEPT !.pc = "fail"]
    /\ UNCHANGED <<outputBuffers, lock, buffers, initialPagesForNewBuffers, memory,
                   memoryClosed, produced, driver, finisher, coordinator, consumer>>

-----------------------------------------------------------------------------
(* get, acknowledge and abort. *)

\* A get of the token after the last page received: it acknowledges the pages
\* before, and is answered when there is something to say.
Get(c) ==
    LET token == Len(consumer[c].received)
        b     == AcknowledgePages(buffers[c], token)
        read  == ProcessRead(b, token)
    IN  /\ consumer[c].pc = "reading"
        /\ ~consumer[c].complete
        /\ c \in DOMAIN buffers
        /\ AnswersNow(b, token)
        /\ PutBuffer(c, b)
        /\ DereferencePage(Range(buffers[c].pages) \ Range(b.pages))
        /\ consumer' = [consumer EXCEPT ![c].received = @ \o read.serializedPages,
                                        ![c].complete = read.bufferComplete]
        /\ UNCHANGED <<state, outputBuffers, lock, initialPagesForNewBuffers, memoryClosed,
                       produced, driver, finisher, coordinator, destroyer>>

\* A consumer aborts its buffer when it has everything, or needs no more.
Abort(c) ==
    /\ consumer[c].pc = "reading"
    /\ c \in DOMAIN buffers
    /\ PutBuffer(c, Destroy(buffers[c]))
    /\ DereferencePage(Range(buffers[c].pages))
    /\ consumer' = [consumer EXCEPT ![c].pc = "check"]
    /\ UNCHANGED <<state, outputBuffers, lock, initialPagesForNewBuffers, memoryClosed,
                   produced, driver, finisher, coordinator, destroyer>>

\* The first read of the state in checkFlushComplete.
AbortReadsState(c) ==
    /\ consumer[c].pc = "check"
    /\ state = "NO_MORE_BUFFERS"
    /\ consumer' = [consumer EXCEPT ![c].pc = "recheck"]
    /\ UNCHANGED <<state, outputBuffers, lock, buffers, initialPagesForNewBuffers, memory,
                   memoryClosed, produced, driver, finisher, coordinator, destroyer>>

EndAbort(c) ==
    /\ consumer[c].pc \in {"check", "recheck"}
    /\ CheckFlushComplete(consumer[c].pc = "recheck")
    /\ consumer' = [consumer EXCEPT ![c].pc = "done"]
    /\ UNCHANGED <<finisher, coordinator>>

-----------------------------------------------------------------------------
\* A driver ends between two calls of enqueue.
DriverDone(d) ==
    /\ driver[d].pc = "idle"
    /\ driver' = [driver EXCEPT ![d].pc = "done"]
    /\ UNCHANGED <<state, outputBuffers, lock, buffers, initialPagesForNewBuffers, memory,
                   memoryClosed, produced, finisher, coordinator, destroyer, consumer>>

\* The rest of the calls that have begun, and the consumers and the coordinator.
BufferNext ==
    \/ \E d \in Driver : Enqueue(d)
    \/ ToFlushing \/ SnapshotForNoMorePages \/ EndSetNoMorePages
    \/ SetOutputBuffers
    \/ DestroyNoMoreBuffers \/ SnapshotForDestroy \/ ForceFreeMemory
    \/ \E c \in Consumer :
         \/ SetNoMorePagesInBuffer(c) \/ DestroyBuffer(c)
         \/ CreateBuffer(c) \/ Get(c) \/ Abort(c)
         \/ AbortReadsState(c) \/ EndAbort(c)

\* The calls of the task that are bound to come.
TaskNext ==
    \/ \E d \in Driver : DriverDone(d)
    \/ DriversDone /\ StartSetNoMorePages("idle")

Next == BufferNext \/ TaskNext \/ Cancel \/ Fail

Spec == Init /\ [][Next]_vars

\* Threads that have begun a call go on, drivers end, the coordinator sends the
\* last version, and consumers read and abort.  Nobody has to cancel or fail the
\* task.  No call can be made again and again, so none can starve another.
FairSpec == Spec /\ WF_vars(BufferNext \/ TaskNext)

-----------------------------------------------------------------------------
(* Properties. *)

\* Who has a reference to p: the drivers that enqueue it, the pages kept for
\* later buffers, and the client buffers that hold it.
Holders(p) ==
    {d \in Driver : driver[d].pc \in {"snapshot", "enqueue"} /\ driver[d].page = p}
      \cup {c \in DOMAIN buffers : p \in Range(buffers[c].pages)}
      \cup {x \in {"initialPages"} : p \in Range(initialPagesForNewBuffers)}

\* Every page's reference count is exactly the number of places that will still
\* dereference it, whatever the threads are doing: a page is neither freed
\* under a reader (addReference's "already been dereferenced") nor leaked.
ReferencesAreExact == \A p \in Page : referenceCount[p] = Cardinality(Holders(p))

\* The memory the buffer reports to the task is that of the pages somebody still
\* references, until it is closed; then it is 0 and stays so, late enqueues and
\* dereferences notwithstanding.
MemoryIsAccounted ==
    bufferedBytes = IF memoryClosed THEN 0 ELSE SizeOf({p \in Page : referenceCount[p] > 0})

\* A consumer that is told its buffer is complete has received every page the
\* drivers enqueued, each once, whether its buffer was there from the start or
\* was created after some pages, by itself or by the coordinator, unless the
\* task was cancelled or has failed.
CompleteConsumerHasEveryPage ==
    state # "FAILED" /\ ~destroyer.cancelled =>
      \A c \in Consumer : consumer[c].complete =>
        /\ Range(consumer[c].received) = 1..produced
        /\ Len(consumer[c].received) = produced

\* setOutputBuffers and setNoMorePages each try two transitions without a common
\* lock; in whatever order the four happen, a buffer that has seen both calls is
\* flushing or over, so that it can finish.
BothCallsMeanFlushing ==
    /\ finisher.pc \notin {"idle", "flushing"}
    /\ IsNoMoreBufferIds(outputBuffers) /\ coordinator.pc \notin {"create", "flushing"}
    => state = "FLUSHING" \/ IsTerminal(state)

\* When the drivers are done and every consumer is through with its buffer, the
\* buffer finishes by itself, whichever of setNoMorePages, setOutputBuffers and
\* the last abort comes last: one of their checkFlushComplete sees it, although
\* it reads the state twice and may miss the step to FLUSHING.
BufferFinishes == <>IsTerminal(state)
=============================================================================
