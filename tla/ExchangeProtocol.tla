-------------------------- MODULE ExchangeProtocol --------------------------
(***************************************************************************)
(* The exchange of pages between a producing task and one consumer: the    *)
(* task's ClientBuffer behind TaskResource, and an HttpPageBufferClient    *)
(* that pulls from it over HTTP.                                           *)
(*                                                                         *)
(* The client has one request in flight (its future); wire says how far    *)
(* that request has come.  A request the client has given up on may still  *)
(* reach the server, any number of times and at any moment: lateGets,      *)
(* acknowledgements and lateDelete hold what the network may still         *)
(* deliver, so a lost request is one that is never taken from them.  The   *)
(* worker may be restarted, which makes a new task instance.               *)
(***************************************************************************)
EXTENDS ClientBuffer

CONSTANTS MaxPages,    \* bound: pages one task instance produces
          MaxRestarts  \* bound: restarts of the producing worker

ASSUME MaxPagesAssumption == MaxPages \in Nat
ASSUME MaxRestartsAssumption == MaxRestarts \in Nat

VARIABLES
    (* the producing worker *)
    instance,   \* the current task instance
    sent,       \* per instance, the pages its drivers have enqueued
    ended,      \* per instance, its drivers have finished
    cancelled,  \* the task was cancelled: its output buffer destroyed
    buffer,     \* the ClientBuffer of the current instance
    taken,      \* pending reads a thread took out and has still to process
    (* the network *)
    wire,       \* progress of the request in flight
    reply,      \* the response on its way, when wire = "result"
    lateGets,   \* tokens of abandoned GET requests
    acknowledgements, \* tokens of the fire-and-forget acknowledge requests
    lateDelete, \* a DELETE request was abandoned
    (* HttpPageBufferClient *)
    token, closed, completed, scheduled, future, taskInstanceId,
    (* its ClientCallback, the ExchangeClient *)
    received,   \* pages accepted by addPages
    failed,     \* clientFailed was called
    finished    \* clientFinished was called

producerVars == <<instance, sent, ended, cancelled>>
networkVars  == <<lateGets, acknowledgements, lateDelete>>
clientVars   == <<token, closed, completed, scheduled, future, taskInstanceId>>
callbackVars == <<received, failed, finished>>
vars == <<producerVars, buffer, taken, wire, reply, networkVars, clientVars,
          callbackVars>>

NoInstance == 0
Instance == 1..(MaxRestarts + 1)

\* A read waiting in the buffer.  It is live while the client waits for it;
\* completing the future of any other read has no effect.
Read(seq, live) == [sequenceId |-> seq, live |-> live]
IsLive(read) == read # NoRead /\ read.live
Abandon(read) == IF read = NoRead THEN NoRead ELSE Read(read.sequenceId, FALSE)

NoReply == EmptyResults(NewClientBuffer(NoInstance), 0, FALSE)

Init ==
    /\ instance = 1
    /\ sent = [i \in Instance |-> << >>]
    /\ ended = [i \in Instance |-> FALSE]
    /\ cancelled = FALSE
    /\ buffer = NewClientBuffer(1)
    /\ taken = {}
    /\ wire = "idle"
    /\ reply = NoReply
    /\ lateGets = {}
    /\ acknowledgements = {}
    /\ lateDelete = FALSE
    /\ token = 0
    /\ closed = FALSE
    /\ completed = FALSE
    /\ scheduled = FALSE
    /\ future = "none"
    /\ taskInstanceId = NoInstance
    /\ received = << >>
    /\ failed = FALSE
    /\ finished = FALSE

-----------------------------------------------------------------------------
(* Responses. *)

\* The response of the request in flight is r.
Respond(r) == wire' = "result" /\ reply' = r

NoResponse == UNCHANGED <<wire, reply>>

\* The client has no request in flight any more.
RequestOver == wire' = "idle" /\ reply' = NoReply

\* A read leaves the buffer with an empty result (completeResultFutureWithEmpty).
CompleteWithEmpty(read) ==
    IF IsLive(read) THEN Respond(EmptyResults(buffer, read.sequenceId, FALSE))
    ELSE NoResponse

TakeRead == taken' = taken \cup ({ReadTaken(buffer)} \ {NoRead})

-----------------------------------------------------------------------------
(* The producing worker. *)

\* A driver adds a page (ClientBuffer.enqueuePages up to the lock's release).
\* When the buffer has ended the page is dropped.
Enqueue(p) ==
    /\ ~ended[instance]
    /\ Len(sent[instance]) < MaxPages
    /\ sent' = [sent EXCEPT ![instance] = Append(@, p)]
    /\ buffer' = EnqueuePages(buffer, <<p>>)
    /\ TakeRead
    /\ UNCHANGED <<instance, ended, cancelled, wire, reply, networkVars,
                   clientVars, callbackVars>>

\* The last driver has finished (ClientBuffer.setNoMorePages, likewise).
FinishProducing ==
    /\ ~ended[instance]
    /\ ended' = [ended EXCEPT ![instance] = TRUE]
    /\ buffer' = SetNoMorePages(buffer)
    /\ TakeRead
    /\ UNCHANGED <<instance, sent, cancelled, wire, reply, networkVars,
                   clientVars, callbackVars>>

\* The thread that took a pending read processes it (processRead(pendingRead)).
ProcessTakenRead(read) ==
    /\ read \in taken
    /\ taken' = taken \ {read}
    /\ IF read.live THEN Respond(ProcessRead(buffer, read.sequenceId)) ELSE NoResponse
    /\ UNCHANGED <<producerVars, buffer, networkVars, clientVars, callbackVars>>

\* The task is cancelled: the output buffer destroys its client buffers.
Cancel ==
    /\ ~cancelled
    /\ cancelled' = TRUE
    /\ ended' = [ended EXCEPT ![instance] = TRUE]
    /\ buffer' = Destroy(buffer)
    /\ CompleteWithEmpty(buffer.pendingRead)
    /\ UNCHANGED <<instance, sent, taken, networkVars, clientVars, callbackVars>>

\* The worker is restarted and the task is created again under the same URI.
\* A request that had reached the old process is never answered.
Restart ==
    /\ instance <= MaxRestarts
    /\ instance' = instance + 1
    /\ buffer' = NewClientBuffer(instance + 1)
    /\ taken' = {}
    /\ wire' = IF wire \in {"acknowledged", "waiting"} THEN "lost" ELSE wire
    /\ UNCHANGED <<sent, ended, cancelled, reply, networkVars, clientVars, callbackVars>>

-----------------------------------------------------------------------------
(* TaskResource: the request in flight arrives. *)

\* getResults, first the acknowledgement of everything before the token; an
\* invalid token is an error response.
HandleGetAcknowledge ==
    /\ wire = "get"
    /\ wire' = IF AcknowledgeInWindow(buffer, token) THEN "acknowledged" ELSE "error"
    /\ buffer' = IF AcknowledgeInWindow(buffer, token)
                 THEN AcknowledgePages(buffer, token) ELSE buffer
    /\ UNCHANGED <<producerVars, taken, reply, networkVars, clientVars, callbackVars>>

\* ... then the read, which is answered or waits in the buffer.
HandleGetRead ==
    /\ wire = "acknowledged"
    /\ buffer' = RegisterRead(buffer, Read(token, TRUE))
    /\ IF AnswersNow(buffer, token) THEN Respond(ProcessRead(buffer, token))
       ELSE wire' = "waiting" /\ UNCHANGED reply
    /\ UNCHANGED <<producerVars, taken, networkVars, clientVars, callbackVars>>

\* The read waited for longer than the wait time: addTimeout answers it with an
\* empty result and cancels its future.
AnswerTimeout ==
    /\ wire = "waiting"
    /\ Respond(EmptyResults(buffer, token, FALSE))
    /\ buffer' = [buffer EXCEPT !.pendingRead = Abandon(@)]
    /\ taken' = {Abandon(read) : read \in taken}
    /\ UNCHANGED <<producerVars, networkVars, clientVars, callbackVars>>

\* abortResults.
HandleDelete ==
    /\ wire = "delete"
    /\ wire' = "deleted"
    /\ buffer' = Destroy(buffer)
    /\ UNCHANGED <<producerVars, taken, reply, networkVars, clientVars, callbackVars>>

-----------------------------------------------------------------------------
(* TaskResource: a request the client no longer waits for arrives. *)

\* acknowledgeResults, or the acknowledgement of an abandoned getResults.
HandleLateAcknowledge(t) ==
    /\ t \in acknowledgements \cup lateGets
    /\ AcknowledgeInWindow(buffer, t)
    /\ buffer' = AcknowledgePages(buffer, t)
    /\ UNCHANGED <<producerVars, taken, wire, reply, networkVars, clientVars,
                   callbackVars>>

\* The read of an abandoned getResults, after its acknowledgement.
HandleLateRead(t) ==
    /\ t \in lateGets
    /\ buffer.destroyed \/ t <= buffer.currentSequenceId
    /\ buffer' = RegisterRead(buffer, Read(t, FALSE))
    /\ CompleteWithEmpty(buffer.pendingRead)
    /\ UNCHANGED <<producerVars, taken, networkVars, clientVars, callbackVars>>

HandleLateDelete ==
    /\ lateDelete
    /\ buffer' = Destroy(buffer)
    /\ CompleteWithEmpty(buffer.pendingRead)
    /\ UNCHANGED <<producerVars, taken, networkVars, clientVars, callbackVars>>

-----------------------------------------------------------------------------
(* HttpPageBufferClient. *)

\* scheduleRequest, called by an ExchangeClient that has not failed.
ScheduleRequest ==
    /\ ~failed
    /\ ~closed /\ future = "none" /\ ~scheduled
    /\ scheduled' = TRUE
    /\ UNCHANGED <<producerVars, buffer, taken, wire, reply, networkVars, token,
                   closed, completed, future, taskInstanceId, callbackVars>>

NextRequestGet == "get" \* mutant: the complete buffer is never released
NextRequest == IF completed THEN "delete" ELSE "get"

\* initiateRequest, on the scheduler.
InitiateRequest ==
    /\ scheduled
    /\ scheduled' = FALSE
    /\ IF closed \/ future # "none" THEN UNCHANGED <<future, wire>>
       ELSE future' = NextRequest /\ wire' = NextRequest
    /\ UNCHANGED <<producerVars, buffer, taken, reply, networkVars, token, closed,
                   completed, taskInstanceId, callbackVars>>

\* The pages of a response count only when they start at the client's token.
NewPages(r) == IF r.token = token THEN r.serializedPages ELSE << >>

NextTokenStale(r) == token \* mutant: the token is not advanced
NextToken(r) == IF r.token = token THEN r.nextToken ELSE token

\* The first response binds the client to an instance of the task.
AnyInstance(r) == TRUE \* mutant: the instance is not compared
SameInstance(r) == taskInstanceId \in {NoInstance, r.taskInstanceId}

\* onSuccess of a GET from the expected task instance.
ReceivePages ==
    /\ wire = "result"
    /\ SameInstance(reply)
    /\ taskInstanceId' = reply.taskInstanceId
    /\ token' = NextToken(reply)
    /\ acknowledgements' = IF NewPages(reply) = << >> THEN acknowledgements
                           ELSE acknowledgements \cup {reply.nextToken}
    /\ received' = received \o NewPages(reply)
    /\ completed' = (completed \/ reply.bufferComplete)
    /\ future' = "none"
    /\ RequestOver
    /\ UNCHANGED <<producerVars, buffer, taken, lateGets, lateDelete, closed,
                   scheduled, failed, finished>>

\* onSuccess of a GET answered by another instance of the task, or a response
\* that is an error: a PrestoException, which fails the client.
ReceiveFatal ==
    /\ \/ wire = "error"
       \/ wire = "result" /\ ~SameInstance(reply)
    /\ failed' = TRUE
    /\ future' = "none"
    /\ RequestOver
    /\ UNCHANGED <<producerVars, buffer, taken, networkVars, token, closed,
                   completed, scheduled, taskInstanceId, received, finished>>

\* What becomes of the request in flight when the client stops waiting for it.
AbandonRequest ==
    /\ lateGets' = IF future = "get" THEN lateGets \cup {token} ELSE lateGets
    /\ lateDelete' = (lateDelete \/ future = "delete")
    /\ buffer' = [buffer EXCEPT !.pendingRead = Abandon(@)]
    /\ taken' = {Abandon(read) : read \in taken}

\* onFailure of a request: the transport failed.  Once the backoff says that it
\* has been failing for too long the exchange fails, otherwise the client is
\* rescheduled.
RequestFails ==
    /\ future # "none"
    /\ AbandonRequest
    /\ failed' \in (IF closed THEN {failed} ELSE {failed, TRUE})
    /\ future' = "none"
    /\ RequestOver
    /\ UNCHANGED <<producerVars, acknowledgements, token, closed, completed,
                   scheduled, taskInstanceId, received, finished>>

\* onSuccess of a DELETE.
ReceiveDeleted ==
    /\ wire = "deleted"
    /\ closed' = TRUE
    /\ finished' = TRUE
    /\ future' = "none"
    /\ RequestOver
    /\ UNCHANGED <<producerVars, buffer, taken, networkVars, token, completed,
                   scheduled, taskInstanceId, received, failed>>

\* close(), when the consumer needs no more pages: the request in flight is
\* cancelled and a DELETE is sent.
Close ==
    /\ ~closed
    /\ closed' = TRUE
    /\ AbandonRequest
    /\ future' = "delete"
    /\ wire' = "delete"
    /\ reply' = NoReply
    /\ UNCHANGED <<producerVars, acknowledgements, token, completed,
                   scheduled, taskInstanceId, callbackVars>>

-----------------------------------------------------------------------------
Token == 0..MaxPages

\* Every step but the end of the consumer's or the task's need for the pages.
Exchange ==
    \/ \E p \in Page : Enqueue(p)
    \/ FinishProducing
    \/ \E read \in taken : ProcessTakenRead(read)
    \/ HandleGetAcknowledge
    \/ HandleGetRead
    \/ AnswerTimeout
    \/ HandleDelete
    \/ \E t \in Token : HandleLateAcknowledge(t)
    \/ \E t \in Token : HandleLateRead(t)
    \/ HandleLateDelete
    \/ ScheduleRequest
    \/ InitiateRequest
    \/ ReceivePages
    \/ ReceiveFatal
    \/ RequestFails
    \/ ReceiveDeleted

Next == Exchange \/ Cancel \/ Restart \/ Close

Spec == Init /\ [][Next]_vars

\* The threads of both processes run, and a request that is sent again and again
\* is answered in the end: the client retries until its backoff gives up.
Fairness ==
    /\ WF_vars(FinishProducing)
    /\ WF_vars(\E read \in taken : ProcessTakenRead(read))
    /\ WF_vars(ScheduleRequest)
    /\ WF_vars(InitiateRequest)
    /\ WF_vars(wire = "lost" /\ RequestFails)
    /\ SF_vars(HandleGetAcknowledge)
    /\ SF_vars(HandleGetRead)
    /\ SF_vars(AnswerTimeout)
    /\ SF_vars(ReceiveFatal)
    /\ SF_vars(HandleDelete)
    /\ SF_vars(ReceivePages)
    /\ SF_vars(ReceiveDeleted)

LiveSpec == Spec /\ Fairness

-----------------------------------------------------------------------------
(* Properties. *)

Result == [taskInstanceId : Instance \cup {NoInstance}, token : Token,
           nextToken : Token, bufferComplete : BOOLEAN,
           serializedPages : Seq(Page)]

PendingRead == [sequenceId : Token, live : BOOLEAN]

Buffer == [taskInstanceId : Instance, pages : Seq(Page), currentSequenceId : Token,
           noMorePages : BOOLEAN, destroyed : BOOLEAN,
           pendingRead : PendingRead \cup {NoRead}]

\* The state has the types the classes declare.
TypeOK ==
    /\ instance \in Instance
    /\ sent \in [Instance -> Seq(Page)]
    /\ ended \in [Instance -> BOOLEAN]
    /\ cancelled \in BOOLEAN
    /\ buffer \in Buffer
    /\ taken \subseteq PendingRead
    /\ wire \in {"idle", "get", "acknowledged", "waiting", "result", "error",
                 "lost", "delete", "deleted"}
    /\ reply \in Result
    /\ lateGets \subseteq Token
    /\ acknowledgements \subseteq Token
    /\ lateDelete \in BOOLEAN
    /\ token \in Token
    /\ closed \in BOOLEAN
    /\ completed \in BOOLEAN
    /\ scheduled \in BOOLEAN
    /\ future \in {"none", "get", "delete"}
    /\ taskInstanceId \in Instance \cup {NoInstance}
    /\ received \in Seq(Page)
    /\ failed \in BOOLEAN
    /\ finished \in BOOLEAN

\* Whatever is lost, repeated or late, and across a restart of the worker, the
\* pages handed to ExchangeClient.addPages are the first pages of one task
\* instance, each once and in order.
ExactlyOnceInOrder ==
    IF taskInstanceId = NoInstance THEN received = << >>
    ELSE \E n \in 0..Len(sent[taskInstanceId]) : received = SubSeq(sent[taskInstanceId], 1, n)

\* The client takes the buffer for complete only after it has received all that
\* the task produced: an empty result with the finished flag is never sent
\* early.  (A cancelled task's pages are not needed and may be missing.)
CompleteMeansAllReceived ==
    completed /\ ~cancelled =>
        ended[taskInstanceId] /\ received = sent[taskInstanceId]

\* acknowledgePages drops no page the client has not received, however late or
\* often an acknowledgement arrives: the pages produced are the ones that were
\* received and acknowledged, followed by the ones in the buffer.
UnreceivedPagesAreKept ==
    ~buffer.destroyed /\ taskInstanceId = instance =>
        /\ buffer.currentSequenceId <= Len(received)
        /\ sent[instance] = SubSeq(received, 1, buffer.currentSequenceId) \o buffer.pages

\* No reader is forgotten: a read waits in the buffer only while there is nothing
\* to tell it (ClientBuffer answers or takes the read whenever a page or the end
\* arrives).
WaitingReaderHasNothingToRead ==
    IsLive(buffer.pendingRead) =>
        /\ buffer.pages = << >> /\ ~buffer.noMorePages
        /\ buffer.pendingRead.sequenceId = buffer.currentSequenceId

\* The checkArgument of acknowledgePages and the verify of processRead hold for
\* every request, whatever its delay, as long as the worker is not restarted.
SequenceIdsAreValid ==
    instance = 1 =>
        /\ wire # "error"
        /\ \A t \in acknowledgements \cup lateGets : AcknowledgeInWindow(buffer, t)
        /\ \A read \in taken : ReadInWindow(buffer, read.sequenceId)
        /\ wire = "acknowledged" => ReadInWindow(buffer, token)

-----------------------------------------------------------------------------
(* The inductive invariant behind the safety properties. *)

\* ps is what source holds after its first n pages, as far as ps goes.
SegmentOf(ps, source, n) ==
    n + Len(ps) <= Len(source) /\ \A k \in 1..Len(ps) : ps[k] = source[n + k]

\* Instances that do not exist yet have produced nothing.
ProducersInv ==
    /\ \A i \in Instance : Len(sent[i]) <= MaxPages
    /\ \A i \in Instance : i > instance => sent[i] = << >> /\ ~ended[i]

\* The buffer is the window of the produced pages that starts at
\* currentSequenceId, until it is destroyed.
WindowInv ==
    /\ buffer.taskInstanceId = instance
    /\ IF buffer.destroyed THEN buffer.pages = << >> /\ buffer.noMorePages
       ELSE /\ SegmentOf(buffer.pages, sent[instance], buffer.currentSequenceId)
            /\ buffer.currentSequenceId + Len(buffer.pages) = Len(sent[instance])
            /\ buffer.noMorePages = ended[instance]

\* No request, and so no acknowledgement, is ahead of the client's token.
TokensInv ==
    /\ buffer.currentSequenceId <= token
    /\ \A t \in lateGets \cup acknowledgements : t <= token

\* The client holds the first token pages of the instance it is bound to.
ClientInv ==
    /\ Len(received) = token
    /\ taskInstanceId <= instance
    /\ IF taskInstanceId = NoInstance THEN token = 0
       ELSE SegmentOf(received, sent[taskInstanceId], 0)

\* Reads wait at or before the start of the window, and one of them at most is
\* the client's.
ReadsInv ==
    /\ \A read \in taken \cup ({buffer.pendingRead} \ {NoRead}) :
          /\ read.sequenceId <= buffer.currentSequenceId \/ buffer.destroyed
          /\ read.live => wire = "waiting" /\ read.sequenceId = token
    /\ IsLive(buffer.pendingRead) => \A read \in taken : ~read.live
    /\ wire = "acknowledged" => token <= buffer.currentSequenceId \/ buffer.destroyed
    /\ WaitingReaderHasNothingToRead

\* The request in flight and the client's future agree, and a client that
\* closes the buffer reads no more.
RequestInv ==
    /\ future = CASE wire = "idle" -> "none"
                  [] wire \in {"delete", "deleted"} -> "delete"
                  [] OTHER -> "get"
    /\ future = "get" => ~completed /\ ~closed
    /\ future = "delete" \/ lateDelete \/ finished => completed \/ closed
    /\ buffer.destroyed => cancelled \/ completed \/ closed
    /\ wire = "error" => instance > 1

\* The client may use the response that is on its way.
ReplyInv ==
    wire = "result" =>
        /\ reply.taskInstanceId \in 1..instance
        /\ reply.nextToken = reply.token + Len(reply.serializedPages)
        /\ taskInstanceId \in {NoInstance, reply.taskInstanceId} =>
              /\ reply.token = token =>
                    SegmentOf(reply.serializedPages, sent[reply.taskInstanceId], token)
              /\ reply.bufferComplete /\ ~cancelled =>
                    /\ ended[reply.taskInstanceId]
                    /\ token = Len(sent[reply.taskInstanceId])
                    /\ reply.serializedPages = << >>

CompletedInv ==
    completed /\ ~cancelled =>
        /\ taskInstanceId # NoInstance
        /\ ended[taskInstanceId]
        /\ token = Len(sent[taskInstanceId])

\* All of it: what every state of the exchange satisfies.
Inv ==
    /\ TypeOK
    /\ ProducersInv
    /\ WindowInv
    /\ TokensInv
    /\ ClientInv
    /\ ReadsInv
    /\ RequestInv
    /\ ReplyInv
    /\ CompletedInv

-----------------------------------------------------------------------------
\* The exchange as the consumer sees it.  The source is the task instance that
\* the client is bound to by the first response.
Channel ==
    INSTANCE PageChannel WITH
        attached  <- taskInstanceId # NoInstance,
        produced  <- IF taskInstanceId = NoInstance THEN << >> ELSE sent[taskInstanceId],
        ended     <- IF taskInstanceId = NoInstance THEN FALSE ELSE ended[taskInstanceId],
        abandoned <- cancelled,
        delivered <- received,
        complete  <- completed

\* The exchange implements the channel: every step of the client, the network and
\* the producing worker is a step of the channel or invisible to it.
ImplementsChannel == Channel!Spec

\* The consumer gets to the end and releases the producer's buffer, unless the
\* exchange fails or is closed early.
ExchangeEnds == <>(finished \/ failed \/ closed)
=============================================================================
