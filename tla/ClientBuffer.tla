---------------------------- MODULE ClientBuffer ----------------------------
(***************************************************************************)
(* One client's buffer on the producing task (execution/buffer/            *)
(* ClientBuffer.java): a window of pages numbered from 0, of which the     *)
(* client has acknowledged the first currentSequenceId.  Every operator    *)
(* is the body of one synchronized block, as a function of the buffer      *)
(* record.  The modules that own client buffers (the exchange protocol,    *)
(* the broadcast, partitioned and arbitrary output buffers) decide how     *)
(* those blocks interleave.                                                *)
(*                                                                         *)
(* The statistics (rowsAdded, pagesAdded, bufferedBytes, getInfo) are left *)
(* out: they follow pages and currentSequenceId and guard nothing.         *)
(***************************************************************************)
EXTENDS Integers, Sequences, FiniteSetsExt

CONSTANTS Page,      \* the serialized pages
          PageSize,  \* their retained size in bytes
          MaxSize    \* the maxSize of every read (the client's maxResponseSize)

ASSUME PageSizeAssumption == PageSize \in [Page -> Nat]
ASSUME MaxSizeAssumption == MaxSize \in Nat \ {0}

\* The buffer has no pending read.
NoRead == [sequenceId |-> -1]

NewClientBuffer(instance) ==
    [taskInstanceId    |-> instance,
     pages             |-> << >>,
     currentSequenceId |-> 0,
     noMorePages       |-> FALSE,
     destroyed         |-> FALSE,
     pendingRead       |-> NoRead]

-----------------------------------------------------------------------------
(* What a reader is told. *)

BufferResult(b, token, nextToken, complete, pages) ==
    [taskInstanceId  |-> b.taskInstanceId,
     token           |-> token,
     nextToken       |-> nextToken,
     bufferComplete  |-> complete,
     serializedPages |-> pages]

EmptyResults(b, token, complete) == BufferResult(b, token, token, complete, << >>)

Bytes(ps) == MapThenSumSet(LAMBDA i : PageSize[ps[i]], DOMAIN ps)

\* The longest prefix that fits in MaxSize, and not less than one page if there
\* is any.
FittingPages(ps) ==
    LET fits == {n \in 0..Len(ps) : n <= 1 \/ Bytes(SubSeq(ps, 1, n)) <= MaxSize}
    IN  SubSeq(ps, 1, CHOOSE n \in fits : \A m \in fits : m <= n)

\* All pages were acknowledged and no more will come.
AtEndEarly(b) == b.noMorePages \* mutant: the pages still in the buffer are forgotten
AtEnd(b) == b.pages = << >> /\ b.noMorePages

\* The verify() of processRead: a read starts where the window starts unless it
\* is out of order or the buffer has ended.
ReadInWindow(b, seq) ==
    \/ seq < b.currentSequenceId
    \/ AtEnd(b)
    \/ seq = b.currentSequenceId

ProcessRead(b, seq) ==
    IF seq < b.currentSequenceId THEN EmptyResults(b, seq, FALSE)
    ELSE IF AtEnd(b) THEN EmptyResults(b, b.currentSequenceId, TRUE)
    ELSE LET read == FittingPages(b.pages)
         IN  BufferResult(b, seq, seq + Len(read), FALSE, read)

\* getPages answers at once; otherwise the read waits in the buffer.
AnswersNow(b, seq) ==
    b.pages # << >> \/ b.noMorePages \/ seq # b.currentSequenceId

-----------------------------------------------------------------------------
(* The synchronized blocks. *)

\* mutant: the pending read is not taken out
EnqueuePagesNoWakeup(b, ps) ==
    IF b.noMorePages THEN b ELSE [b EXCEPT !.pages = @ \o ps]

EnqueuePages(b, ps) ==
    IF b.noMorePages THEN b
    ELSE [b EXCEPT !.pages = @ \o ps, !.pendingRead = NoRead]

SetNoMorePages(b) ==
    IF b.noMorePages THEN b
    ELSE [b EXCEPT !.noMorePages = TRUE, !.pendingRead = NoRead]

\* The read a thread takes along when EnqueuePages or SetNoMorePages clears it,
\* to process it after the lock is released.
ReadTaken(b) == IF b.noMorePages THEN NoRead ELSE b.pendingRead

Destroy(b) ==
    [b EXCEPT !.pages = << >>, !.noMorePages = TRUE, !.destroyed = TRUE,
              !.pendingRead = NoRead]

\* mutant: the destroyed check is missing
AcknowledgeIgnoredStale(b, seq) == seq < b.currentSequenceId

AcknowledgeIgnored(b, seq) == b.destroyed \/ seq < b.currentSequenceId

\* The checkArgument of acknowledgePages.
AcknowledgeInWindow(b, seq) ==
    AcknowledgeIgnored(b, seq) \/ seq - b.currentSequenceId <= Len(b.pages)

\* mutant: one page too many is dropped
AcknowledgePagesOneMore(b, seq) ==
    IF AcknowledgeIgnored(b, seq) THEN b
    ELSE [b EXCEPT !.pages = SubSeq(@, seq - b.currentSequenceId + 2, Len(@)),
                   !.currentSequenceId = seq]

AcknowledgePages(b, seq) ==
    IF AcknowledgeIgnored(b, seq) THEN b
    ELSE [b EXCEPT !.pages = SubSeq(@, seq - b.currentSequenceId + 1, Len(@)),
                   !.currentSequenceId = seq]

\* The second synchronized block of getPages: an older read is thrown out, and
\* the new one waits if it cannot be answered.
RegisterRead(b, read) ==
    [b EXCEPT !.pendingRead = IF AnswersNow(b, read.sequenceId) THEN NoRead ELSE read]
=============================================================================
