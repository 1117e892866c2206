----------------------- MODULE ExchangeProtocolProofs -----------------------
(***************************************************************************)
(* The safety of the exchange for every set of pages, page sizes, response *)
(* size, number of pages and number of restarts.                           *)
(***************************************************************************)
EXTENDS ExchangeProtocol, SequenceTheorems, SumTheorems

-----------------------------------------------------------------------------
(* What a read returns. *)

\* processRead returns the first pages of the buffer, and at least one if there is
\* any.
LEMMA FittingPagesIsPrefix ==
    ASSUME NEW ps \in Seq(Page)
    PROVE  \E n \in 0..Len(ps) :
              /\ FittingPages(ps) = SubSeq(ps, 1, n)
              /\ ps # << >> => n >= 1
<1> DEFINE fits == {n \in 0..Len(ps) : n <= 1 \/ Bytes(SubSeq(ps, 1, n)) <= MaxSize}
           last == CHOOSE n \in fits : \A m \in fits : m <= n
<1>1. Len(ps) \in Nat /\ 0 \in fits /\ (ps # << >> => 1 \in fits)
  OBVIOUS
<1>2. \E m \in fits : \A k \in fits : k <= m
  <2>1. fits \in SUBSET (0..Len(ps)) /\ fits # {}
    BY <1>1
  <2> HIDE DEF fits
  <2> QED
    BY <1>1, <2>1, BoundedSetHasMaximum, Zenon
<1>3. last \in fits /\ \A m \in fits : m <= last
  <2> HIDE DEF fits
  <2> QED
    BY <1>2
<1>4. ps # << >> => last >= 1
  <2> HIDE DEF fits, last
  <2> QED
    BY <1>1, <1>3
<1>5. FittingPages(ps) = SubSeq(ps, 1, last)
  BY DEF FittingPages
<1> QED
  BY <1>3, <1>4, <1>5, Zenon

-----------------------------------------------------------------------------
(* Segments of what a task instance has produced. *)

\* A segment stays one when the source produces another page.
LEMMA SegmentExtends ==
    ASSUME NEW source \in Seq(Page), NEW p \in Page, NEW ps \in Seq(Page),
           NEW n \in Nat, SegmentOf(ps, source, n)
    PROVE  SegmentOf(ps, Append(source, p), n)
BY AppendProperties DEF SegmentOf

\* The window grows with the source (enqueuePages).
LEMMA SegmentGrows ==
    ASSUME NEW source \in Seq(Page), NEW p \in Page, NEW ps \in Seq(Page),
           NEW n \in Nat, SegmentOf(ps, source, n), n + Len(ps) = Len(source)
    PROVE  /\ SegmentOf(ps \o <<p>>, Append(source, p), n)
           /\ n + Len(ps \o <<p>>) = Len(Append(source, p))
           /\ ps \o <<p>> \in Seq(Page)
<1>1. ps \o <<p>> = Append(ps, p)
  BY AppendIsConcat
<1>2. /\ Len(Append(source, p)) = Len(source) + 1
      /\ \A i \in 1..Len(source) : Append(source, p)[i] = source[i]
      /\ Append(source, p)[Len(source) + 1] = p
  BY AppendProperties
<1>3. /\ Append(ps, p) \in Seq(Page)
      /\ Len(Append(ps, p)) = Len(ps) + 1
      /\ \A i \in 1..Len(ps) : Append(ps, p)[i] = ps[i]
      /\ Append(ps, p)[Len(ps) + 1] = p
  BY AppendProperties
<1> QED
  BY <1>1, <1>2, <1>3 DEF SegmentOf

\* Dropping pages from the front moves the start (acknowledgePages).
LEMMA SegmentDrops ==
    ASSUME NEW source \in Seq(Page), NEW ps \in Seq(Page), NEW n \in Nat,
           NEW d \in 0..Len(ps), SegmentOf(ps, source, n)
    PROVE  LET rest == SubSeq(ps, d + 1, Len(ps))
           IN  /\ rest \in Seq(Page)
               /\ Len(rest) = Len(ps) - d
               /\ SegmentOf(rest, source, n + d)
<1> DEFINE rest == SubSeq(ps, d + 1, Len(ps))
<1>1. /\ rest \in Seq(Page)
      /\ Len(rest) = Len(ps) - d
      /\ \A i \in 1..Len(rest) : rest[i] = ps[d + i]
  <2>1. d + 1 \in 1..(Len(ps) + 1) /\ Len(ps) \in Nat
    OBVIOUS
  <2>2. rest \in Seq(Page) /\ Len(rest) = Len(ps) - d
    BY <2>1
  <2>3. ASSUME NEW i \in 1..Len(rest) PROVE rest[i] = ps[d + i]
    BY <2>1, <2>2
  <2> QED
    BY <2>2, <2>3
<1> HIDE DEF rest
<1>2. ASSUME NEW k \in 1..Len(rest) PROVE rest[k] = source[(n + d) + k]
  <2>1. d + k \in 1..Len(ps) /\ n + (d + k) = (n + d) + k
    BY <1>1
  <2>2. ps[d + k] = source[n + (d + k)]
    BY <2>1 DEF SegmentOf
  <2> QED
    BY <1>1, <2>1, <2>2
<1>3. n + d + Len(rest) <= Len(source)
  BY <1>1 DEF SegmentOf
<1>4. SegmentOf(rest, source, n + d)
  BY <1>2, <1>3 DEF SegmentOf
<1> QED
  BY <1>1, <1>4 DEF rest

\* A prefix of a segment is one (processRead).
LEMMA SegmentTakes ==
    ASSUME NEW source \in Seq(Page), NEW ps \in Seq(Page), NEW n \in Nat,
           NEW m \in 0..Len(ps), SegmentOf(ps, source, n)
    PROVE  LET first == SubSeq(ps, 1, m)
           IN  /\ first \in Seq(Page)
               /\ Len(first) = m
               /\ SegmentOf(first, source, n)
<1> DEFINE first == SubSeq(ps, 1, m)
<1>1. /\ first \in Seq(Page)
      /\ Len(first) = m
      /\ \A i \in 1..Len(first) : first[i] = ps[i]
  OBVIOUS
<1> QED
  BY <1>1 DEF SegmentOf

\* Adjacent segments join (the client's received pages).
LEMMA SegmentsJoin ==
    ASSUME NEW source \in Seq(Page), NEW a \in Seq(Page), NEW b \in Seq(Page),
           SegmentOf(a, source, 0), SegmentOf(b, source, Len(a))
    PROVE  /\ a \o b \in Seq(Page)
           /\ Len(a \o b) = Len(a) + Len(b)
           /\ SegmentOf(a \o b, source, 0)
<1>1. /\ a \o b \in Seq(Page)
      /\ Len(a \o b) = Len(a) + Len(b)
      /\ \A i \in 1..(Len(a) + Len(b)) :
            (a \o b)[i] = IF i <= Len(a) THEN a[i] ELSE b[i - Len(a)]
  BY ConcatProperties
<1>2. /\ Len(a) + Len(b) <= Len(source)
      /\ \A k \in 1..Len(a) : a[k] = source[k]
      /\ \A k \in 1..Len(b) : b[k] = source[Len(a) + k]
  <2>1. \A k \in 1..Len(a) : 0 + k = k
    OBVIOUS
  <2> QED
    BY <2>1 DEF SegmentOf
<1>3. ASSUME NEW i \in 1..Len(a \o b) PROVE (a \o b)[i] = source[i]
  <2>1. CASE i <= Len(a)
    BY <1>1, <1>2, <2>1
  <2>2. CASE ~(i <= Len(a))
    <3>1. i - Len(a) \in 1..Len(b)
      BY <1>1, <2>2
    <3> QED
      BY <1>1, <1>2, <2>2, <3>1
  <2> QED
    BY <2>1, <2>2
<1> QED
  BY <1>1, <1>2, <1>3 DEF SegmentOf

\* A segment from the start is a prefix.
LEMMA SegmentIsPrefix ==
    ASSUME NEW source \in Seq(Page), NEW ps \in Seq(Page), SegmentOf(ps, source, 0)
    PROVE  \E n \in 0..Len(source) : ps = SubSeq(source, 1, n)
<1>1. Len(ps) <= Len(source) /\ \A k \in 1..Len(ps) : ps[k] = source[k]
  BY DEF SegmentOf
<1>2. ps = SubSeq(source, 1, Len(ps))
  BY <1>1
<1>3. Len(ps) \in 0..Len(source)
  BY <1>1
<1> QED
  BY <1>2, <1>3, Zenon

-----------------------------------------------------------------------------
(* The answers the buffer gives. *)

\* Facts of the types that the steps below need all the time.
LEMMA TypeFacts ==
    ASSUME TypeOK
    PROVE  /\ Instance \subseteq Nat \ {0} /\ NoInstance \notin Instance
           /\ instance \in Nat /\ sent[instance] \in Seq(Page)
           /\ Token \subseteq Nat /\ token \in Nat
           /\ buffer.currentSequenceId \in Nat /\ buffer.currentSequenceId \in Token
           /\ buffer.pages \in Seq(Page) /\ buffer.noMorePages \in BOOLEAN
           /\ buffer.destroyed \in BOOLEAN /\ buffer.taskInstanceId \in Instance
BY MaxPagesAssumption, MaxRestartsAssumption DEF TypeOK, Instance, NoInstance, Token, Buffer

\* A step of the server that neither moves the window nor touches what the client
\* and the network hold leaves their invariants alone.
LEMMA ServerFrame ==
    ASSUME TypeOK, TokensInv, ClientInv, CompletedInv,
           UNCHANGED <<producerVars, networkVars, clientVars, callbackVars>>,
           buffer' \in Buffer, buffer'.currentSequenceId = buffer.currentSequenceId,
           taken' \subseteq PendingRead, reply' \in Result,
           wire' = wire \/ wire' \in {"waiting", "result", "error"}
    PROVE  TypeOK' /\ TokensInv' /\ ClientInv' /\ CompletedInv'
<1>1. /\ instance' = instance /\ sent' = sent /\ ended' = ended /\ cancelled' = cancelled
      /\ lateGets' = lateGets /\ acknowledgements' = acknowledgements
      /\ lateDelete' = lateDelete
      /\ token' = token /\ closed' = closed /\ completed' = completed
      /\ scheduled' = scheduled /\ future' = future /\ taskInstanceId' = taskInstanceId
      /\ received' = received /\ failed' = failed /\ finished' = finished
  BY Zenon DEF producerVars, networkVars, clientVars, callbackVars
<1>2. wire' \in {"idle", "get", "acknowledged", "waiting", "result", "error",
                 "lost", "delete", "deleted"}
  BY Zenon DEF TypeOK
<1>3. TypeOK'
  BY <1>1, <1>2, Zenon DEF TypeOK
<1>4. TokensInv' /\ CompletedInv'
  BY <1>1, Zenon DEF TokensInv, CompletedInv
<1>5. ClientInv'
  BY <1>1, Zenon DEF ClientInv
<1> QED
  BY <1>3, <1>4, <1>5, Zenon

\* ... and so do the producers', who are not touched either.
LEMMA ProducersFrame ==
    ASSUME ProducersInv, UNCHANGED producerVars
    PROVE  ProducersInv'
BY Zenon DEF ProducersInv, producerVars

\* What processRead tells the request in flight: the pages from the client's token
\* on, or the end only when the client has all pages.
LEMMA ReadAnswer ==
    ASSUME TypeOK, ProducersInv, WindowInv, TokensInv, ClientInv,
           token <= buffer.currentSequenceId \/ buffer.destroyed
    PROVE  LET r == ProcessRead(buffer, token)
           IN  /\ r \in Result
               /\ r.taskInstanceId = instance
               /\ r.nextToken = r.token + Len(r.serializedPages)
               /\ taskInstanceId \in {NoInstance, instance} /\ r.token = token =>
                     SegmentOf(r.serializedPages, sent[instance], token)
               /\ r.bufferComplete =>
                     /\ r.serializedPages = << >>
                     /\ ~buffer.destroyed => /\ ended[instance]
                                             /\ token = Len(sent[instance])
<1> DEFINE r == ProcessRead(buffer, token)
           S == sent[instance]
           n == buffer.currentSequenceId
<1>1. /\ Instance \subseteq Nat \ {0} /\ NoInstance \notin Instance
      /\ instance \in Nat /\ instance \in Instance
      /\ S \in Seq(Page) /\ Len(S) \in Nat /\ Len(S) <= MaxPages
      /\ Token = 0..MaxPages /\ token \in Token /\ n \in Token /\ MaxPages \in Nat
      /\ buffer.pages \in Seq(Page)
      /\ n <= token
      /\ buffer.taskInstanceId = instance
  BY TypeFacts, MaxPagesAssumption DEF TypeOK, ProducersInv, WindowInv, TokensInv, Token
<1>2. CASE buffer.pages = << >> /\ buffer.noMorePages
  <2>1. r = [taskInstanceId |-> instance, token |-> n, nextToken |-> n,
             bufferComplete |-> TRUE, serializedPages |-> << >>]
    BY <1>1, <1>2 DEF ProcessRead, AtEnd, EmptyResults, BufferResult
  <2>2. r \in Result
    BY <1>1, <2>1 DEF Result
  <2>3. taskInstanceId \in {NoInstance, instance} => token <= Len(S)
    BY <1>1 DEF ClientInv, SegmentOf
  <2>4. ASSUME ~buffer.destroyed PROVE ended[instance] /\ token = Len(S)
    <3>1. /\ n + Len(buffer.pages) = Len(S)
          /\ buffer.noMorePages = ended[instance]
      BY <2>4 DEF WindowInv
    <3>2. Len(buffer.pages) = 0
      BY <1>2
    <3>3. token = Len(S)
      BY <1>1, <2>4, <3>1, <3>2
    <3> QED
      BY <1>2, <3>1, <3>3
  <2>5. taskInstanceId \in {NoInstance, instance} => SegmentOf(<< >>, S, token)
    BY <1>1, <2>3 DEF SegmentOf
  <2> QED
    BY <1>1, <2>1, <2>2, <2>4, <2>5
<1>3. CASE ~(buffer.pages = << >> /\ buffer.noMorePages)
  <2>1. PICK m \in 0..Len(buffer.pages) : FittingPages(buffer.pages) = SubSeq(buffer.pages, 1, m)
    BY <1>1, FittingPagesIsPrefix, Zenon
  <2>2. ~buffer.destroyed /\ token = n
    BY <1>1, <1>3 DEF WindowInv
  <2>3. SegmentOf(buffer.pages, S, n) /\ n + Len(buffer.pages) = Len(S)
    BY <2>2 DEF WindowInv
  <2> DEFINE first == SubSeq(buffer.pages, 1, m)
  <2>4. first \in Seq(Page) /\ Len(first) = m /\ SegmentOf(first, S, n)
    BY <1>1, <2>3, SegmentTakes
  <2>5. r = [taskInstanceId |-> instance, token |-> n, nextToken |-> n + m,
             bufferComplete |-> FALSE, serializedPages |-> first]
    <3>0. ~(token < n)
      BY <1>1, <2>2
    <3>1. r = BufferResult(buffer, token, token + Len(FittingPages(buffer.pages)), FALSE,
                           FittingPages(buffer.pages))
      BY <1>3, <3>0, Zenon DEF ProcessRead, AtEnd
    <3>2. FittingPages(buffer.pages) = first /\ Len(FittingPages(buffer.pages)) = m
      BY <2>1, <2>4
    <3>3. buffer.taskInstanceId = instance /\ token = n
      BY <1>1, <2>2
    <3> HIDE DEF r, first, n
    <3> QED
      BY <3>1, <3>2, <3>3 DEF BufferResult
  <2> HIDE DEF first
  <2>6. n + m \in Token
    BY <1>1, <2>3
  <2>7. r \in Result
    BY <1>1, <2>4, <2>5, <2>6 DEF Result
  <2> QED
    BY <1>1, <2>2, <2>4, <2>5, <2>7
<1> QED
  BY <1>2, <1>3

-----------------------------------------------------------------------------
(* What the operations on the buffer change. *)

\* Two buffers that differ at most in their pending read.
SameWindow(b, c) ==
    /\ c.taskInstanceId = b.taskInstanceId
    /\ c.pages = b.pages
    /\ c.currentSequenceId = b.currentSequenceId
    /\ c.noMorePages = b.noMorePages
    /\ c.destroyed = b.destroyed

\* An empty result is a response.
LEMMA EmptyResultsFacts ==
    ASSUME NEW b, b.taskInstanceId \in Instance \cup {NoInstance},
           NEW t \in Token, NEW c \in BOOLEAN
    PROVE  LET r == EmptyResults(b, t, c)
           IN  /\ r \in Result
               /\ r.taskInstanceId = b.taskInstanceId
               /\ r.token = t /\ r.nextToken = t
               /\ r.bufferComplete = c /\ r.serializedPages = << >>
BY DEF EmptyResults, BufferResult, Result

LEMMA NoReplyType == NoReply \in Result
<1>1. 0 \in Token
  BY MaxPagesAssumption DEF Token
<1>2. NewClientBuffer(NoInstance).taskInstanceId = NoInstance
  BY DEF NewClientBuffer
<1> QED
  BY <1>1, <1>2, EmptyResultsFacts, Zenon DEF NoReply

LEMMA NoReadIsNotRead == NoRead \notin PendingRead
BY MaxPagesAssumption DEF NoRead, PendingRead, Token

\* A read whose client is gone still waits at its sequence id.
LEMMA AbandonFacts ==
    ASSUME NEW read \in PendingRead
    PROVE  /\ Abandon(read) \in PendingRead
           /\ Abandon(read).sequenceId = read.sequenceId
           /\ ~Abandon(read).live
<1>1. Abandon(read) = [sequenceId |-> read.sequenceId, live |-> FALSE]
  BY NoReadIsNotRead DEF Abandon, Read
<1> DEFINE a == [sequenceId |-> read.sequenceId, live |-> FALSE]
<1>2. a \in PendingRead /\ a.sequenceId = read.sequenceId /\ ~a.live
  BY DEF PendingRead
<1> QED
  BY <1>1, <1>2

\* A new task instance has a buffer without pages or readers.
LEMMA NewClientBufferFacts ==
    ASSUME NEW i \in Instance
    PROVE  LET b == NewClientBuffer(i)
           IN  /\ b \in Buffer
               /\ b.taskInstanceId = i /\ b.pages = << >> /\ b.currentSequenceId = 0
               /\ ~b.noMorePages /\ ~b.destroyed /\ b.pendingRead = NoRead
<1>1. 0 \in Token
  BY MaxPagesAssumption DEF Token
<1> QED
  BY <1>1 DEF NewClientBuffer, Buffer

\* Replacing the pending read leaves the window alone (getPages, and a client
\* that is gone).
LEMMA PendingReadFacts ==
    ASSUME NEW b \in Buffer, NEW read \in PendingRead \cup {NoRead}
    PROVE  LET c == [b EXCEPT !.pendingRead = read]
           IN  c \in Buffer /\ SameWindow(b, c) /\ c.pendingRead = read
BY DEF Buffer, SameWindow

LEMMA EnqueuePagesFacts ==
    ASSUME NEW b \in Buffer, NEW p \in Page, ~b.noMorePages
    PROVE  LET c == EnqueuePages(b, <<p>>)
           IN  /\ c \in Buffer
               /\ c.taskInstanceId = b.taskInstanceId
               /\ c.pages = b.pages \o <<p>>
               /\ c.currentSequenceId = b.currentSequenceId
               /\ ~c.noMorePages
               /\ c.destroyed = b.destroyed
               /\ c.pendingRead = NoRead
<1> DEFINE ps == b.pages \o <<p>>
           none == NoRead
           c == [b EXCEPT !.pages = ps, !.pendingRead = none]
<1>1. EnqueuePages(b, <<p>>) = c
  BY DEF EnqueuePages
<1>2. ps \in Seq(Page) /\ none \in PendingRead \cup {NoRead}
  BY DEF Buffer
<1> HIDE DEF ps, none
<1>3. /\ c \in Buffer
      /\ c.taskInstanceId = b.taskInstanceId /\ c.pages = ps
      /\ c.currentSequenceId = b.currentSequenceId /\ ~c.noMorePages
      /\ c.destroyed = b.destroyed /\ c.pendingRead = none
  BY <1>2, Zenon DEF Buffer
<1> HIDE DEF c
<1> QED
  BY <1>1, <1>3 DEF ps, none

LEMMA SetNoMorePagesFacts ==
    ASSUME NEW b \in Buffer, ~b.noMorePages
    PROVE  LET c == SetNoMorePages(b)
           IN  /\ c \in Buffer
               /\ c.taskInstanceId = b.taskInstanceId /\ c.pages = b.pages
               /\ c.currentSequenceId = b.currentSequenceId
               /\ c.noMorePages
               /\ c.destroyed = b.destroyed
               /\ c.pendingRead = NoRead
<1> DEFINE none == NoRead
           c == [b EXCEPT !.noMorePages = TRUE, !.pendingRead = none]
<1>1. SetNoMorePages(b) = c
  BY DEF SetNoMorePages
<1>2. none \in PendingRead \cup {NoRead}
  OBVIOUS
<1> HIDE DEF none
<1>3. /\ c \in Buffer
      /\ c.taskInstanceId = b.taskInstanceId /\ c.pages = b.pages
      /\ c.currentSequenceId = b.currentSequenceId /\ c.noMorePages
      /\ c.destroyed = b.destroyed /\ c.pendingRead = none
  BY <1>2, Zenon DEF Buffer
<1> HIDE DEF c
<1> QED
  BY <1>1, <1>3 DEF none

LEMMA DestroyFacts ==
    ASSUME NEW b \in Buffer
    PROVE  LET c == Destroy(b)
           IN  /\ c \in Buffer
               /\ c.taskInstanceId = b.taskInstanceId /\ c.pages = << >>
               /\ c.currentSequenceId = b.currentSequenceId
               /\ c.noMorePages /\ c.destroyed
               /\ c.pendingRead = NoRead
<1> DEFINE none == NoRead
           ps == << >>
           c == [b EXCEPT !.pages = ps, !.noMorePages = TRUE, !.destroyed = TRUE,
                          !.pendingRead = none]
<1>1. Destroy(b) = c
  BY DEF Destroy
<1>2. ps \in Seq(Page) /\ none \in PendingRead \cup {NoRead}
  OBVIOUS
<1> HIDE DEF ps, none
<1>3. /\ c \in Buffer
      /\ c.taskInstanceId = b.taskInstanceId /\ c.pages = ps
      /\ c.currentSequenceId = b.currentSequenceId /\ c.noMorePages
      /\ c.destroyed /\ c.pendingRead = none
  BY <1>2, Zenon DEF Buffer
<1> HIDE DEF c
<1> QED
  BY <1>1, <1>3 DEF ps, none

\* An acknowledgement inside the window moves its start and nothing else.
LEMMA AcknowledgePagesFacts ==
    ASSUME NEW b \in Buffer, NEW t \in Token, ~AcknowledgeIgnored(b, t)
    PROVE  LET c == AcknowledgePages(b, t)
           IN  /\ c \in Buffer
               /\ c.taskInstanceId = b.taskInstanceId
               /\ c.pages = SubSeq(b.pages, (t - b.currentSequenceId) + 1, Len(b.pages))
               /\ c.currentSequenceId = t
               /\ c.noMorePages = b.noMorePages /\ c.destroyed = b.destroyed
               /\ c.pendingRead = b.pendingRead
<1> DEFINE ps == SubSeq(b.pages, (t - b.currentSequenceId) + 1, Len(b.pages))
           c == [b EXCEPT !.pages = ps, !.currentSequenceId = t]
<1>1. AcknowledgePages(b, t) = c
  BY Zenon DEF AcknowledgePages
<1>2. ps \in Seq(Page)
  BY MaxPagesAssumption DEF Buffer, AcknowledgeIgnored, Token
<1> HIDE DEF ps
<1>3. /\ c \in Buffer
      /\ c.taskInstanceId = b.taskInstanceId /\ c.pages = ps
      /\ c.currentSequenceId = t /\ c.noMorePages = b.noMorePages
      /\ c.destroyed = b.destroyed /\ c.pendingRead = b.pendingRead
  BY <1>2, Zenon DEF Buffer
<1> HIDE DEF c
<1> QED
  BY <1>1, <1>3 DEF ps

-----------------------------------------------------------------------------
(* The parts several steps have in common. *)

\* A response comes from an instance that exists.
LEMMA ReplyFacts ==
    ASSUME Inv, wire = "result"
    PROVE  /\ reply.taskInstanceId \in Instance /\ reply.taskInstanceId <= instance
           /\ reply.token \in Token /\ reply.nextToken \in Token
           /\ reply.serializedPages \in Seq(Page) /\ reply.bufferComplete \in BOOLEAN
<1>1. reply.taskInstanceId \in Instance /\ reply.taskInstanceId <= instance
  BY MaxRestartsAssumption DEF Inv, TypeOK, ReplyInv, Instance
<1>2. reply \in Result
  BY DEF Inv, TypeOK
<1> QED
  BY <1>1, <1>2 DEF Result

LEMMA RespondStep ==
    ASSUME Inv, NEW r \in Result, Respond(r),
           r.taskInstanceId = instance,
           r.nextToken = r.token + Len(r.serializedPages),
           taskInstanceId \in {NoInstance, instance} /\ r.token = token =>
              SegmentOf(r.serializedPages, sent[instance], token),
           r.bufferComplete /\ ~cancelled =>
              /\ ended[instance]
              /\ token = Len(sent[instance])
              /\ r.serializedPages = << >>,
           cancelled => cancelled', \A i \in Instance : ended[i] => ended'[i],
           instance' = instance, sent' = sent, token' = token, taskInstanceId' = taskInstanceId
    PROVE  ReplyInv' /\ reply' \in Result /\ wire' = "result"
<1>1. wire' = "result" /\ reply' = r
  BY DEF Respond
<1>2. r.taskInstanceId \in 1..instance
  BY TypeFacts DEF Inv, TypeOK
<1>3. cancelled \in BOOLEAN /\ ended'[instance] = ended'[r.taskInstanceId]
  BY DEF Inv, TypeOK
<1>4. r.bufferComplete /\ ~cancelled' => ended'[r.taskInstanceId]
  BY <1>3 DEF Inv, TypeOK
<1> QED
  BY <1>1, <1>2, <1>4 DEF ReplyInv

LEMMA RespondEmptyStep ==
    ASSUME Inv, Respond(EmptyResults(buffer, token, FALSE)),
           cancelled => cancelled', \A i \in Instance : ended[i] => ended'[i],
           instance' = instance, sent' = sent, token' = token, taskInstanceId' = taskInstanceId
    PROVE  ReplyInv' /\ reply' \in Result /\ wire' = "result"
<1> DEFINE r == EmptyResults(buffer, token, FALSE)
<1>1. /\ r \in Result /\ r.taskInstanceId = buffer.taskInstanceId
      /\ r.token = token /\ r.nextToken = token
      /\ ~r.bufferComplete /\ r.serializedPages = << >>
  <2>1. buffer.taskInstanceId \in Instance /\ token \in Token
    BY TypeFacts DEF Inv, TypeOK
  <2> QED
    BY <2>1, EmptyResultsFacts, Zenon
<1> HIDE DEF r
<1>2. r.taskInstanceId = instance
  BY <1>1 DEF Inv, WindowInv
<1>3. r.nextToken = r.token + Len(r.serializedPages)
  BY <1>1, TypeFacts DEF Inv
<1>4. ASSUME taskInstanceId \in {NoInstance, instance}
      PROVE  SegmentOf(r.serializedPages, sent[instance], token)
  <2>1. token <= Len(sent[instance])
    BY <1>4, TypeFacts DEF Inv, ClientInv, SegmentOf
  <2> QED
    BY <1>1, <2>1, TypeFacts DEF Inv, SegmentOf
<1>5. Respond(r)
  BY Zenon DEF r
<1> QED
  BY <1>1, <1>2, <1>3, <1>4, <1>5, RespondStep

LEMMA CompleteWithEmptyStep ==
    ASSUME Inv, CompleteWithEmpty(buffer.pendingRead),
           cancelled => cancelled', \A i \in Instance : ended[i] => ended'[i],
           instance' = instance, sent' = sent, token' = token, taskInstanceId' = taskInstanceId
    PROVE  /\ ReplyInv' /\ reply' \in Result
           /\ wire' = wire \/ (wire = "waiting" /\ wire' = "result")
           /\ \A read \in taken : read.live => wire' = "waiting"
<1>1. CASE IsLive(buffer.pendingRead)
  <2>1. /\ wire = "waiting" /\ buffer.pendingRead.sequenceId = token
        /\ \A read \in taken : ~read.live
    BY <1>1 DEF Inv, ReadsInv, IsLive
  <2>2. Respond(EmptyResults(buffer, token, FALSE))
    BY <1>1, <2>1, Zenon DEF CompleteWithEmpty
  <2>3. ReplyInv' /\ reply' \in Result /\ wire' = "result"
    BY <2>2, RespondEmptyStep
  <2> QED
    BY <2>1, <2>3
<1>2. CASE ~IsLive(buffer.pendingRead)
  <2>1. wire' = wire /\ reply' = reply
    BY <1>2 DEF CompleteWithEmpty, NoResponse
  <2>2. reply' \in Result /\ \A read \in taken : read.live => wire' = "waiting"
    BY <2>1 DEF Inv, TypeOK, ReadsInv
  <2>3. wire = "result" => (ended[reply.taskInstanceId] => ended'[reply.taskInstanceId])
    BY ReplyFacts
  <2>4. ReplyInv'
    BY <2>1, <2>3 DEF Inv, ReplyInv
  <2> QED
    BY <2>1, <2>2, <2>4
<1> QED
  BY <1>1, <1>2

LEMMA DestroyStep ==
    ASSUME Inv, buffer' = Destroy(buffer), taken' = taken,
           token' = token, instance' = instance,
           \A read \in taken : read.live => wire' = "waiting",
           wire' = "acknowledged" => wire = "acknowledged"
    PROVE  /\ buffer' \in Buffer /\ buffer'.destroyed
           /\ buffer'.currentSequenceId = buffer.currentSequenceId
           /\ WindowInv' /\ ReadsInv'
<1>1. /\ buffer' \in Buffer
      /\ buffer'.taskInstanceId = buffer.taskInstanceId /\ buffer'.pages = << >>
      /\ buffer'.currentSequenceId = buffer.currentSequenceId
      /\ buffer'.noMorePages /\ buffer'.destroyed
      /\ buffer'.pendingRead = NoRead
  BY DestroyFacts DEF Inv, TypeOK
<1>2. WindowInv'
  BY <1>1 DEF Inv, WindowInv
<1>3. ~IsLive(NoRead)
  BY DEF IsLive
<1>4. ReadsInv'
  BY <1>1, <1>3 DEF Inv, ReadsInv, WaitingReaderHasNothingToRead
<1> QED
  BY <1>1, <1>2, <1>4

LEMMA SameWindowStep ==
    ASSUME Inv, NEW read \in PendingRead \cup {NoRead},
           buffer' = [buffer EXCEPT !.pendingRead = read],
           UNCHANGED producerVars
    PROVE  /\ buffer' \in Buffer /\ SameWindow(buffer, buffer') /\ buffer'.pendingRead = read
           /\ WindowInv' /\ ProducersInv'
<1>1. buffer' \in Buffer /\ SameWindow(buffer, buffer') /\ buffer'.pendingRead = read
  BY PendingReadFacts, Zenon DEF Inv, TypeOK
<1>2. WindowInv' /\ ProducersInv'
  BY <1>1 DEF Inv, WindowInv, ProducersInv, SameWindow, producerVars
<1> QED
  BY <1>1, <1>2

LEMMA AbandonStep ==
    ASSUME Inv, buffer' = [buffer EXCEPT !.pendingRead = Abandon(@)],
           taken' = {Abandon(read) : read \in taken},
           UNCHANGED producerVars, wire' # "acknowledged"
    PROVE  /\ buffer' \in Buffer /\ SameWindow(buffer, buffer') /\ taken' \subseteq PendingRead
           /\ WindowInv' /\ ProducersInv' /\ ReadsInv'
<1> DEFINE pending == Abandon(buffer.pendingRead)
<1>1. buffer.pendingRead \in PendingRead \cup {NoRead} /\ taken \subseteq PendingRead
  BY DEF Inv, TypeOK, Buffer
<1>2. buffer.pendingRead = NoRead => pending = NoRead
  BY DEF Abandon
<1>3. buffer.pendingRead # NoRead =>
        /\ pending \in PendingRead /\ ~pending.live
        /\ pending.sequenceId = buffer.pendingRead.sequenceId
  BY <1>1, AbandonFacts
<1>4. buffer' = [buffer EXCEPT !.pendingRead = pending]
  OBVIOUS
<1> HIDE DEF pending
<1>5. /\ buffer' \in Buffer /\ SameWindow(buffer, buffer') /\ buffer'.pendingRead = pending
      /\ WindowInv' /\ ProducersInv'
  <2>1. pending \in PendingRead \cup {NoRead}
    BY <1>1, <1>2, <1>3
  <2> QED
    BY <1>4, <2>1, SameWindowStep
<1>6. ASSUME NEW read \in taken'
      PROVE  /\ read \in PendingRead /\ ~read.live
             /\ read.sequenceId <= buffer.currentSequenceId \/ buffer.destroyed
  <2>1. PICK other \in taken : read = Abandon(other)
    OBVIOUS
  <2>2. other \in PendingRead
    BY <1>1
  <2>3. read \in PendingRead /\ ~read.live /\ read.sequenceId = other.sequenceId
    BY <2>1, <2>2, AbandonFacts
  <2>4. other.sequenceId <= buffer.currentSequenceId \/ buffer.destroyed
    BY DEF Inv, ReadsInv
  <2> QED
    BY <2>3, <2>4
<1>7. ReadsInv'
  <2>1. ~IsLive(pending)
    BY <1>1, <1>2, <1>3 DEF IsLive
  <2>2. pending # NoRead =>
          pending.sequenceId <= buffer.currentSequenceId \/ buffer.destroyed
    BY <1>2, <1>3 DEF Inv, ReadsInv
  <2>3. pending # NoRead => ~pending.live
    BY <1>2, <1>3
  <2> QED
    BY <1>5, <1>6, <2>1, <2>2, <2>3 DEF ReadsInv, WaitingReaderHasNothingToRead, SameWindow
<1> QED
  BY <1>5, <1>6, <1>7

LEMMA AcknowledgeStep ==
    ASSUME Inv, NEW t \in Token, t <= token, AcknowledgeInWindow(buffer, t),
           buffer' = AcknowledgePages(buffer, t),
           UNCHANGED <<producerVars, taken, reply, networkVars, clientVars, callbackVars>>,
           wire' = wire \/ (wire = "get" /\ t = token /\ wire' = "acknowledged")
    PROVE  Inv'
<1> DEFINE n == buffer.currentSequenceId
<1>1. /\ UNCHANGED <<instance, sent, ended, cancelled>>
      /\ UNCHANGED <<token, closed, completed, scheduled, future, taskInstanceId>>
      /\ taken' = taken /\ t \in Nat /\ token \in Nat /\ n \in Nat
  BY TypeFacts DEF Inv, producerVars, clientVars
<1>2. /\ buffer' \in Buffer /\ buffer'.taskInstanceId = buffer.taskInstanceId
      /\ buffer'.noMorePages = buffer.noMorePages
      /\ buffer'.destroyed = buffer.destroyed
      /\ buffer'.pendingRead = buffer.pendingRead
  BY AcknowledgePagesFacts, Zenon DEF Inv, TypeOK, AcknowledgePages
<1>3. CASE AcknowledgeIgnored(buffer, t)
  <2>1. buffer' = buffer /\ (t <= n \/ buffer.destroyed)
    BY <1>1, <1>3 DEF AcknowledgePages, AcknowledgeIgnored
  <2>2. ReadsInv'
    BY <1>1, <2>1 DEF Inv, ReadsInv, WaitingReaderHasNothingToRead
  <2>3. TypeOK' /\ ProducersInv' /\ WindowInv' /\ TokensInv' /\ ClientInv' /\ CompletedInv'
    BY <2>1 DEF Inv, TypeOK, ProducersInv, WindowInv, TokensInv, ClientInv, CompletedInv,
        producerVars, networkVars, clientVars, callbackVars
  <2>4. RequestInv' /\ ReplyInv'
    BY <2>1 DEF Inv, RequestInv, ReplyInv, producerVars, networkVars, clientVars, callbackVars
  <2> QED
    BY <2>2, <2>3, <2>4 DEF Inv
<1>4. CASE ~AcknowledgeIgnored(buffer, t)
  <2>1. ~buffer.destroyed /\ n <= t /\ t - n <= Len(buffer.pages)
    BY <1>1, <1>4 DEF AcknowledgeIgnored, AcknowledgeInWindow
  <2>2. /\ buffer'.pages = SubSeq(buffer.pages, (t - n) + 1, Len(buffer.pages))
        /\ buffer'.currentSequenceId = t
    BY <1>4, AcknowledgePagesFacts DEF Inv, TypeOK
  <2>3. /\ SegmentOf(buffer.pages, sent[instance], n)
        /\ n + Len(buffer.pages) = Len(sent[instance])
    BY <2>1 DEF Inv, WindowInv
  <2>4. /\ buffer.pages \in Seq(Page) /\ sent[instance] \in Seq(Page)
        /\ t - n \in 0..Len(buffer.pages) /\ n + (t - n) = t
    BY <1>1, <2>1, TypeFacts DEF Inv
  <2> DEFINE d == t - n
             rest == SubSeq(buffer.pages, d + 1, Len(buffer.pages))
  <2>5. d \in 0..Len(buffer.pages) /\ n + d = t
    BY <2>4
  <2> HIDE DEF d
  <2>6. /\ rest \in Seq(Page) /\ Len(rest) = Len(buffer.pages) - d
        /\ SegmentOf(rest, sent[instance], n + d)
    BY <1>1, <2>3, <2>4, <2>5, SegmentDrops, Zenon
  <2>7. /\ SegmentOf(buffer'.pages, sent[instance], t)
        /\ Len(buffer'.pages) = Len(buffer.pages) - (t - n)
    BY <2>2, <2>5, <2>6 DEF d
  <2>8. WindowInv'
    <3>1. t + Len(buffer'.pages) = Len(sent[instance])
      BY <1>1, <2>3, <2>4, <2>7
    <3> QED
      BY <1>1, <1>2, <2>1, <2>2, <2>7, <3>1 DEF Inv, WindowInv
  <2>9. ReadsInv'
    <3>1. ASSUME IsLive(buffer.pendingRead)
          PROVE  /\ buffer'.pages = << >> /\ ~buffer'.noMorePages
                 /\ buffer'.pendingRead.sequenceId = buffer'.currentSequenceId
      <4>1. buffer.pages = << >> /\ ~buffer.noMorePages /\ buffer.pendingRead.sequenceId = n
        BY <3>1, Zenon DEF Inv, ReadsInv, WaitingReaderHasNothingToRead
      <4>2. t = n
        BY <1>1, <2>1, <4>1
      <4> QED
        BY <1>1, <1>2, <2>2, <4>1, <4>2
    <3>2. ASSUME NEW read \in taken \cup ({buffer.pendingRead} \ {NoRead})
          PROVE  read.sequenceId <= t
      <4>1. read.sequenceId \in Nat
        BY TypeFacts DEF Inv, TypeOK, Buffer, PendingRead
      <4>2. read.sequenceId <= n
        BY <2>1 DEF Inv, ReadsInv
      <4> QED
        BY <1>1, <2>1, <4>1, <4>2
    <3>3. \A read \in taken \cup ({buffer.pendingRead} \ {NoRead}) :
             read.live => wire = "waiting" /\ read.sequenceId = token
      BY DEF Inv, ReadsInv
    <3>4. wire' = "acknowledged" => token <= t
      BY <1>1, <2>1 DEF Inv, ReadsInv
    <3>5. IsLive(buffer.pendingRead) => \A read \in taken : ~read.live
      BY DEF Inv, ReadsInv
    <3> QED
      BY <1>1, <1>2, <2>2, <3>1, <3>2, <3>3, <3>4, <3>5 DEF ReadsInv, WaitingReaderHasNothingToRead
  <2>10. TypeOK' /\ ProducersInv' /\ ClientInv' /\ CompletedInv'
    BY <1>1, <1>2 DEF Inv, TypeOK, ProducersInv, ClientInv, CompletedInv,
        producerVars, networkVars, clientVars, callbackVars
  <2>11. TokensInv'
    BY <1>1, <2>2 DEF Inv, TokensInv, networkVars
  <2>12. RequestInv' /\ ReplyInv'
    BY <1>1, <1>2 DEF Inv, RequestInv, ReplyInv, networkVars, callbackVars
  <2> QED
    BY <2>8, <2>9, <2>10, <2>11, <2>12 DEF Inv
<1> QED
  BY <1>3, <1>4

-----------------------------------------------------------------------------
(* Every step keeps the invariant. *)

\* A page joins the window, or is dropped when the buffer has ended.
LEMMA EnqueueStep ==
    ASSUME Inv, NEW p \in Page, Enqueue(p)
    PROVE  Inv'
<1>1. /\ buffer \in Buffer /\ taken \subseteq PendingRead /\ sent \in [Instance -> Seq(Page)]
      /\ instance \in Instance /\ ~ended[instance]
      /\ sent' = [sent EXCEPT ![instance] = Append(@, p)]
      /\ buffer.noMorePages \in BOOLEAN
  BY TypeFacts, Zenon DEF Inv, TypeOK, Enqueue
<1>2. /\ sent'[instance] = Append(sent[instance], p)
      /\ \A i \in Instance : i # instance => sent'[i] = sent[i]
      /\ \A i \in Instance : sent'[i] \in Seq(Page)
      /\ sent' \in [Instance -> Seq(Page)]
  BY <1>1
<1>3. buffer.noMorePages <=> buffer.destroyed
  BY <1>1, TypeFacts DEF Inv, WindowInv
<1>4. buffer.noMorePages => buffer' = buffer /\ taken' = taken
  BY DEF Enqueue, EnqueuePages, TakeRead, ReadTaken
<1>5. ~buffer.noMorePages =>
        /\ buffer' \in Buffer
        /\ buffer'.taskInstanceId = buffer.taskInstanceId
        /\ buffer'.pages = buffer.pages \o <<p>>
        /\ buffer'.currentSequenceId = buffer.currentSequenceId
        /\ ~buffer'.noMorePages /\ ~buffer'.destroyed
        /\ buffer'.pendingRead = NoRead
  BY <1>1, <1>3, EnqueuePagesFacts DEF Enqueue
<1>6. ASSUME NEW i \in Instance, NEW ps \in Seq(Page), NEW n \in Nat,
             SegmentOf(ps, sent[i], n)
      PROVE  SegmentOf(ps, sent'[i], n)
  BY <1>1, <1>2, <1>6, SegmentExtends
<1>7. TypeOK'
  <2>1. buffer' \in Buffer
    BY <1>1, <1>4, <1>5
  <2>2. taken' \subseteq PendingRead
    BY <1>1 DEF Enqueue, TakeRead, ReadTaken, Buffer
  <2> QED
    BY <1>2, <2>1, <2>2 DEF Inv, TypeOK, Enqueue, clientVars, networkVars, callbackVars
<1>8. WindowInv'
  <2>1. CASE buffer.noMorePages
    BY <1>3, <1>4, <2>1, Zenon DEF Inv, WindowInv, Enqueue
  <2>2. CASE ~buffer.noMorePages
    <3>1. /\ SegmentOf(buffer.pages, sent[instance], buffer.currentSequenceId)
          /\ buffer.currentSequenceId + Len(buffer.pages) = Len(sent[instance])
          /\ buffer.taskInstanceId = instance
      BY <1>3, <2>2 DEF Inv, WindowInv
    <3>2. /\ buffer.pages \in Seq(Page) /\ buffer.currentSequenceId \in Nat
          /\ sent[instance] \in Seq(Page)
      BY TypeFacts DEF Inv
    <3>3. /\ SegmentOf(buffer'.pages, sent'[instance], buffer'.currentSequenceId)
          /\ buffer'.currentSequenceId + Len(buffer'.pages) = Len(sent'[instance])
      <4>1. /\ SegmentOf(buffer.pages \o <<p>>, Append(sent[instance], p), buffer.currentSequenceId)
            /\ buffer.currentSequenceId + Len(buffer.pages \o <<p>>) = Len(Append(sent[instance], p))
        BY <3>1, <3>2, SegmentGrows, Zenon
      <4> QED
        BY <1>2, <1>5, <2>2, <4>1, Zenon
    <3>4. instance' = instance /\ ended' = ended
      BY DEF Enqueue
    <3>5. buffer'.noMorePages = ended[instance]
      BY <1>1, <1>5, <2>2 DEF Inv, TypeOK, Buffer
    <3> QED
      BY <1>5, <2>2, <3>1, <3>3, <3>4, <3>5 DEF WindowInv
  <2> QED
    BY <2>1, <2>2
<1>9. ClientInv'
  <2>1. taskInstanceId # NoInstance => SegmentOf(received, sent'[taskInstanceId], 0)
    BY <1>6 DEF Inv, TypeOK, ClientInv
  <2> QED
    BY <2>1 DEF Inv, ClientInv, Enqueue, clientVars, callbackVars
<1>10. ReplyInv'
  <2> SUFFICES ASSUME wire = "result"
               PROVE  ReplyInv'
    BY DEF ReplyInv, Enqueue
  <2>1. reply.taskInstanceId \in Instance /\ reply.serializedPages \in Seq(Page) /\ token \in Nat
    BY TypeFacts, ReplyFacts DEF Inv
  <2>2. SegmentOf(reply.serializedPages, sent[reply.taskInstanceId], token) =>
           SegmentOf(reply.serializedPages, sent'[reply.taskInstanceId], token)
    BY <1>6, <2>1, Zenon
  <2>3. ended[reply.taskInstanceId] => sent'[reply.taskInstanceId] = sent[reply.taskInstanceId]
    BY <1>1, <1>2, <2>1
  <2> QED
    BY <2>2, <2>3, Zenon DEF Inv, ReplyInv, Enqueue, clientVars
<1>11. ProducersInv'
  <2>1. Len(sent'[instance]) <= MaxPages
    <3>1. Len(sent'[instance]) = Len(sent[instance]) + 1
      BY <1>1, <1>2, AppendProperties
    <3>2. Len(sent[instance]) < MaxPages /\ Len(sent[instance]) \in Nat
      BY <1>1 DEF Enqueue
    <3> QED
      BY <3>1, <3>2, MaxPagesAssumption
  <2>2. instance \in Nat /\ instance' = instance /\ ended' = ended
    BY TypeFacts DEF Inv, Enqueue
  <2> QED
    BY <1>2, <2>1, <2>2 DEF Inv, ProducersInv
<1>12. TokensInv'
  BY <1>4, <1>5 DEF Inv, TokensInv, Enqueue, networkVars, clientVars
<1>13. ReadsInv'
  <2>1. ~IsLive(NoRead)
    BY DEF IsLive
  <2>2. CASE buffer.noMorePages
    BY <1>4, <2>2 DEF Inv, ReadsInv, Enqueue, clientVars, WaitingReaderHasNothingToRead
  <2>3. CASE ~buffer.noMorePages
    BY <1>3, <1>5, <2>1, <2>3
   , Zenon DEF Inv, ReadsInv, Enqueue, clientVars, WaitingReaderHasNothingToRead, TakeRead, ReadTaken
  <2> QED
    BY <2>2, <2>3
<1>14. RequestInv'
  BY <1>3, <1>4, <1>5 DEF Inv, RequestInv, Enqueue, networkVars, clientVars, callbackVars
<1>15. CompletedInv'
  BY <1>1, <1>2 DEF Inv, TypeOK, CompletedInv, Enqueue, clientVars
<1> QED
  BY <1>7, <1>8, <1>9, <1>10, <1>11, <1>12, <1>13, <1>14, <1>15 DEF Inv

\* The end of the pages joins the window.
LEMMA FinishProducingStep ==
    ASSUME Inv, FinishProducing
    PROVE  Inv'
<1>1. /\ buffer \in Buffer /\ taken \subseteq PendingRead /\ ended \in [Instance -> BOOLEAN]
      /\ instance \in Instance /\ ~ended[instance]
      /\ ended' = [ended EXCEPT ![instance] = TRUE]
      /\ buffer.noMorePages \in BOOLEAN
  BY TypeFacts DEF Inv, TypeOK, FinishProducing
<1>2. /\ ended' \in [Instance -> BOOLEAN]
      /\ ended'[instance]
      /\ \A i \in Instance : i # instance => ended'[i] = ended[i]
      /\ \A i \in Instance : ended[i] => ended'[i]
  BY <1>1
<1>3. buffer.noMorePages <=> buffer.destroyed
  BY <1>1, TypeFacts DEF Inv, WindowInv
<1>4. buffer.noMorePages => buffer' = buffer /\ taken' = taken
  BY DEF FinishProducing, SetNoMorePages, TakeRead, ReadTaken
<1>5. ~buffer.noMorePages =>
        /\ buffer' \in Buffer
        /\ buffer'.taskInstanceId = buffer.taskInstanceId
        /\ buffer'.pages = buffer.pages
        /\ buffer'.currentSequenceId = buffer.currentSequenceId
        /\ buffer'.noMorePages /\ ~buffer'.destroyed
        /\ buffer'.pendingRead = NoRead
  BY <1>1, <1>3, SetNoMorePagesFacts DEF FinishProducing
<1>7. TypeOK'
  <2>1. buffer' \in Buffer
    BY <1>1, <1>4, <1>5
  <2>2. taken' \subseteq PendingRead
    BY <1>1 DEF FinishProducing, TakeRead, ReadTaken, Buffer
  <2> QED
    BY <1>2, <2>1, <2>2 DEF Inv, TypeOK, FinishProducing, clientVars, networkVars, callbackVars
<1>8. WindowInv'
  <2>1. CASE buffer.noMorePages
    BY <1>3, <1>4, <2>1, Zenon DEF Inv, WindowInv, FinishProducing
  <2>2. CASE ~buffer.noMorePages
    <3>1. buffer'.noMorePages = ended'[instance]
      BY <1>2, <1>5, <2>2, TypeFacts, Zenon DEF Buffer
    <3> QED
      BY <1>3, <1>5, <2>2, <3>1, Zenon DEF Inv, WindowInv, FinishProducing
  <2> QED
    BY <2>1, <2>2
<1>10. ReplyInv'
  <2>1. wire = "result" => reply.taskInstanceId \in Instance
    BY ReplyFacts
  <2> QED
    BY <1>2, <2>1 DEF Inv, ReplyInv, FinishProducing, clientVars
<1>11. ProducersInv'
  BY <1>1, <1>2, TypeFacts DEF Inv, ProducersInv, FinishProducing
<1>12. TokensInv' /\ ClientInv'
  BY <1>4, <1>5 DEF Inv, TokensInv, ClientInv, FinishProducing, networkVars, clientVars, callbackVars
<1>13. ReadsInv'
  <2>1. ~IsLive(NoRead)
    BY DEF IsLive
  <2>2. CASE buffer.noMorePages
    BY <1>4, <2>2 DEF Inv, ReadsInv, FinishProducing, clientVars, WaitingReaderHasNothingToRead
  <2>3. CASE ~buffer.noMorePages
    BY <1>3, <1>5, <2>1, <2>3
   , Zenon DEF Inv, ReadsInv, FinishProducing, clientVars, WaitingReaderHasNothingToRead, TakeRead, ReadTaken
  <2> QED
    BY <2>2, <2>3
<1>14. RequestInv'
  BY <1>3, <1>4, <1>5 DEF Inv, RequestInv, FinishProducing, networkVars, clientVars, callbackVars
<1>15. CompletedInv'
  BY <1>2 DEF Inv, TypeOK, CompletedInv, FinishProducing, clientVars
<1> QED
  BY <1>7, <1>8, <1>10, <1>11, <1>12, <1>13, <1>14, <1>15 DEF Inv

\* The thread that took a read answers it from the buffer as it is now.
LEMMA ProcessTakenReadStep ==
    ASSUME Inv, NEW read \in taken, ProcessTakenRead(read)
    PROVE  Inv'
<1>1. read \in PendingRead /\ read.live \in BOOLEAN
  BY DEF Inv, TypeOK, PendingRead
<1>2. CASE ~read.live
  <2>1. wire' = wire /\ reply' = reply
    BY <1>1, <1>2 DEF ProcessTakenRead, NoResponse
  <2>2. taken' \subseteq taken
    BY DEF ProcessTakenRead
  <2>3. UNCHANGED <<producerVars, buffer, networkVars, clientVars, callbackVars>>
    BY DEF ProcessTakenRead
  <2>11. TypeOK /\ TokensInv /\ ClientInv /\ CompletedInv /\ ProducersInv /\ WindowInv
    BY Zenon DEF Inv
  <2>12. /\ buffer' = buffer /\ buffer \in Buffer /\ taken' \subseteq PendingRead
         /\ reply' \in Result
    BY <2>1, <2>2, <2>3, <2>11, Zenon DEF TypeOK
  <2>4. TypeOK' /\ ProducersInv' /\ WindowInv' /\ TokensInv' /\ ClientInv' /\ CompletedInv'
    <3>1. TypeOK' /\ TokensInv' /\ ClientInv' /\ CompletedInv'
      BY <2>1, <2>3, <2>11, <2>12, ServerFrame, Zenon
    <3>2. ProducersInv'
      BY <2>3, <2>11, ProducersFrame, Zenon
    <3>3. WindowInv'
      BY <2>3, <2>11, <2>12, Zenon DEF WindowInv, producerVars
    <3> QED
      BY <3>1, <3>2, <3>3, Zenon
  <2>5. ReadsInv'
    BY <2>1, <2>2, <2>3, Zenon DEF Inv, ReadsInv, WaitingReaderHasNothingToRead, clientVars
  <2>6. RequestInv' /\ ReplyInv' /\ CompletedInv'
    BY <2>1, <2>3 DEF Inv, RequestInv, ReplyInv, CompletedInv,
        producerVars, networkVars, clientVars, callbackVars
  <2> QED
    BY <2>4, <2>5, <2>6 DEF Inv
<1>3. CASE read.live
  <2>1. wire = "waiting" /\ read.sequenceId = token
    BY <1>3 DEF Inv, ReadsInv
  <2>2. token <= buffer.currentSequenceId \/ buffer.destroyed
    BY <2>1 DEF Inv, ReadsInv
  <2> DEFINE r == ProcessRead(buffer, token)
  <2>3. /\ r \in Result
        /\ r.taskInstanceId = instance
        /\ r.nextToken = r.token + Len(r.serializedPages)
        /\ taskInstanceId \in {NoInstance, instance} /\ r.token = token =>
              SegmentOf(r.serializedPages, sent[instance], token)
        /\ r.bufferComplete =>
              /\ r.serializedPages = << >>
              /\ ~buffer.destroyed => ended[instance] /\ token = Len(sent[instance])
    BY <2>2, ReadAnswer, Zenon DEF Inv
  <2>4. Respond(r)
    BY <1>3, <2>1 DEF ProcessTakenRead
  <2> HIDE DEF r
  <2>5. buffer.destroyed => cancelled
    BY <2>1 DEF Inv, RequestInv
  <2>6. UNCHANGED <<producerVars, buffer, networkVars, clientVars, callbackVars>>
    BY DEF ProcessTakenRead
  <2>7. ReplyInv' /\ reply' \in Result /\ wire' = "result"
    BY <2>3, <2>4, <2>5, <2>6, RespondStep, Zenon DEF Inv, TypeOK, producerVars, clientVars
  <2>8. taken' \subseteq taken /\ wire \in {"waiting"}
    BY <2>1 DEF ProcessTakenRead
  <2>9. TypeOK' /\ ProducersInv' /\ WindowInv' /\ TokensInv' /\ ClientInv' /\ CompletedInv'
    <3>1. TypeOK /\ TokensInv /\ ClientInv /\ CompletedInv /\ ProducersInv /\ WindowInv
      BY Zenon DEF Inv
    <3>2. buffer' = buffer /\ buffer \in Buffer /\ taken' \subseteq PendingRead
      BY <2>6, <2>8, <3>1, Zenon DEF TypeOK
    <3>3. TypeOK' /\ TokensInv' /\ ClientInv' /\ CompletedInv'
      BY <2>6, <2>7, <3>1, <3>2, ServerFrame, Zenon
    <3>4. ProducersInv'
      BY <2>6, <3>1, ProducersFrame, Zenon
    <3>5. WindowInv'
      BY <2>6, <3>1, <3>2, Zenon DEF WindowInv, producerVars
    <3> QED
      BY <3>3, <3>4, <3>5, Zenon
  <2>10. RequestInv'
    BY <2>6, <2>7, <2>8 DEF Inv, RequestInv, producerVars, networkVars, clientVars, callbackVars
  <2>11. ReadsInv'
    <3>1. ~IsLive(buffer.pendingRead)
      BY <1>3, Zenon DEF Inv, ReadsInv
    <3>2. ASSUME NEW other \in taken', other.live PROVE FALSE
      <4>1. other \in PendingRead /\ other.sequenceId = token /\ other # read
        BY <2>8, <3>2, Zenon DEF Inv, TypeOK, ReadsInv, ProcessTakenRead
      <4> QED
        BY <1>1, <1>3, <2>1, <3>2, <4>1 DEF PendingRead
    <3>3. buffer' = buffer /\ wire' = "result"
      BY <2>6, <2>7
    <3> QED
      BY <2>8, <3>1, <3>2, <3>3, Zenon DEF Inv, ReadsInv, WaitingReaderHasNothingToRead, IsLive
  <2> QED
    BY <2>7, <2>9, <2>10, <2>11 DEF Inv
<1> QED
  BY <1>1, <1>2, <1>3

\* A cancelled task drops its pages and answers the waiting read.
LEMMA CancelStep ==
    ASSUME Inv, Cancel
    PROVE  Inv'
<1>1. /\ ended' \in [Instance -> BOOLEAN] /\ cancelled' = TRUE
      /\ \A i \in Instance : ended[i] => ended'[i]
      /\ \A i \in Instance : i # instance => ended'[i] = ended[i]
  BY DEF Inv, TypeOK, Cancel
<1>2. /\ UNCHANGED <<instance, sent, taken, networkVars, clientVars, callbackVars>>
      /\ instance' = instance /\ sent' = sent /\ taken' = taken /\ token' = token
      /\ taskInstanceId' = taskInstanceId
      /\ buffer' = Destroy(buffer)
  BY DEF Cancel, clientVars
<1>3. /\ ReplyInv' /\ reply' \in Result
      /\ wire' = wire \/ (wire = "waiting" /\ wire' = "result")
      /\ \A read \in taken : read.live => wire' = "waiting"
  BY <1>1, <1>2, CompleteWithEmptyStep DEF Cancel
<1>4. /\ buffer' \in Buffer /\ buffer'.destroyed
      /\ buffer'.currentSequenceId = buffer.currentSequenceId
      /\ WindowInv' /\ ReadsInv'
  BY <1>2, <1>3, DestroyStep
<1>9. TypeOK /\ ProducersInv /\ instance \in Nat /\ Instance \subseteq Nat
  BY TypeFacts DEF Inv
<1>5. TypeOK'
  <2>1. wire' \in {"idle", "get", "acknowledged", "waiting", "result", "error",
                   "lost", "delete", "deleted"}
    BY <1>3, <1>9, Zenon DEF TypeOK
  <2>2. taken' \subseteq PendingRead /\ instance' \in Instance /\ sent' \in [Instance -> Seq(Page)]
    BY <1>2, <1>9, Zenon DEF TypeOK
  <2>3. /\ lateGets' \subseteq Token /\ acknowledgements' \subseteq Token
        /\ lateDelete' \in BOOLEAN
    BY <1>2, <1>9, Zenon DEF TypeOK, networkVars
  <2>4. /\ token' \in Token /\ closed' \in BOOLEAN /\ completed' \in BOOLEAN
        /\ scheduled' \in BOOLEAN /\ future' \in {"none", "get", "delete"}
        /\ taskInstanceId' \in Instance \cup {NoInstance}
    BY <1>2, <1>9, Zenon DEF TypeOK, clientVars
  <2>5. received' \in Seq(Page) /\ failed' \in BOOLEAN /\ finished' \in BOOLEAN
    BY <1>2, <1>9, Zenon DEF TypeOK, callbackVars
  <2> QED
    BY <1>1, <1>3, <1>4, <2>1, <2>2, <2>3, <2>4, <2>5, Zenon DEF TypeOK
<1>6. ProducersInv'
  <2>1. \A i \in Instance : i > instance => i # instance
    BY <1>9
  <2>2. \A i \in Instance : i > instance => ended'[i] = ended[i]
    BY <1>1, <2>1, Zenon
  <2> QED
    BY <1>2, <1>9, <2>2, Zenon DEF ProducersInv
<1>7. TokensInv' /\ ClientInv' /\ CompletedInv'
  BY <1>1, <1>2, <1>4 DEF Inv, TokensInv, ClientInv, CompletedInv, networkVars, clientVars, callbackVars
<1>8. RequestInv'
  BY <1>1, <1>2, <1>3 DEF Inv, RequestInv, networkVars, clientVars, callbackVars
<1> QED
  BY <1>3, <1>4, <1>5, <1>6, <1>7, <1>8 DEF Inv

\* The new instance has a window of its own; the client stays bound to the old one.
LEMMA RestartStep ==
    ASSUME Inv, Restart
    PROVE  Inv'
<1>1. /\ UNCHANGED <<sent, ended, cancelled, reply, networkVars, clientVars, callbackVars>>
      /\ instance' = instance + 1 /\ instance' \in Instance /\ instance \in Nat
      /\ buffer' = NewClientBuffer(instance + 1) /\ taken' = {}
  BY TypeFacts, MaxRestartsAssumption DEF Restart, Inv, TypeOK, Instance
<1>2. /\ buffer' \in Buffer
      /\ buffer'.taskInstanceId = instance + 1 /\ buffer'.pages = << >>
      /\ buffer'.currentSequenceId = 0
      /\ ~buffer'.noMorePages /\ ~buffer'.destroyed /\ buffer'.pendingRead = NoRead
  BY <1>1, NewClientBufferFacts
<1>3. /\ wire' = wire \/ (wire \in {"acknowledged", "waiting"} /\ wire' = "lost")
      /\ wire' \notin {"acknowledged", "waiting"}
  BY DEF Restart
<1>4. TypeOK'
  BY <1>1, <1>2, <1>3 DEF Inv, TypeOK, networkVars, clientVars, callbackVars
<1>10. TypeOK /\ ProducersInv /\ ClientInv /\ CompletedInv /\ ReplyInv
  BY Zenon DEF Inv
<1>11. /\ sent' = sent /\ ended' = ended /\ cancelled' = cancelled /\ reply' = reply
       /\ token' = token /\ completed' = completed /\ taskInstanceId' = taskInstanceId
       /\ received' = received
  BY <1>1, Zenon DEF clientVars, callbackVars
<1>5. ProducersInv' /\ ClientInv' /\ CompletedInv'
  <2>1. Instance \subseteq Nat /\ NoInstance \in Nat /\ taskInstanceId \in Nat
    BY <1>10, TypeFacts DEF TypeOK, NoInstance
  <2>2. \A i \in Instance : i > instance + 1 => i > instance
    BY <1>1, <2>1
  <2>3. taskInstanceId <= instance => taskInstanceId <= instance + 1
    BY <1>1, <2>1
  <2>4. ProducersInv'
    BY <1>1, <1>10, <1>11, <2>2, Zenon DEF ProducersInv
  <2>5. ClientInv'
    BY <1>1, <1>10, <1>11, <2>3, Zenon DEF ClientInv
  <2>6. CompletedInv'
    BY <1>10, <1>11, Zenon DEF CompletedInv
  <2> QED
    BY <2>4, <2>5, <2>6, Zenon
<1>6. WindowInv'
  <2>1. sent[instance + 1] = << >> /\ ended[instance + 1] = FALSE
    BY <1>1 DEF Inv, TypeOK, ProducersInv
  <2>2. SegmentOf(<< >>, << >>, 0) /\ 0 + Len(<< >>) = Len(<< >>)
    BY DEF SegmentOf
  <2>3. buffer'.noMorePages = FALSE
    BY <1>2 DEF Buffer
  <2>4. sent'[instance'] = << >> /\ ended'[instance'] = FALSE
    BY <1>1, <2>1
  <2> QED
    BY <1>1, <1>2, <2>2, <2>3, <2>4, Zenon DEF WindowInv
<1>7. TokensInv' /\ RequestInv'
  BY <1>1, <1>2, <1>3, TypeFacts DEF Inv, TypeOK, TokensInv, RequestInv, networkVars, clientVars, callbackVars
<1>8. ReadsInv'
  BY <1>1, <1>2, <1>3, Zenon DEF ReadsInv, WaitingReaderHasNothingToRead, IsLive
<1>9. ReplyInv'
  <2>1. wire' = "result" => wire = "result"
    BY <1>3, Zenon
  <2>2. \A i \in 1..instance : i \in 1..instance'
    BY <1>1
  <2>3. SUFFICES ASSUME wire' = "result" PROVE ReplyInv'
    BY Zenon DEF ReplyInv
  <2>4. wire = "result" /\ reply.taskInstanceId \in 1..instance'
    BY <1>10, <2>1, <2>2, <2>3, Zenon DEF ReplyInv
  <2> QED
    BY <1>10, <1>11, <2>4, Zenon DEF ReplyInv
<1> QED
  BY <1>4, <1>5, <1>6, <1>7, <1>8, <1>9 DEF Inv

\* getResults acknowledges: only an instance the client is not bound to can refuse.
LEMMA HandleGetAcknowledgeStep ==
    ASSUME Inv, HandleGetAcknowledge
    PROVE  Inv'
<1>1. token \in Token /\ token <= token
  BY TypeFacts DEF Inv, TypeOK
<1>2. CASE AcknowledgeInWindow(buffer, token)
  BY <1>1, <1>2, AcknowledgeStep DEF HandleGetAcknowledge
<1>3. CASE ~AcknowledgeInWindow(buffer, token)
  <2>1. buffer' = buffer /\ wire = "get" /\ wire' = "error"
    BY <1>3 DEF HandleGetAcknowledge
  <2>2. instance > 1
    <3>1. ~buffer.destroyed /\ token - buffer.currentSequenceId > Len(buffer.pages)
      BY <1>3, TypeFacts DEF Inv, AcknowledgeInWindow, AcknowledgeIgnored
    <3>2. token > Len(sent[instance])
      <4>1. TypeOK /\ buffer.currentSequenceId + Len(buffer.pages) = Len(sent[instance])
        BY <3>1, Zenon DEF Inv, WindowInv
      <4>2. /\ token \in Nat /\ buffer.currentSequenceId \in Nat /\ Len(buffer.pages) \in Nat
        BY <4>1, TypeFacts, LenProperties, Zenon
      <4> QED
        BY <3>1, <4>1, <4>2
    <3>3. taskInstanceId \notin {NoInstance, instance}
      <4>1. TypeOK /\ ClientInv
        BY Zenon DEF Inv
      <4>2. token \in Nat /\ Len(sent[instance]) \in Nat
        BY <4>1, TypeFacts, LenProperties, Zenon
      <4>3. taskInstanceId = NoInstance => token = 0
        BY <4>1, Zenon DEF ClientInv
      <4>4. taskInstanceId # NoInstance /\ taskInstanceId = instance
              => 0 + token <= Len(sent[instance])
        BY <4>1, Zenon DEF ClientInv, SegmentOf
      <4> QED
        BY <3>2, <4>2, <4>3, <4>4
    <3>4. /\ taskInstanceId \in Instance /\ taskInstanceId <= instance
          /\ Instance \subseteq Nat \ {0} /\ instance \in Nat
      BY <3>3, TypeFacts, Zenon DEF Inv, TypeOK, ClientInv
    <3> QED
      BY <3>3, <3>4
  <2>3. TypeOK' /\ ProducersInv' /\ WindowInv' /\ TokensInv' /\ ClientInv' /\ CompletedInv'
    <3>1. /\ TypeOK /\ ProducersInv /\ WindowInv /\ TokensInv /\ ClientInv /\ CompletedInv
          /\ UNCHANGED <<producerVars, networkVars, clientVars, callbackVars>>
          /\ taken' = taken /\ reply' = reply
      BY Zenon DEF HandleGetAcknowledge, Inv
    <3>2. buffer' \in Buffer /\ taken' \subseteq PendingRead /\ reply' \in Result
      BY <2>1, <3>1, Zenon DEF TypeOK
    <3>3. TypeOK' /\ TokensInv' /\ ClientInv' /\ CompletedInv'
      BY <2>1, <3>1, <3>2, ServerFrame, Zenon
    <3>4. ProducersInv'
      BY <3>1, ProducersFrame, Zenon
    <3>5. WindowInv'
      BY <2>1, <3>1, Zenon DEF WindowInv, producerVars
    <3> QED
      BY <3>3, <3>4, <3>5, Zenon
  <2>4. RequestInv' /\ ReplyInv'
    BY <2>1, <2>2 DEF HandleGetAcknowledge, Inv, RequestInv, ReplyInv, producerVars, networkVars,
        clientVars, callbackVars
  <2>5. ReadsInv'
    BY <2>1, Zenon DEF HandleGetAcknowledge, Inv, ReadsInv, WaitingReaderHasNothingToRead, clientVars
  <2> QED
    BY <2>3, <2>4, <2>5 DEF Inv
<1> QED
  BY <1>2, <1>3

\* getResults reads: the answer starts at the token, or the read waits for a page.
LEMMA HandleGetReadStep ==
    ASSUME Inv, HandleGetRead
    PROVE  Inv'
<1> DEFINE now == AnswersNow(buffer, token)
           read == IF now THEN NoRead ELSE Read(token, TRUE)
<1>1. /\ UNCHANGED <<producerVars, taken, networkVars, clientVars, callbackVars>>
      /\ UNCHANGED <<instance, sent, ended, cancelled, token, taskInstanceId>>
      /\ taken' = taken /\ wire = "acknowledged"
      /\ token \in Token /\ buffer.pages \in Seq(Page)
  BY TypeFacts, Zenon DEF HandleGetRead, producerVars, clientVars, Inv, TypeOK
<1>2. Read(token, TRUE) \in PendingRead /\ read \in PendingRead \cup {NoRead}
  BY <1>1 DEF Read, PendingRead
<1>3. /\ Read(token, TRUE).sequenceId = token /\ Read(token, TRUE).live
      /\ Read(token, TRUE) # NoRead
  BY <1>2, NoReadIsNotRead, Zenon DEF Read
<1>4. buffer' = [buffer EXCEPT !.pendingRead = read]
  BY <1>3, Zenon DEF HandleGetRead, RegisterRead
<1>5. /\ buffer' \in Buffer /\ SameWindow(buffer, buffer') /\ buffer'.pendingRead = read
      /\ WindowInv' /\ ProducersInv'
  <2> HIDE DEF read
  <2> QED
    BY <1>1, <1>2, <1>4, SameWindowStep
<1>6. token <= buffer.currentSequenceId \/ buffer.destroyed
  BY <1>1, Zenon DEF Inv, ReadsInv
<1>7. /\ now => Respond(ProcessRead(buffer, token))
      /\ ~now => wire' = "waiting" /\ reply' = reply
  BY DEF HandleGetRead
<1>8. \A other \in taken : ~other.live
  BY <1>1 DEF Inv, TypeOK, ReadsInv, PendingRead
<1>9. ReplyInv' /\ reply' \in Result /\ wire' = IF now THEN "result" ELSE "waiting"
  <2>1. CASE now
    <3> DEFINE r == ProcessRead(buffer, token)
    <3>1. /\ r \in Result
          /\ r.taskInstanceId = instance
          /\ r.nextToken = r.token + Len(r.serializedPages)
          /\ taskInstanceId \in {NoInstance, instance} /\ r.token = token =>
                SegmentOf(r.serializedPages, sent[instance], token)
          /\ r.bufferComplete =>
                /\ r.serializedPages = << >>
                /\ ~buffer.destroyed => ended[instance] /\ token = Len(sent[instance])
      BY <1>6, ReadAnswer, Zenon DEF Inv
    <3>2. Respond(r)
      BY <1>7, <2>1
    <3> HIDE DEF r
    <3>3. buffer.destroyed => cancelled
      BY <1>1 DEF Inv, RequestInv
    <3>4. ReplyInv' /\ reply' \in Result /\ wire' = "result"
      BY <1>1, <3>1, <3>2, <3>3, RespondStep, Zenon DEF Inv, TypeOK
    <3> QED
      BY <2>1, <3>4
  <2>2. CASE ~now
    BY <1>7, <2>2, Zenon DEF ReplyInv, Inv, TypeOK
  <2> QED
    BY <2>1, <2>2
<1>10. ReadsInv'
  <2>1. CASE now
    BY <1>1, <1>5, <1>8, <1>9, <2>1
   , Zenon DEF Inv, ReadsInv, WaitingReaderHasNothingToRead, IsLive, SameWindow
  <2>2. CASE ~now
    <3>1. /\ buffer'.pages = << >> /\ ~buffer'.noMorePages
          /\ buffer'.currentSequenceId = token
      BY <1>5, <2>2 DEF AnswersNow, SameWindow
    <3>2. buffer'.pendingRead = Read(token, TRUE) /\ wire' = "waiting"
      BY <1>5, <1>9, <2>2
    <3>3. \A other \in taken : other.sequenceId <= token \/ buffer'.destroyed
      BY <1>5, <3>1 DEF Inv, ReadsInv, SameWindow
    <3>4. token <= token
      BY TypeFacts DEF Inv
    <3> QED
      BY <1>1, <1>3, <1>8, <3>1, <3>2, <3>3, <3>4, Zenon DEF ReadsInv, WaitingReaderHasNothingToRead, IsLive
  <2> QED
    BY <2>1, <2>2
<1> HIDE DEF now, read
<1>11. wire' \in {"result", "waiting"}
  BY <1>9
<1>12. TypeOK' /\ ClientInv' /\ CompletedInv' /\ TokensInv'
  <2>1. TypeOK /\ TokensInv /\ ClientInv /\ CompletedInv /\ taken \subseteq PendingRead
    BY Zenon DEF Inv, TypeOK
  <2>2. buffer'.currentSequenceId = buffer.currentSequenceId
    BY <1>1, <1>5, <1>9, <1>11, Zenon DEF SameWindow
  <2> QED
    BY <1>1, <1>5, <1>9, <1>11, <2>1, <2>2, ServerFrame, Zenon
<1>13. RequestInv'
  BY <1>1, <1>5, <1>11 DEF Inv, RequestInv, SameWindow,
     producerVars, networkVars, clientVars, callbackVars
<1> QED
  BY <1>5, <1>9, <1>10, <1>12, <1>13 DEF Inv

\* A read that waits too long is answered with nothing, at the token.
LEMMA AnswerTimeoutStep ==
    ASSUME Inv, AnswerTimeout
    PROVE  Inv'
<1>1. /\ UNCHANGED <<producerVars, networkVars, clientVars, callbackVars>>
      /\ UNCHANGED <<instance, sent, ended, cancelled, token, taskInstanceId>>
      /\ wire = "waiting" /\ Respond(EmptyResults(buffer, token, FALSE))
  BY Zenon DEF AnswerTimeout, producerVars, clientVars
<1>2. ReplyInv' /\ reply' \in Result /\ wire' = "result"
  BY <1>1, RespondEmptyStep
<1>3. /\ buffer' \in Buffer /\ SameWindow(buffer, buffer') /\ taken' \subseteq PendingRead
      /\ WindowInv' /\ ProducersInv' /\ ReadsInv'
  BY <1>1, <1>2, AbandonStep DEF AnswerTimeout
<1>4. TypeOK' /\ ClientInv' /\ CompletedInv' /\ TokensInv'
  <2>1. TypeOK /\ TokensInv /\ ClientInv /\ CompletedInv /\ taken \subseteq PendingRead
    BY Zenon DEF Inv, TypeOK
  <2>2. buffer'.currentSequenceId = buffer.currentSequenceId
    BY <1>1, <1>2, <1>3, Zenon DEF SameWindow
  <2> QED
    BY <1>1, <1>2, <1>3, <2>1, <2>2, ServerFrame, Zenon
<1>5. RequestInv'
  BY <1>1, <1>2, <1>3 DEF Inv, RequestInv, SameWindow,
     producerVars, networkVars, clientVars, callbackVars
<1> QED
  BY <1>2, <1>3, <1>4, <1>5 DEF Inv

\* abortResults.
LEMMA HandleDeleteStep ==
    ASSUME Inv, HandleDelete
    PROVE  Inv'
<1>1. /\ UNCHANGED <<producerVars, taken, reply, networkVars, clientVars, callbackVars>>
      /\ instance' = instance /\ taken' = taken /\ token' = token
      /\ buffer' = Destroy(buffer) /\ wire = "delete" /\ wire' = "deleted"
  BY DEF HandleDelete, producerVars, clientVars
<1>2. \A read \in taken : ~read.live
  BY <1>1, Zenon DEF Inv, TypeOK, ReadsInv, PendingRead
<1>3. /\ buffer' \in Buffer /\ buffer'.destroyed
      /\ buffer'.currentSequenceId = buffer.currentSequenceId
      /\ WindowInv' /\ ReadsInv'
  BY <1>1, <1>2, DestroyStep
<1>4. TypeOK' /\ ProducersInv'
  BY <1>1, <1>3 DEF Inv, TypeOK, ProducersInv, producerVars, networkVars, clientVars, callbackVars
<1>5. TokensInv' /\ ClientInv' /\ CompletedInv' /\ ReplyInv'
  BY <1>1, <1>3, Zenon DEF Inv, TokensInv, ClientInv, CompletedInv, ReplyInv,
     producerVars, networkVars, clientVars, callbackVars
<1>6. RequestInv'
  BY <1>1 DEF Inv, RequestInv, producerVars, networkVars, clientVars, callbackVars
<1> QED
  BY <1>3, <1>4, <1>5, <1>6 DEF Inv

\* An old acknowledgement is at or before the token.
LEMMA HandleLateAcknowledgeStep ==
    ASSUME Inv, NEW t \in Token, HandleLateAcknowledge(t)
    PROVE  Inv'
<1>1. t <= token
  BY Zenon DEF Inv, TokensInv, HandleLateAcknowledge
<1> QED
  BY <1>1, AcknowledgeStep DEF HandleLateAcknowledge

\* An old read may throw out the read in flight, which is then answered.
LEMMA HandleLateReadStep ==
    ASSUME Inv, NEW t \in Token, HandleLateRead(t)
    PROVE  Inv'
<1> DEFINE now == AnswersNow(buffer, t)
           read == IF now THEN NoRead ELSE Read(t, FALSE)
<1>1. /\ UNCHANGED <<producerVars, taken, networkVars, clientVars, callbackVars>>
      /\ UNCHANGED <<instance, sent, ended, cancelled, token, taskInstanceId>>
      /\ taken' = taken
      /\ buffer.destroyed \/ t <= buffer.currentSequenceId
  BY DEF HandleLateRead, producerVars, clientVars
<1>2. Read(t, FALSE) \in PendingRead /\ read \in PendingRead \cup {NoRead}
  BY <1>1 DEF Read, PendingRead
<1>3. /\ Read(t, FALSE).sequenceId = t /\ ~Read(t, FALSE).live
  BY DEF Read
<1>4. buffer' = [buffer EXCEPT !.pendingRead = read]
  BY <1>3, Zenon DEF HandleLateRead, RegisterRead
<1>5. read = NoRead \/ (read.sequenceId = t /\ ~read.live)
  BY <1>3, Zenon
<1> HIDE DEF now, read
<1>6. /\ buffer' \in Buffer /\ SameWindow(buffer, buffer') /\ buffer'.pendingRead = read
      /\ WindowInv' /\ ProducersInv'
  BY <1>1, <1>2, <1>4, SameWindowStep
<1>7. /\ ReplyInv' /\ reply' \in Result
      /\ wire' = wire \/ (wire = "waiting" /\ wire' = "result")
      /\ \A other \in taken : other.live => wire' = "waiting"
  BY <1>1, CompleteWithEmptyStep DEF HandleLateRead
<1>8. ReadsInv'
  BY <1>1, <1>5, <1>6, <1>7, Zenon DEF Inv, ReadsInv, WaitingReaderHasNothingToRead, IsLive, SameWindow
<1>9. TypeOK' /\ ClientInv' /\ CompletedInv' /\ TokensInv'
  <2>1. TypeOK /\ TokensInv /\ ClientInv /\ CompletedInv /\ taken \subseteq PendingRead
    BY Zenon DEF Inv, TypeOK
  <2>2. buffer'.currentSequenceId = buffer.currentSequenceId
    BY <1>1, <1>6, <1>7, Zenon DEF SameWindow
  <2> QED
    BY <1>1, <1>6, <1>7, <2>1, <2>2, ServerFrame, Zenon
<1>10. RequestInv'
  BY <1>1, <1>6, <1>7 DEF Inv, RequestInv, SameWindow,
     producerVars, networkVars, clientVars, callbackVars
<1> QED
  BY <1>6, <1>7, <1>8, <1>9, <1>10 DEF Inv

\* An old abortResults comes only after the client needed no more pages.
LEMMA HandleLateDeleteStep ==
    ASSUME Inv, HandleLateDelete
    PROVE  Inv'
<1>1. /\ UNCHANGED <<producerVars, taken, networkVars, clientVars, callbackVars>>
      /\ instance' = instance /\ sent' = sent /\ taken' = taken /\ token' = token
      /\ taskInstanceId' = taskInstanceId /\ ended' = ended /\ cancelled' = cancelled
      /\ buffer' = Destroy(buffer) /\ lateDelete
  BY DEF HandleLateDelete, producerVars, clientVars
<1>2. /\ ReplyInv' /\ reply' \in Result
      /\ wire' = wire \/ (wire = "waiting" /\ wire' = "result")
      /\ \A read \in taken : read.live => wire' = "waiting"
  BY <1>1, CompleteWithEmptyStep DEF HandleLateDelete
<1>3. /\ buffer' \in Buffer /\ buffer'.destroyed
      /\ buffer'.currentSequenceId = buffer.currentSequenceId
      /\ WindowInv' /\ ReadsInv'
  BY <1>1, <1>2, DestroyStep
<1>4. TypeOK /\ TokensInv /\ ClientInv /\ CompletedInv /\ ProducersInv /\ taken' \subseteq PendingRead
  BY <1>1, Zenon DEF Inv, TypeOK
<1>5. TypeOK' /\ TokensInv' /\ ClientInv' /\ CompletedInv' /\ ProducersInv'
  BY <1>1, <1>2, <1>3, <1>4, ServerFrame, ProducersFrame, Zenon
<1>6. RequestInv'
  BY <1>1, <1>2 DEF Inv, RequestInv, producerVars, networkVars, clientVars, callbackVars
<1> QED
  BY <1>2, <1>3, <1>4, <1>5, <1>6, Zenon DEF Inv

LEMMA ReceivePagesStep ==
    ASSUME Inv, ReceivePages
    PROVE  Inv'
<1>1. /\ UNCHANGED <<producerVars, buffer, taken, lateGets, lateDelete, closed,
                     scheduled, failed, finished>>
      /\ wire = "result" /\ wire' = "idle" /\ reply' = NoReply /\ future' = "none"
      /\ taskInstanceId \in {NoInstance, reply.taskInstanceId}
      /\ taskInstanceId' = reply.taskInstanceId
      /\ completed' = (completed \/ reply.bufferComplete)
  BY DEF ReceivePages, RequestOver, SameInstance
<1>2. /\ reply.taskInstanceId \in Instance /\ reply.taskInstanceId <= instance
      /\ reply.token \in Token /\ reply.nextToken \in Token
      /\ reply.serializedPages \in Seq(Page) /\ reply.bufferComplete \in BOOLEAN
  BY <1>1, ReplyFacts
<1> DEFINE source == sent[reply.taskInstanceId]
<1>3. /\ source \in Seq(Page) /\ received \in Seq(Page) /\ token \in Nat /\ token \in Token
      /\ Len(received) = token /\ SegmentOf(received, source, 0)
  <2>1. source \in Seq(Page) /\ received \in Seq(Page) /\ token \in Nat /\ token \in Token
    BY <1>2, TypeFacts, Zenon DEF Inv, TypeOK
  <2>2. Len(received) = token
    BY DEF Inv, ClientInv
  <2>3. CASE taskInstanceId = NoInstance
    <3>1. Len(received) = 0
      BY <2>2, <2>3 DEF Inv, ClientInv
    <3> QED
      BY <2>1, <2>2, <3>1 DEF SegmentOf
  <2>4. CASE taskInstanceId # NoInstance
    BY <1>1, <2>1, <2>2, <2>4 DEF Inv, ClientInv
  <2> QED
    BY <2>1, <2>2, <2>3, <2>4
<1>4. /\ reply.nextToken = reply.token + Len(reply.serializedPages)
      /\ reply.token = token => SegmentOf(reply.serializedPages, source, token)
      /\ reply.bufferComplete /\ ~cancelled =>
            /\ ended[reply.taskInstanceId]
            /\ token = Len(source)
            /\ reply.serializedPages = << >>
  BY <1>1, Zenon DEF Inv, ReplyInv
<1> HIDE DEF source
<1>5. /\ received' \in Seq(Page) /\ token' \in Token /\ token <= token'
      /\ Len(received') = token' /\ SegmentOf(received', source, 0)
      /\ reply.serializedPages = << >> => token' = token
      /\ acknowledgements' \subseteq acknowledgements \cup {token'}
  <2>1. CASE reply.token = token
    <3>1. /\ received' = received \o reply.serializedPages /\ token' = reply.nextToken
          /\ acknowledgements' \subseteq acknowledgements \cup {token'}
      BY <2>1, Zenon DEF ReceivePages, NewPages, NextToken
    <3>2. /\ received \o reply.serializedPages \in Seq(Page)
          /\ Len(received \o reply.serializedPages) = Len(received) + Len(reply.serializedPages)
          /\ SegmentOf(received \o reply.serializedPages, source, 0)
      BY <1>2, <1>3, <1>4, <2>1, SegmentsJoin, Zenon
    <3>3. token' = token + Len(reply.serializedPages) /\ Len(reply.serializedPages) \in Nat
      BY <1>2, <1>4, <2>1, <3>1, LenProperties, Zenon
    <3> QED
      BY <1>2, <1>3, <3>1, <3>2, <3>3
  <2>2. CASE reply.token # token
    <3>1. received' = received \o << >> /\ token' = token /\ acknowledgements' = acknowledgements
      BY <2>2 DEF ReceivePages, NewPages, NextToken
    <3>2. received \o << >> = received
      BY <1>3
    <3> QED
      BY <1>3, <3>1, <3>2
  <2> QED
    BY <2>1, <2>2
<1>6. TypeOK'
  BY <1>1, <1>2, <1>5, NoReplyType, Zenon DEF Inv, TypeOK, producerVars
<1>7. ProducersInv' /\ WindowInv'
  BY <1>1, Zenon DEF Inv, ProducersInv, WindowInv, producerVars
<1>8. TokensInv'
  <2>1. \A t \in lateGets \cup acknowledgements : t \in Nat
    BY TypeFacts DEF Inv, TypeOK
  <2>2. token' \in Nat /\ token \in Nat /\ buffer.currentSequenceId \in Nat
    BY <1>5, TypeFacts DEF Inv
  <2> QED
    BY <1>1, <1>5, <2>1, <2>2 DEF Inv, TokensInv
<1>9. ClientInv'
  <2>1. taskInstanceId' # NoInstance /\ instance' = instance /\ sent'[taskInstanceId'] = source
    BY <1>1, <1>2, TypeFacts DEF Inv, producerVars, source
  <2> QED
    BY <1>1, <1>2, <1>5, <2>1, Zenon DEF ClientInv
<1>10. ReadsInv'
  BY <1>1, Zenon DEF Inv, ReadsInv, WaitingReaderHasNothingToRead
<1>11. RequestInv' /\ ReplyInv'
  BY <1>1 DEF Inv, RequestInv, ReplyInv, producerVars
<1>12. CompletedInv'
  <2>1. ~completed
    BY <1>1 DEF Inv, RequestInv
  <2>2. taskInstanceId' # NoInstance
    BY <1>1, <1>2, TypeFacts DEF Inv
  <2> QED
    BY <1>1, <1>4, <1>5, <2>1, <2>2, Zenon DEF CompletedInv, producerVars, source
<1> QED
  BY <1>6, <1>7, <1>8, <1>9, <1>10, <1>11, <1>12 DEF Inv

LEMMA ClientStep ==
    ASSUME Inv, ScheduleRequest \/ InitiateRequest \/ ReceiveFatal \/ ReceiveDeleted
    PROVE  Inv'
<1>1. /\ UNCHANGED <<producerVars, buffer, taken, networkVars, token, completed,
                     taskInstanceId, received>>
      /\ reply' = reply \/ (reply' = NoReply /\ wire' = "idle")
      /\ wire' = wire \/ wire' \in {"idle", "get", "delete"}
  BY DEF ScheduleRequest, InitiateRequest, NextRequest, ReceiveFatal, ReceiveDeleted, RequestOver,
     networkVars, callbackVars
<1>2. scheduled' \in BOOLEAN /\ future' \in {"none", "get", "delete"}
      /\ closed' \in BOOLEAN /\ failed' \in BOOLEAN /\ finished' \in BOOLEAN
  BY Zenon DEF ScheduleRequest, InitiateRequest, NextRequest, ReceiveFatal, ReceiveDeleted, callbackVars,
     Inv, TypeOK
<1>3. TypeOK'
  BY <1>1, <1>2, NoReplyType DEF Inv, TypeOK, producerVars, networkVars
<1>4. ProducersInv' /\ WindowInv' /\ TokensInv' /\ ClientInv' /\ CompletedInv'
  BY <1>1, Zenon DEF Inv, ProducersInv, WindowInv, TokensInv, ClientInv, CompletedInv,
     producerVars, networkVars
<1>5. ReplyInv'
  BY <1>1, Zenon DEF Inv, ReplyInv, producerVars
<1>6. wire = "waiting" => wire' = "waiting"
  BY DEF ScheduleRequest, InitiateRequest, ReceiveFatal, ReceiveDeleted, Inv, RequestInv
<1>7. ReadsInv'
  BY <1>1, <1>6, Zenon DEF Inv, ReadsInv, WaitingReaderHasNothingToRead
<1>8. RequestInv'
  BY <1>1 DEF ScheduleRequest, InitiateRequest, NextRequest, ReceiveFatal, ReceiveDeleted,
     RequestOver, Inv, RequestInv, producerVars, networkVars, callbackVars
<1> QED
  BY <1>3, <1>4, <1>5, <1>7, <1>8 DEF Inv

\* A request that fails leaves its token, and its read, behind.
LEMMA RequestFailsStep ==
    ASSUME Inv, RequestFails
    PROVE  Inv'
<1>1. /\ UNCHANGED <<producerVars, acknowledgements, token, closed, completed,
                     scheduled, taskInstanceId, received, finished>>
      /\ wire' = "idle" /\ reply' = NoReply /\ future' = "none"
      /\ lateGets' \subseteq lateGets \cup {token}
      /\ lateDelete' = (lateDelete \/ future = "delete")
      /\ failed' \in BOOLEAN
  BY Zenon DEF RequestFails, AbandonRequest, RequestOver, Inv, TypeOK
<1>2. /\ buffer' \in Buffer /\ SameWindow(buffer, buffer') /\ taken' \subseteq PendingRead
      /\ WindowInv' /\ ProducersInv' /\ ReadsInv'
  BY <1>1, AbandonStep DEF RequestFails, AbandonRequest
<1>3. TypeOK' /\ ClientInv' /\ CompletedInv'
  BY <1>1, <1>2, NoReplyType, Zenon DEF Inv, TypeOK, ClientInv, CompletedInv, producerVars
<1>4. TokensInv'
  <2>1. token <= token /\ buffer'.currentSequenceId = buffer.currentSequenceId
    BY <1>2, TypeFacts DEF Inv, SameWindow
  <2>2. \A t \in lateGets' \cup acknowledgements' : t \in lateGets \cup acknowledgements \cup {token}
    BY <1>1
  <2> QED
    BY <1>1, <2>1, <2>2 DEF Inv, TokensInv
<1>5. RequestInv' /\ ReplyInv'
  BY <1>1, <1>2, Zenon DEF Inv, RequestInv, ReplyInv, SameWindow, producerVars
<1> QED
  BY <1>2, <1>3, <1>4, <1>5 DEF Inv

\* close() leaves the request in flight behind and sends a DELETE.
LEMMA CloseStep ==
    ASSUME Inv, Close
    PROVE  Inv'
<1>1. /\ UNCHANGED <<producerVars, acknowledgements, token, completed,
                     scheduled, taskInstanceId, callbackVars>>
      /\ wire' = "delete" /\ reply' = NoReply /\ future' = "delete" /\ closed' = TRUE
      /\ lateGets' \subseteq lateGets \cup {token}
      /\ lateDelete' = (lateDelete \/ future = "delete")
  BY DEF Close, AbandonRequest
<1>2. /\ buffer' \in Buffer /\ SameWindow(buffer, buffer') /\ taken' \subseteq PendingRead
      /\ WindowInv' /\ ProducersInv' /\ ReadsInv'
  BY <1>1, AbandonStep DEF Close, AbandonRequest
<1>3. TypeOK' /\ ClientInv' /\ CompletedInv'
  BY <1>1, <1>2, NoReplyType, Zenon DEF Inv, TypeOK, ClientInv, CompletedInv, producerVars, callbackVars
<1>4. TokensInv'
  <2>1. token <= token /\ buffer'.currentSequenceId = buffer.currentSequenceId
    BY <1>2, TypeFacts DEF Inv, SameWindow
  <2>2. \A t \in lateGets' \cup acknowledgements' : t \in lateGets \cup acknowledgements \cup {token}
    BY <1>1
  <2> QED
    BY <1>1, <2>1, <2>2 DEF Inv, TokensInv
<1>5. RequestInv' /\ ReplyInv'
  BY <1>1, <1>2 DEF Inv, RequestInv, ReplyInv, SameWindow, producerVars, callbackVars
<1> QED
  BY <1>2, <1>3, <1>4, <1>5 DEF Inv

\* The state a new task and a new client start in.
LEMMA InitInv == Init => Inv
<1> SUFFICES ASSUME Init PROVE Inv
  OBVIOUS
<1>1. 1 \in Instance /\ 0 \in Token /\ Instance \subseteq Nat
  BY MaxPagesAssumption, MaxRestartsAssumption DEF Instance, Token
<1>2. /\ buffer \in Buffer
      /\ buffer.taskInstanceId = 1 /\ buffer.pages = << >> /\ buffer.currentSequenceId = 0
      /\ ~buffer.noMorePages /\ ~buffer.destroyed /\ buffer.pendingRead = NoRead
  BY <1>1, NewClientBufferFacts DEF Init
<1>3. TypeOK
  <2>1. sent \in [Instance -> Seq(Page)] /\ ended \in [Instance -> BOOLEAN]
    BY DEF Init
  <2>2. reply \in Result /\ received \in Seq(Page) /\ taken \subseteq PendingRead
    BY NoReplyType DEF Init
  <2> QED
    BY <1>1, <1>2, <2>1, <2>2, Zenon DEF Init, TypeOK
<1>4. ProducersInv /\ TokensInv /\ ClientInv /\ RequestInv /\ ReplyInv /\ CompletedInv
  BY <1>1, <1>2, MaxPagesAssumption DEF Init, ProducersInv, TokensInv, ClientInv,
     RequestInv, ReplyInv, CompletedInv, NoInstance
<1>5. WindowInv
  <2>1. /\ sent[instance] = << >> /\ ended[instance] = FALSE /\ instance = 1
        /\ buffer.noMorePages = FALSE
    BY <1>1, <1>2 DEF Init, Buffer
  <2>2. SegmentOf(<< >>, << >>, 0) /\ 0 + Len(<< >>) = Len(<< >>)
    BY DEF SegmentOf
  <2> QED
    BY <1>2, <2>1, <2>2, Zenon DEF WindowInv
<1>6. ReadsInv
  BY <1>2 DEF Init, ReadsInv, WaitingReaderHasNothingToRead, IsLive
<1> QED
  BY <1>3, <1>4, <1>5, <1>6 DEF Inv

LEMMA NextInv == Inv /\ [Next]_vars => Inv'
<1> SUFFICES ASSUME Inv, [Next]_vars PROVE Inv'
  OBVIOUS
<1>1. CASE UNCHANGED vars
  <2>1. TypeOK'
    <3>1. /\ TypeOK /\ TokensInv /\ ClientInv /\ CompletedInv
          /\ buffer \in Buffer /\ taken \subseteq PendingRead /\ reply \in Result
      BY Zenon DEF Inv, TypeOK
    <3>2. /\ UNCHANGED <<producerVars, networkVars, clientVars, callbackVars>>
          /\ buffer' = buffer /\ taken' = taken /\ wire' = wire /\ reply' = reply
      BY <1>1, Zenon DEF vars
    <3> QED
      BY <3>1, <3>2, ServerFrame, Zenon
  <2>3. ProducersInv' /\ WindowInv'
    BY <1>1, Zenon DEF Inv, ProducersInv, WindowInv, vars, producerVars, clientVars, callbackVars
  <2>4. TokensInv' /\ ClientInv'
    BY <1>1 DEF Inv, TokensInv, ClientInv, vars, producerVars, networkVars, clientVars,
       callbackVars
  <2>2. ReadsInv' /\ RequestInv' /\ ReplyInv' /\ CompletedInv'
    BY <1>1 DEF Inv, ReadsInv, WaitingReaderHasNothingToRead, RequestInv, ReplyInv,
       CompletedInv, vars, producerVars, networkVars, clientVars, callbackVars
  <2> QED
    BY <2>1, <2>2, <2>3, <2>4 DEF Inv
<1>2. CASE Exchange
  BY <1>2, EnqueueStep, FinishProducingStep, ProcessTakenReadStep, HandleGetAcknowledgeStep,
     HandleGetReadStep, AnswerTimeoutStep, HandleDeleteStep, HandleLateAcknowledgeStep,
     HandleLateReadStep, HandleLateDeleteStep, ReceivePagesStep, ClientStep,
     RequestFailsStep, Zenon DEF Exchange
<1> QED
  BY <1>1, <1>2, CancelStep, RestartStep, CloseStep, Zenon DEF Next

\* The invariant contains what the consumer relies on.
LEMMA DeliveryInv ==
    ASSUME Inv
    PROVE  ExactlyOnceInOrder
<1>1. CASE taskInstanceId = NoInstance
  <2>1. received \in Seq(Page) /\ Len(received) = 0
    BY <1>1 DEF Inv, TypeOK, ClientInv
  <2> QED
    BY <1>1, <2>1 DEF ExactlyOnceInOrder
<1>2. CASE taskInstanceId # NoInstance
  <2>1. /\ received \in Seq(Page) /\ sent[taskInstanceId] \in Seq(Page)
        /\ SegmentOf(received, sent[taskInstanceId], 0)
    BY <1>2 DEF Inv, TypeOK, ClientInv
  <2> QED
    BY <1>2, <2>1, SegmentIsPrefix DEF ExactlyOnceInOrder
<1> QED
  BY <1>1, <1>2

LEMMA CompletenessInv ==
    ASSUME Inv
    PROVE  CompleteMeansAllReceived
<1>1. ASSUME completed, ~cancelled
      PROVE  ended[taskInstanceId] /\ received = sent[taskInstanceId]
  <2>1. /\ taskInstanceId # NoInstance /\ ended[taskInstanceId]
        /\ token = Len(sent[taskInstanceId]) /\ Len(received) = token
        /\ received \in Seq(Page) /\ sent[taskInstanceId] \in Seq(Page)
    BY <1>1 DEF Inv, TypeOK, CompletedInv, ClientInv
  <2>2. \A k \in 1..Len(received) : received[k] = sent[taskInstanceId][k]
    <3>1. SegmentOf(received, sent[taskInstanceId], 0)
      BY <1>1, <2>1 DEF Inv, ClientInv
    <3>2. \A k \in 1..Len(received) : 0 + k = k
      OBVIOUS
    <3> QED
      BY <3>1, <3>2 DEF SegmentOf
  <2> QED
    BY <2>1, <2>2
<1> QED
  BY <1>1 DEF CompleteMeansAllReceived

-----------------------------------------------------------------------------
(* The theorems. *)

\* Every state of the exchange satisfies the inductive invariant.
THEOREM Invariance == Spec => []Inv
BY InitInv, NextInv, PTL DEF Spec

\* The fields of the buffer, the client and the messages keep their types.
THEOREM TypeCorrectness == Spec => []TypeOK
<1>1. Inv => TypeOK
  BY DEF Inv
<1> QED
  BY <1>1, Invariance, PTL

\* ExchangeClient.addPages gets the pages of one task instance from the first on,
\* each once and in order: the token comparison of HttpPageBufferClient is enough
\* against every delay, repetition and loss, for any number of pages and restarts.
THEOREM Delivery == Spec => []ExactlyOnceInOrder
<1>1. Inv => ExactlyOnceInOrder
  BY DeliveryInv
<1> QED
  BY <1>1, Invariance, PTL

\* The buffer is complete for the client only when it has every page of a task
\* that was not cancelled.
THEOREM Completeness == Spec => []CompleteMeansAllReceived
<1>1. Inv => CompleteMeansAllReceived
  BY CompletenessInv
<1> QED
  BY <1>1, Invariance, PTL

\* acknowledgePages never drops a page the client has still to receive.
THEOREM Retention == Spec => []UnreceivedPagesAreKept
<1>1. ASSUME Inv, ~buffer.destroyed, taskInstanceId = instance
      PROVE  /\ buffer.currentSequenceId <= Len(received)
             /\ sent[instance] = SubSeq(received, 1, buffer.currentSequenceId) \o buffer.pages
  <2> DEFINE n == buffer.currentSequenceId
             S == sent[instance]
             first == SubSeq(received, 1, n)
  <2>1. /\ n \in Nat /\ S \in Seq(Page) /\ received \in Seq(Page) /\ buffer.pages \in Seq(Page)
        /\ n <= Len(received) /\ instance # NoInstance
    BY <1>1, TypeFacts, Zenon DEF Inv, TypeOK, TokensInv, ClientInv
  <2>2. /\ SegmentOf(buffer.pages, S, n) /\ n + Len(buffer.pages) = Len(S)
        /\ SegmentOf(received, S, 0)
    BY <1>1, <2>1 DEF Inv, WindowInv, ClientInv
  <2> HIDE DEF n, S
  <2>3. /\ first \in Seq(Page) /\ Len(first) = n
        /\ \A k \in 1..n : first[k] = received[k]
    BY <2>1
  <2> HIDE DEF first
  <2>4. /\ first \o buffer.pages \in Seq(Page)
        /\ Len(first \o buffer.pages) = n + Len(buffer.pages)
        /\ \A k \in 1..(n + Len(buffer.pages)) :
              (first \o buffer.pages)[k] = IF k <= n THEN first[k] ELSE buffer.pages[k - n]
    BY <2>1, <2>3, ConcatProperties, ZenonT(30)
  <2>5. ASSUME NEW k \in 1..Len(S) PROVE S[k] = (first \o buffer.pages)[k]
    <3>1. CASE k <= n
      <4>1. 0 + k = k /\ k \in 1..Len(received) /\ k \in 1..n
        BY <2>1, <3>1
      <4> QED
        BY <2>2, <2>3, <2>4, <3>1, <4>1, Zenon DEF SegmentOf
    <3>2. CASE ~(k <= n)
      <4>1. k - n \in 1..Len(buffer.pages) /\ n + (k - n) = k
        BY <2>1, <2>2, <3>2
      <4>2. buffer.pages[k - n] = S[k]
        BY <2>2, <4>1 DEF SegmentOf
      <4> QED
        BY <2>2, <2>4, <3>2, <4>2
    <3> QED
      BY <3>1, <3>2, Zenon
  <2>6. S = first \o buffer.pages
    <3>1. Len(S) = Len(first \o buffer.pages)
      BY <2>2, <2>4
    <3> QED
      BY <2>1, <2>4, <2>5, <3>1, SeqEqual, Zenon
  <2> QED
    BY <2>1, <2>6 DEF n, S, first
<1>2. Inv => UnreceivedPagesAreKept
  BY <1>1, Zenon DEF UnreceivedPagesAreKept
<1> QED
  BY <1>2, Invariance, PTL

\* ClientBuffer keeps no read of the client waiting when it could answer it.
THEOREM NoForgottenReader == Spec => []WaitingReaderHasNothingToRead
<1>1. Inv => WaitingReaderHasNothingToRead
  BY DEF Inv, ReadsInv
<1> QED
  BY <1>1, Invariance, PTL

\* Before a restart, no request fails the checkArgument of acknowledgePages or the
\* verify of processRead.
THEOREM ValidSequenceIds == Spec => []SequenceIdsAreValid
<1>1. ASSUME Inv, instance = 1 PROVE SequenceIdsAreValid
  <2>1. /\ token \in Nat /\ buffer.currentSequenceId \in Nat /\ buffer.pages \in Seq(Page)
        /\ Token \subseteq Nat /\ sent[instance] \in Seq(Page)
    BY <1>1, TypeFacts DEF Inv
  <2>2. wire # "error"
    BY <1>1 DEF Inv, RequestInv
  <2>3. ~buffer.destroyed => token <= buffer.currentSequenceId + Len(buffer.pages)
    <3>1. token <= Len(sent[instance])
      <4>1. taskInstanceId \in {NoInstance, instance}
        <5>1. /\ taskInstanceId \in Instance \cup {NoInstance} /\ taskInstanceId <= instance
              /\ Instance \subseteq Nat \ {0}
          BY <1>1, TypeFacts, Zenon DEF Inv, TypeOK, ClientInv
        <5> QED
          BY <1>1, <5>1 DEF NoInstance
      <4> QED
        BY <1>1, <2>1, <4>1 DEF Inv, ClientInv, SegmentOf
    <3> QED
      BY <1>1, <2>1, <3>1 DEF Inv, WindowInv
  <2>4. ASSUME NEW t \in acknowledgements \cup lateGets
        PROVE  AcknowledgeInWindow(buffer, t)
    <3>1. t \in Nat /\ t <= token
      BY <1>1, <2>1 DEF Inv, TypeOK, TokensInv
    <3> QED
      BY <2>1, <2>3, <3>1 DEF AcknowledgeInWindow, AcknowledgeIgnored
  <2>5. ASSUME NEW seq \in Nat, seq <= buffer.currentSequenceId \/ buffer.destroyed
        PROVE  ReadInWindow(buffer, seq)
    <3>1. buffer.destroyed => AtEnd(buffer)
      BY <1>1, Zenon DEF Inv, WindowInv, AtEnd
    <3>2. seq <= buffer.currentSequenceId =>
             seq < buffer.currentSequenceId \/ seq = buffer.currentSequenceId
      BY <2>1
    <3> QED
      BY <2>5, <3>1, <3>2, Zenon DEF ReadInWindow
  <2>6. \A read \in taken : ReadInWindow(buffer, read.sequenceId)
    BY <1>1, <2>1, <2>5, Zenon DEF Inv, TypeOK, PendingRead, ReadsInv
  <2>7. wire = "acknowledged" => ReadInWindow(buffer, token)
    BY <1>1, <2>1, <2>5 DEF Inv, ReadsInv
  <2> QED
    BY <2>2, <2>4, <2>6, <2>7 DEF SequenceIdsAreValid
<1>2. Inv => SequenceIdsAreValid
  BY <1>1 DEF SequenceIdsAreValid
<1> QED
  BY <1>2, Invariance, PTL

\* The client's view is that of the channel: pages of one source in order, and
\* the end only with all of them.
THEOREM Refinement == Spec => ImplementsChannel
<1> DEFINE chosen == taskInstanceId # NoInstance
           produced == IF taskInstanceId = NoInstance THEN << >> ELSE sent[taskInstanceId]
           over == IF taskInstanceId = NoInstance THEN FALSE ELSE ended[taskInstanceId]
<1>1. Init => Channel!Init
  BY DEF Init, Channel!Init, NoInstance
<1>2. ASSUME Inv, Inv', [Next]_vars
      PROVE  [Channel!Next]_(Channel!vars)
  <2>1. CASE UNCHANGED vars
    BY <2>1 DEF vars, producerVars, clientVars, callbackVars, Channel!vars
  <2>2. ASSUME NEW p \in Page, Enqueue(p) PROVE [Channel!Next]_(Channel!vars)
    <3>1. UNCHANGED <<instance, ended, cancelled, clientVars, callbackVars>>
      BY <2>2 DEF Enqueue
    <3>2. CASE taskInstanceId = instance
      <4>1. chosen /\ ~over /\ produced' = Append(produced, p)
        BY <1>2, <2>2, <3>1, <3>2, TypeFacts, Zenon DEF Inv, TypeOK, Enqueue, clientVars
      <4>2. Channel!Produce
        BY <3>1, <4>1, Zenon DEF Channel!Produce, clientVars, callbackVars
      <4> QED
        BY <4>2 DEF Channel!Next
    <3>3. CASE taskInstanceId # instance
      <4>1. produced' = produced
        BY <1>2, <2>2, <3>1, <3>3, Zenon DEF Inv, TypeOK, Enqueue, clientVars
      <4> QED
        BY <3>1, <4>1 DEF Channel!vars, clientVars, callbackVars
    <3> QED
      BY <3>2, <3>3
  <2>3. ASSUME FinishProducing PROVE [Channel!Next]_(Channel!vars)
    <3>1. UNCHANGED <<instance, sent, cancelled, clientVars, callbackVars>>
      BY <2>3 DEF FinishProducing
    <3>2. CASE taskInstanceId = instance
      <4>1. chosen /\ over' = TRUE
        BY <1>2, <2>3, <3>1, <3>2, TypeFacts, Zenon DEF Inv, TypeOK, FinishProducing, clientVars
      <4>2. Channel!End
        BY <3>1, <4>1 DEF Channel!End, clientVars, callbackVars
      <4> QED
        BY <4>2 DEF Channel!Next
    <3>3. CASE taskInstanceId # instance
      <4>1. over' = over
        BY <1>2, <2>3, <3>1, <3>3, Zenon DEF Inv, TypeOK, FinishProducing, clientVars
      <4> QED
        BY <3>1, <4>1, Zenon DEF Channel!vars, clientVars, callbackVars
    <3> QED
      BY <3>2, <3>3
  <2>4. ASSUME Cancel PROVE [Channel!Next]_(Channel!vars)
    <3>1. UNCHANGED <<instance, sent, clientVars, callbackVars>> /\ cancelled' = TRUE
      BY <2>4 DEF Cancel
    <3>2. over' \in {over, chosen}
      BY <1>2, <2>4, <3>1, TypeFacts, Zenon DEF Inv, TypeOK, Cancel, clientVars
    <3>3. Channel!AbandonSource
      BY <3>1, <3>2, Zenon DEF Channel!AbandonSource, clientVars, callbackVars
    <3> QED
      BY <3>3 DEF Channel!Next
  <2>5. ASSUME ReceivePages PROVE [Channel!Next]_(Channel!vars)
    <3>1. ExactlyOnceInOrder' /\ CompleteMeansAllReceived'
      BY <1>2, DeliveryInv, CompletenessInv, PTL
    <3>2. /\ UNCHANGED <<instance, sent, ended, cancelled>>
          /\ wire = "result" /\ taskInstanceId \in {NoInstance, reply.taskInstanceId}
          /\ taskInstanceId' = reply.taskInstanceId
          /\ received' = received \o NewPages(reply)
          /\ completed' = (completed \/ reply.bufferComplete)
      BY <2>5 DEF ReceivePages, SameInstance, producerVars
    <3>3. reply.taskInstanceId \in Instance /\ reply.serializedPages \in Seq(Page)
      BY <1>2, <3>2, ReplyFacts
    <3>4. /\ chosen' /\ produced' = sent[reply.taskInstanceId]
          /\ over' = ended[reply.taskInstanceId]
          /\ produced' \in Seq(Page) /\ over' \in BOOLEAN
      BY <1>2, <3>2, <3>3, TypeFacts, Zenon DEF Inv, TypeOK
    <3>5. Channel!Consistent(produced', over', cancelled, received', completed')
      <4>1. \E n \in 0..Len(produced') : received' = SubSeq(produced', 1, n)
        BY <3>1, <3>2, <3>4, Zenon DEF ExactlyOnceInOrder
      <4>2. completed' /\ ~cancelled =>
               ended[reply.taskInstanceId] /\ received' = sent[reply.taskInstanceId]
        BY <3>1, <3>2 DEF CompleteMeansAllReceived
      <4> QED
        BY <3>4, <4>1, <4>2, Zenon DEF Channel!Consistent, Channel!IsPrefixOf
    <3>6. CASE ~chosen
      <4>1. Channel!Attach
        BY <3>2, <3>4, <3>5, <3>6, Zenon DEF Channel!Attach
      <4> QED
        BY <4>1 DEF Channel!Next
    <3>7. CASE chosen
      <4>1. produced' = produced /\ over' = over /\ chosen' = chosen
        BY <3>2, <3>4, <3>7, Zenon
      <4>2. Channel!IsPrefixOf(received, received')
        <5>1. received \in Seq(Page) /\ NewPages(reply) \in Seq(Page)
          <6>1. received \in Seq(Page)
            BY <1>2, Zenon DEF Inv, TypeOK
          <6>2. << >> \in Seq(Page)
            OBVIOUS
          <6> QED
            BY <3>3, <6>1, <6>2 DEF NewPages
        <5> DEFINE both == received \o NewPages(reply)
        <5>4. /\ both \in Seq(Page) /\ Len(both) = Len(received) + Len(NewPages(reply))
              /\ \A k \in 1..Len(both) :
                    both[k] = IF k <= Len(received) THEN received[k]
                              ELSE NewPages(reply)[k - Len(received)]
          BY <5>1, ConcatProperties, Zenon
        <5>5. received' = both
          BY <3>2
        <5> HIDE DEF both
        <5>2. /\ Len(received') = Len(received) + Len(NewPages(reply))
              /\ \A k \in 1..Len(received) : received'[k] = received[k]
              /\ received' \in Seq(Page)
          BY <5>1, <5>4, <5>5
        <5>3. /\ Len(received) \in 0..Len(received')
              /\ received = SubSeq(received', 1, Len(received))
          BY <5>1, <5>2
        <5> QED
          BY <5>3, Zenon DEF Channel!IsPrefixOf
      <4>3. Channel!Deliver
        BY <3>2, <3>5, <3>7, <4>1, <4>2, Zenon DEF Channel!Deliver
      <4> QED
        BY <4>3 DEF Channel!Next
    <3> QED
      BY <3>6, <3>7
  <2>6. ASSUME ~ReceivePages, ~Cancel, ~FinishProducing, \A p \in Page : ~Enqueue(p), Next
        PROVE  UNCHANGED Channel!vars
    <3>1. UNCHANGED <<sent, ended, cancelled, taskInstanceId, received, completed>>
      BY <2>6, Zenon DEF Next, Exchange, ProcessTakenRead, HandleGetAcknowledge, HandleGetRead,
         AnswerTimeout, HandleDelete, HandleLateAcknowledge, HandleLateRead, HandleLateDelete,
         ScheduleRequest, InitiateRequest, ReceiveFatal, RequestFails, ReceiveDeleted, Restart,
         Close, producerVars, clientVars, callbackVars
    <3> QED
      BY <3>1 DEF Channel!vars
  <2> QED
    BY <1>2, <2>1, <2>2, <2>3, <2>4, <2>5, <2>6
<1> QED
  BY <1>1, <1>2, Invariance, PTL DEF Spec, ImplementsChannel, Channel!Spec
=============================================================================
