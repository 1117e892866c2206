---------------------------- MODULE MCTaskOutput ----------------------------
EXTENDS TaskOutput

CONSTANTS c1

\* One consumer, declared with the final version.
MCHistory == << [buffers |-> {c1}, noMoreBufferIds |-> TRUE] >>

MCPage == 1..MaxPages
MCPageSize == [p \in Page |-> p]
=============================================================================
