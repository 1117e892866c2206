---------------------------- MODULE MCBroadcast ----------------------------
EXTENDS BroadcastOutputBuffer, TLC

CONSTANTS c1, c2

\* One consumer is declared at first, the other with the final version.
MCHistory == << [buffers |-> {c1}, noMoreBufferIds |-> FALSE],
                [buffers |-> {c1, c2}, noMoreBufferIds |-> TRUE] >>

\* The drivers are interchangeable.
DriverSymmetry == Permutations(Driver)

MCPage == 1..MaxPages
MCPageSize == [p \in Page |-> p]
=============================================================================
