----------------------------- MODULE PageChannel -----------------------------
(***************************************************************************)
(* What the exchange promises the consumer of one output buffer: it is     *)
(* attached to one source, gets a growing prefix of what that source       *)
(* produces, and is told that this is all of it only when it is - unless   *)
(* the source was abandoned, because nobody needs the rest.                *)
(***************************************************************************)
EXTENDS Naturals, Sequences

CONSTANT Page

VARIABLES attached,  \* the source is chosen
          produced,  \* the pages it has produced
          ended,     \* it will produce no more
          abandoned, \* its pages may be dropped
          delivered, \* the pages the consumer has got
          complete   \* the consumer was told that there are no more

vars == <<attached, produced, ended, abandoned, delivered, complete>>

Init ==
    /\ attached = FALSE
    /\ produced = << >>
    /\ ended = FALSE
    /\ abandoned = FALSE
    /\ delivered = << >>
    /\ complete = FALSE

IsPrefixOf(s, t) == \E n \in 0..Len(t) : s = SubSeq(t, 1, n)

\* What the consumer has in the next state is consistent with its source then.
Consistent(source, end, dropped, got, told) ==
    /\ IsPrefixOf(got, source)
    /\ told => dropped \/ (end /\ got = source)

\* The first response chooses the source, which may have produced already.
Attach ==
    /\ ~attached
    /\ attached' = TRUE
    /\ produced' \in Seq(Page)
    /\ ended' \in BOOLEAN
    /\ Consistent(produced', ended', abandoned, delivered', complete')
    /\ UNCHANGED abandoned

Produce ==
    /\ attached /\ ~ended
    /\ \E p \in Page : produced' = Append(produced, p)
    /\ UNCHANGED <<attached, ended, abandoned, delivered, complete>>

End ==
    /\ attached
    /\ ended' = TRUE
    /\ UNCHANGED <<attached, produced, abandoned, delivered, complete>>

AbandonSource ==
    /\ abandoned' = TRUE
    /\ ended' \in {ended, attached}
    /\ UNCHANGED <<attached, produced, delivered, complete>>

Deliver ==
    /\ attached
    /\ IsPrefixOf(delivered, delivered')
    /\ complete => complete'
    /\ Consistent(produced, ended, abandoned, delivered', complete')
    /\ UNCHANGED <<attached, produced, ended, abandoned>>

Next == Attach \/ Produce \/ End \/ AbandonSource \/ Deliver

Spec == Init /\ [][Next]_vars
=============================================================================
