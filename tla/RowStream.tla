----------------------------- MODULE RowStream ------------------------------
(***************************************************************************)
(* What a reader of a query's results is promised: the rows, each once and *)
(* in order, some at a time, and the end with or after the last one.       *)
(***************************************************************************)
EXTENDS Naturals, Sequences

VARIABLES total,      \* the number of rows
          delivered, over

vars == << total, delivered, over >>

Init == total \in Nat /\ delivered = << >> /\ over = FALSE

Deliver ==
    /\ ~over
    /\ \E n \in Len(delivered) + 1 .. total :
          /\ delivered' = [i \in 1..n |-> i]
          /\ over' \in {FALSE, n = total}
    /\ UNCHANGED total

End ==
    /\ ~over /\ Len(delivered) = total
    /\ over' = TRUE
    /\ UNCHANGED << total, delivered >>

Next == Deliver \/ End

Spec == Init /\ [][Next]_vars
=============================================================================
