----------------------------- MODULE Sparklines -----------------------------
(***************************************************************************)
(* The lists of samples the pages plot (utils.js).                         *)
(***************************************************************************)
EXTENDS Integers, Sequences

CONSTANT MAX_HISTORY

ASSUME HistoryAssumption == MAX_HISTORY \in Nat \ {0}

\* One more point; of the older ones the last MAX_HISTORY stay.
addToHistory(value, values) ==
    LET dropped == IF Len(values) > MAX_HISTORY THEN Len(values) - MAX_HISTORY ELSE 0
    IN  SubSeq(Append(values, value), dropped + 1, Len(values) + 1)
=============================================================================
