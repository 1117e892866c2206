---------------------------- MODULE RefreshLoop ----------------------------
(***************************************************************************)
(* What every part of a page promises of its polling: one request at a     *)
(* time, another one some time after each answer or error, and none once   *)
(* the page has the final information about its query, if it is about one. *)
(***************************************************************************)

VARIABLES phase,    \* "requesting", "waiting" for the timer, or "stopped"
          final     \* the page has the final information

vars == << phase, final >>

Init == phase = "requesting" /\ final = FALSE

Send == phase = "waiting" /\ phase' = "requesting" /\ UNCHANGED final

Answer ==
    /\ phase = "requesting"
    /\ final' \in BOOLEAN
    /\ phase' = IF final' THEN "stopped" ELSE "waiting"

Next == Send \/ Answer

Spec == Init /\ [][Next]_vars /\ WF_vars(Send) /\ WF_vars(Answer)
=============================================================================
