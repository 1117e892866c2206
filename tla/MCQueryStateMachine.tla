------------------------ MODULE MCQueryStateMachine ------------------------
(***************************************************************************)
(* A Kill request, a stage that fails and a commit that fails, each with   *)
(* its own error code.                                                     *)
(***************************************************************************)
EXTENDS QueryStateMachine

MCFailer == {"kill", "stage", "commit"}
MCResource == {"kill"}
MCCauseOf == [f \in MCFailer |-> f]
=============================================================================
