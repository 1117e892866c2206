---------------------------- MODULE MCRemoteTask ----------------------------
(***************************************************************************)
(* Bounded scenarios of the remote task: updates are lost, the worker      *)
(* loses its task, the task is ended with clean-up requests that fail, it  *)
(* fails on the worker, and polls and updates fail until a tracker gives   *)
(* up.                                                                     *)
(***************************************************************************)
EXTENDS RemoteTask

CONSTANT s1

OneSource == {s1}

Quiet == [splits |-> 1, restarts |-> 0, losses |-> 0, calls |-> 1, polls |-> 0, tries |-> 1, events |-> {}]

MCScenarios ==
    { [Quiet EXCEPT !.calls = 2, !.tries = 2, !.losses = 1, !.events = {"update"}],
      [Quiet EXCEPT !.splits = 2, !.calls = 2],
      [Quiet EXCEPT !.restarts = 1],
      [Quiet EXCEPT !.losses = 1, !.events = {"update"}],
      [Quiet EXCEPT !.losses = 1, !.events = {"abort", "cleanup"}],
      [Quiet EXCEPT !.losses = 1, !.events = {"cancel", "cleanup"}],
      [Quiet EXCEPT !.losses = 1, !.events = {"fail", "fatal", "poll"}],
      [Quiet EXCEPT !.polls = 1] }
=============================================================================
