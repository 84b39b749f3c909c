------------------------------ MODULE MCNextTask -------------------------------
(***************************************************************************)
(* start-pipeline and next-task for TLC.  Of three tasks the first depends *)
(* on the second and that on the third, or the first on the third and the  *)
(* second on a task of another agency.                                     *)
(***************************************************************************)
EXTENDS NextTask, TLC

CONSTANTS k1, k2

TwoPlans == { <<{2}, {3}, {}>>, <<{3}, {Elsewhere}, {}>> }
Pins == {Unset, 0, 3}
Agencies == {Unset, 2}
Environments == {Unset, 0}

SelectorsAlike == Permutations({k1, k2})
===============================================================================
