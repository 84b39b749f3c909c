---------------------------- MODULE MCJobLifecycle ----------------------------
(* JobLifecycle for TLC; the runs are interchangeable. *)
EXTENDS JobLifecycle, TLC

RunSymmetry == Permutations(Run)
===============================================================================
