----------------------------- MODULE MCJobManager -----------------------------
(* JobManager for TLC; Jobs and runs are interchangeable. *)
EXTENDS JobManager, TLC

ManagerSymmetry == Permutations(Job) \cup Permutations(Run)

\* Bound: Jobs fail one at a time, the other ones have not been failed.
OneFails == \E j \in Job : \A i \in Job \ {j} : jobs[i].retries = 0
===============================================================================
