------------------------------- MODULE JobModel -------------------------------
(***************************************************************************)
(* The Job entity and its events.  Of the entity's fields the models keep  *)
(* those its behaviour depends on: status, workflow_run_id, whether a      *)
(* result has been written (what the function gave, the empty string       *)
(* included), retry_count (error is written with it and only then) and     *)
(* completed_at, as the operation whose clock it shows.  An event keeps    *)
(* its topic, its workflow_run_id and its previous_status.                 *)
(***************************************************************************)
EXTENDS Naturals, Sequences

CONSTANTS Job,        \* the Job entity IDs
          Run,        \* the WorkflowRun IDs
          NoRun,      \* the empty workflow_run_id
          MaxRetries  \* maxRetries: the failure that moves a Job to failed

ASSUME JobModelAssumption == /\ MaxRetries \in Nat \ {0}
                             /\ NoRun \notin Run
-----------------------------------------------------------------------------
InFlight == {"pending", "running", "retrying"}
Finished == {"completed", "failed"}
Undone == {"cancelled", "rolled_back"}
Closed == Finished \cup Undone
Status == InFlight \cup Closed

\* completed_at: never written, or the operation that wrote it
Stamp == {"none", "complete", "fail", "cancel", "rollback"}

JobRecord == [status : Status \cup {"absent"}, run : Run \cup {NoRun},
              result : BOOLEAN, retries : Nat, stamp : Stamp]

\* A Job that has not been created, and one that just has been.
Absent == [status |-> "absent", run |-> NoRun, result |-> FALSE,
           retries |-> 0, stamp |-> "none"]
NewJob(r) == [Absent EXCEPT !.status = "pending", !.run = r]

\* The functions.job.* topics the service publishes.
Topic == {"created", "started", "completed", "failed", "cancelled", "rolled_back"}

Event == [topic : Topic, run : Run \cup {NoRun}, prev : Status \cup {"none"}]

\* The announcement of a change, before the bus has taken it.
Owed == [topic : Topic, prev : Status \cup {"none"}]
Nothing == [topic |-> "none", prev |-> "none"]
===============================================================================
