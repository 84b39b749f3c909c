----------------------------- MODULE JobLifecycle -----------------------------
(***************************************************************************)
(* What CodeValdFunctions promises about a Job.                            *)
(*                                                                         *)
(* A Job is one execution of a function binary.  Each operation of the     *)
(* FunctionsManager on it is one step here: the state of the Job changes,  *)
(* and the event that tells of the change, if the operation has one, is    *)
(* owed until it is announced or lost (publishing is best effort).  The    *)
(* operations on one Job do not overlap.  JobManager describes how the     *)
(* code gets there, one storage call at a time.                            *)
(***************************************************************************)
EXTENDS JobModel

VARIABLES jobs,   \* jobs[j]: the Job entity j
          owed,   \* owed[j]: the event of j's last change, not yet announced
          log     \* log[j]: the events announced for j, in order

lifecycleVars == <<jobs, owed, log>>
-----------------------------------------------------------------------------
Exists(j) == jobs[j].status # "absent"
-----------------------------------------------------------------------------
Init ==
    /\ jobs = [j \in Job |-> Absent]
    /\ owed = [j \in Job |-> Nothing]
    /\ log = [j \in Job |-> <<>>]

\* The operations on one Job wait for each other.
Quiet(j) == owed[j] = Nothing

UpdateEntity(j, patched) == jobs' = [jobs EXCEPT ![j] = patched]

Owe(j, topic, prev) ==
    owed' = [owed EXCEPT ![j] = [topic |-> topic, prev |-> prev]]

CreateJob(j, r) ==
    /\ ~Exists(j)
    /\ UpdateEntity(j, NewJob(r))
    /\ Owe(j, "created", "none")
    /\ UNCHANGED log

SetJobWorkflowRunID(j, r) ==
    /\ Quiet(j)
    /\ Exists(j)
    /\ UpdateEntity(j, [jobs[j] EXCEPT !.run = r])
    /\ UNCHANGED <<owed, log>>

StartJob(j) ==
    /\ Quiet(j)
    /\ jobs[j].status \in {"pending", "retrying"}
    /\ UpdateEntity(j, [jobs[j] EXCEPT !.status = "running"])
    /\ Owe(j, "started", "none")
    /\ UNCHANGED log

CompleteJob(j) ==
    /\ Quiet(j)
    /\ jobs[j].status = "running"
    /\ UpdateEntity(j, [jobs[j] EXCEPT !.status = "completed", !.result = TRUE,
                                       !.stamp = "complete"])
    /\ Owe(j, "completed", "none")
    /\ UNCHANGED log

\* The limit is compared with the count before this failure.
RetryJobOffByOne(j) ==
    /\ Quiet(j)
    /\ jobs[j].status = "running"
    /\ jobs[j].retries < MaxRetries
    /\ UpdateEntity(j, [jobs[j] EXCEPT !.status = "retrying", !.retries = @ + 1])
    /\ UNCHANGED <<owed, log>>

\* A failure short of the last one is not announced.
RetryJob(j) ==
    /\ Quiet(j)
    /\ jobs[j].status = "running"
    /\ jobs[j].retries + 1 < MaxRetries
    /\ UpdateEntity(j, [jobs[j] EXCEPT !.status = "retrying", !.retries = @ + 1])
    /\ UNCHANGED <<owed, log>>

ExhaustJob(j) ==
    /\ Quiet(j)
    /\ jobs[j].status = "running"
    /\ jobs[j].retries + 1 >= MaxRetries
    /\ UpdateEntity(j, [jobs[j] EXCEPT !.status = "failed", !.retries = @ + 1,
                                       !.stamp = "fail"])
    /\ Owe(j, "failed", "none")
    /\ UNCHANGED log

FailJob(j) == RetryJob(j) \/ ExhaustJob(j)

\* The status is not one of the JobStatus constants.
CancelJobMisspelt(j) ==
    /\ Quiet(j)
    /\ jobs[j].status \in {"pending", "running"}
    /\ UpdateEntity(j, [jobs[j] EXCEPT !.status = "canceled", !.stamp = "cancel"])
    /\ UNCHANGED <<owed, log>>

\* A retrying Job cannot be cancelled, and a cancellation is not announced.
CancelJob(j) ==
    /\ Quiet(j)
    /\ jobs[j].status \in {"pending", "running"}
    /\ UpdateEntity(j, [jobs[j] EXCEPT !.status = "cancelled", !.stamp = "cancel"])
    /\ UNCHANGED <<owed, log>>

\* A run is stopped whether or not its Jobs have finished.
StopJobFinishedToo(j) ==
    /\ Quiet(j)
    /\ jobs[j].run \in Run
    /\ jobs[j].status \in InFlight \cup Finished
    /\ UpdateEntity(j, [jobs[j] EXCEPT !.status = "cancelled", !.stamp = "rollback"])
    /\ Owe(j, "cancelled", jobs[j].status)
    /\ UNCHANGED log

\* Rolling back a WorkflowRun stops the Jobs of the run that are in flight ...
StopJob(j) ==
    /\ Quiet(j)
    /\ jobs[j].run \in Run
    /\ jobs[j].status \in InFlight
    /\ UpdateEntity(j, [jobs[j] EXCEPT !.status = "cancelled", !.stamp = "rollback"])
    /\ Owe(j, "cancelled", jobs[j].status)
    /\ UNCHANGED log

\* completed_at moves to the time of the rollback.
FreezeJobRestamped(j) ==
    /\ Quiet(j)
    /\ jobs[j].run \in Run
    /\ jobs[j].status \in Finished
    /\ UpdateEntity(j, [jobs[j] EXCEPT !.status = "rolled_back", !.stamp = "rollback"])
    /\ Owe(j, "rolled_back", jobs[j].status)
    /\ UNCHANGED log

\* ... and freezes the finished ones with their outputs and time of completion.
FreezeJob(j) ==
    /\ Quiet(j)
    /\ jobs[j].run \in Run
    /\ jobs[j].status \in Finished
    /\ UpdateEntity(j, [jobs[j] EXCEPT !.status = "rolled_back"])
    /\ Owe(j, "rolled_back", jobs[j].status)
    /\ UNCHANGED log

RollbackJob(j) == StopJob(j) \/ FreezeJob(j)

\* The owed event reaches the subscribers, or never does.
Announce(j) ==
    /\ ~Quiet(j)
    /\ log' = [log EXCEPT ![j] = Append(@, [topic |-> owed[j].topic, run |-> jobs[j].run,
                                            prev |-> owed[j].prev])]
    /\ owed' = [owed EXCEPT ![j] = Nothing]
    /\ UNCHANGED jobs

Lose(j) ==
    /\ ~Quiet(j)
    /\ owed' = [owed EXCEPT ![j] = Nothing]
    /\ UNCHANGED <<jobs, log>>

JobStep(j) ==
    \/ \E r \in Run \cup {NoRun} : CreateJob(j, r)
    \/ \E r \in Run : SetJobWorkflowRunID(j, r)
    \/ StartJob(j)
    \/ CompleteJob(j)
    \/ FailJob(j)
    \/ CancelJob(j)
    \/ RollbackJob(j)
    \/ Announce(j)
    \/ Lose(j)

Next == \E j \in Job : JobStep(j)

Spec == Init /\ [][Next]_lifecycleVars
-----------------------------------------------------------------------------
TypeOK ==
    /\ jobs \in [Job -> JobRecord]
    /\ owed \in [Job -> Owed \cup {Nothing}]
    /\ log \in [Job -> Seq(Event)]

\* Job j has an event of topic t announced or on its way.
Announced(j, t) == \E i \in DOMAIN log[j] : log[j][i].topic = t
Told(j, t) == Announced(j, t) \/ owed[j].topic = t

(***************************************************************************)
(* The retry budget: a Job that can still run has failures left, a failed  *)
(* one has used up all of them and a completed one has not, also after it  *)
(* was rolled back (FailJob's off-by-one boundary, over every sequence of  *)
(* starts and failures).                                                   *)
(***************************************************************************)
RetryBudget ==
    \A j \in Job :
        /\ jobs[j].retries <= MaxRetries
        /\ jobs[j].status \in InFlight => jobs[j].retries < MaxRetries
        /\ jobs[j].stamp = "fail" <=> jobs[j].retries = MaxRetries

(***************************************************************************)
(* completed_at is the time the Job left the in-flight states, and a       *)
(* result is kept exactly of the Jobs that completed: rollback neither     *)
(* moves the one nor drops the other.                                      *)
(***************************************************************************)
ClosingRecord ==
    \A j \in Job :
        /\ jobs[j].stamp = "none" <=> jobs[j].status \in InFlight \cup {"absent"}
        /\ jobs[j].status = "completed" => jobs[j].stamp = "complete"
        /\ jobs[j].status = "failed" => jobs[j].stamp = "fail"
        /\ jobs[j].status = "cancelled" => jobs[j].stamp \in {"cancel", "rollback"}
        /\ jobs[j].status = "rolled_back" => jobs[j].stamp \in {"complete", "fail"}
        /\ jobs[j].result <=> jobs[j].stamp = "complete"

(***************************************************************************)
(* What a subscriber has heard is still true of the Job: an announced      *)
(* completion or failure was never taken back, a Job announced cancelled   *)
(* or rolled back stayed so, and previous_status is what the Job was.      *)
(***************************************************************************)
NewsIsTrue ==
    \A j \in Job :
        /\ Told(j, "completed") => jobs[j].stamp = "complete"
        /\ Told(j, "failed") => jobs[j].stamp = "fail"
        /\ Told(j, "cancelled") => jobs[j].status = "cancelled" /\ jobs[j].stamp = "rollback"
        /\ Told(j, "rolled_back") => jobs[j].status = "rolled_back"
        /\ \A i \in DOMAIN log[j] :
              log[j][i].topic = "rolled_back" =>
                 log[j][i].prev = IF jobs[j].stamp = "fail" THEN "failed" ELSE "completed"

(***************************************************************************)
(* The state machine as seen from outside: a closed Job is final, but for  *)
(* the rollback that freezes a finished one; whatever happens afterwards   *)
(* its result, its failures and its completed_at stay as they were.        *)
(***************************************************************************)
ClosedIsFinal ==
    [][\A j \in Job : jobs[j].status \in Closed =>
          /\ jobs'[j].status \in {jobs[j].status, "rolled_back"}
          /\ jobs[j].status = "cancelled" => jobs'[j].status = "cancelled"
          /\ jobs'[j].result = jobs[j].result
          /\ jobs'[j].retries = jobs[j].retries
          /\ jobs'[j].stamp = jobs[j].stamp]_jobs
===============================================================================
