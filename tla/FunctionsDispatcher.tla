-------------------------- MODULE FunctionsDispatcher --------------------------
(***************************************************************************)
(* The running service: the dispatch goroutines that carry one event each  *)
(* through Lookup, CreateJob, StartJob, the binary and CompleteJob or      *)
(* FailJob, beside the gRPC calls that cancel Jobs and roll runs back, all *)
(* on the one functionsManager; and the process dying with all of them.    *)
(*                                                                         *)
(* The function binary is external: it answers, when it does, with an      *)
(* error or with a result, and the result may name a WorkflowRun that the  *)
(* function minted (start-pipeline).                                       *)
(***************************************************************************)
EXTENDS JobManager

CONSTANTS Goroutine,   \* the dispatch goroutines, one per event
          Canceller,   \* the gRPC clients that call CancelJob
          Roller,      \* the gRPC clients that call RollbackByWorkflowRun
          MaxRestarts  \* bound on the number of times the process dies

ASSUME DispatcherAssumption ==
    /\ Caller = Goroutine \cup Canceller \cup Roller
    /\ Goroutine \cap (Canceller \cup Roller) = {}
    /\ Canceller \cap Roller = {}
    /\ MaxRestarts \in Nat

VARIABLES pc,       \* pc[g]: where Dispatch is in goroutine g
          restarts  \* the number of times the process has died

vars == <<jobs, log, call, sweep, pc, restarts>>

\* "lost": the process died with the goroutine
PC == {"waiting", "creating", "starting", "running", "failing", "backfilling",
       "completing", "done", "lost"}

DispatcherInit ==
    /\ Init
    /\ pc = [g \in Goroutine |-> "waiting"]
    /\ restarts = 0

Returned(c) == call[c].at = "returned"
Moved(g, next) == pc' = [pc EXCEPT ![g] = next] /\ UNCHANGED <<jobs, log, sweep, restarts>>
Ended(g) == call' = [call EXCEPT ![g] = Idle] /\ Moved(g, "done")
-----------------------------------------------------------------------------
(* Dispatch *)

\* Lookup finds no function for the event.
NoFunction(g) ==
    /\ pc[g] = "waiting"
    /\ Ended(g)

\* Lookup finds one; r is the workflow_run_id of the event's payload.
Dispatch(g, r) ==
    /\ pc[g] = "waiting"
    /\ CallCreateJob(g, r)
    /\ Moved(g, "creating")

JobCreated(g) ==
    /\ pc[g] = "creating"
    /\ Returned(g) /\ call[g].ok
    /\ CallStartJob(g, call[g].job)
    /\ Moved(g, "starting")

\* runner.Run, with the binary that Lookup found
JobStarted(g) ==
    /\ pc[g] = "starting"
    /\ Returned(g) /\ call[g].ok
    /\ Moved(g, "running")
    /\ UNCHANGED call

\* CreateJob or StartJob failed: Dispatch logs the error and returns.
GiveUp(g) ==
    /\ pc[g] \in {"creating", "starting"}
    /\ Returned(g) /\ ~call[g].ok
    /\ Ended(g)

\* Run fails, or the binary reports status "error".
BinaryFails(g) ==
    /\ pc[g] = "running"
    /\ CallFailJob(g, call[g].job)
    /\ Moved(g, "failing")

\* The binary reports a result that names the run r, or none.  call[g].seen is
\* the Job as StartJob returned it.
BinarySucceeds(g, r) ==
    /\ pc[g] = "running"
    /\ \/ /\ call[g].seen.run = NoRun
          /\ r # NoRun
          /\ CallSetJobWorkflowRunID(g, call[g].job, r)
          /\ Moved(g, "backfilling")
       \/ /\ call[g].seen.run # NoRun \/ r = NoRun
          /\ CallCompleteJob(g, call[g].job)
          /\ Moved(g, "completing")

\* Whether or not the run could be filled in, the Job is completed.
BackfillReturned(g) ==
    /\ pc[g] = "backfilling"
    /\ Returned(g)
    /\ CallCompleteJob(g, call[g].job)
    /\ Moved(g, "completing")

\* Dispatch insists on recording the outcome.
DispatchReturnsWhenRecorded(g) ==
    /\ pc[g] \in {"failing", "completing"}
    /\ Returned(g) /\ call[g].ok
    /\ Ended(g)

DispatchReturns(g) ==
    /\ pc[g] \in {"failing", "completing"}
    /\ Returned(g)
    /\ Ended(g)

DispatchStep(g) ==
    \/ JobCreated(g) \/ JobStarted(g) \/ GiveUp(g)
    \/ BinaryFails(g) \/ (\E r \in Run \cup {NoRun} : BinarySucceeds(g, r))
    \/ BackfillReturned(g) \/ DispatchReturns(g)
-----------------------------------------------------------------------------
(* The gRPC clients *)

\* A Job as the clients get it.
jobToProto(j) ==
    [id |-> j, status |-> jobs[j].status, workflow_run_id |-> jobs[j].run,
     result |-> jobs[j].result, retry_count |-> jobs[j].retries,
     completed_at |-> jobs[j].stamp]

\* The Job, or nothing (NotFound).
GetJob(j) == IF Exists(j) THEN {jobToProto(j)} ELSE {}

\* ListJobs with a filter on the run only
ListRunJobs(r) == {jobToProto(j) : j \in ListJobs([status |-> NoStatus, run |-> r])}

Free(c) == call[c].at \in {"idle", "returned"}

RequestCancel(c, j) ==
    /\ Free(c)
    /\ Exists(j)
    /\ CallCancelJob(c, j)
    /\ UNCHANGED <<jobs, log, sweep, pc, restarts>>

RequestRollback(c, r) ==
    /\ Free(c)
    /\ CallRollbackByWorkflowRun(c, r)
    /\ sweep' = [sweep EXCEPT ![c] = NoSweep]
    /\ UNCHANGED <<jobs, log, pc, restarts>>

\* A step of the manager for whoever is in a call.
Manager(c) == ManagerStep(c) /\ UNCHANGED <<pc, restarts>>

\* The process dies.  The store keeps the Jobs; nothing looks for them when the
\* service comes up again.
Restart ==
    /\ restarts < MaxRestarts
    /\ restarts' = restarts + 1
    /\ pc' = [g \in Goroutine |-> IF pc[g] \in {"waiting", "done"} THEN pc[g] ELSE "lost"]
    /\ call' = [c \in Caller |-> Idle]
    /\ sweep' = [c \in Caller |-> NoSweep]
    /\ UNCHANGED <<jobs, log>>

DispatcherNext ==
    \/ \E g \in Goroutine :
          \/ NoFunction(g)
          \/ \E r \in Run \cup {NoRun} : Dispatch(g, r)
          \/ DispatchStep(g)
    \/ \E c \in Canceller, j \in Job : RequestCancel(c, j)
    \/ \E c \in Roller, r \in Run : RequestRollback(c, r)
    \/ \E c \in Caller : Manager(c)
    \/ Restart

DispatcherSpec == DispatcherInit /\ [][DispatcherNext]_vars

(***************************************************************************)
(* The Go scheduler runs every goroutine that is not waiting for a store   *)
(* or bus call, and those calls end.  That the binary ends is the          *)
(* function's business: the runner sets it no limit.  Clients need not     *)
(* call.                                                                   *)
(***************************************************************************)
FairSpec ==
    /\ DispatcherSpec
    /\ \A g \in Goroutine : WF_vars(DispatchStep(g))
    /\ \A c \in Caller : WF_vars(Manager(c))
-----------------------------------------------------------------------------
DispatcherTypeOK ==
    /\ TypeOK
    /\ pc \in [Goroutine -> PC]
    /\ restarts \in 0..MaxRestarts

(***************************************************************************)
(* A client that asks for a Job twice, by its ID or by its run, finds it   *)
(* again, under the run it had if it had one, with its result if it had    *)
(* one, with a completed_at if it had one, and no attempt taken back: the  *)
(* back-fill never replaces a run, and no patch erases what another wrote, *)
(* however the updates of several callers fall between each other's reads  *)
(* and writes.  The value of completed_at may change: of two operations    *)
(* that end a Job at once the second writes its own over the first's, and  *)
(* so does a rollback that read the Job before it ended.                   *)
(***************************************************************************)
Grown(was, is) ==
    /\ was.workflow_run_id \in {NoRun, is.workflow_run_id}
    /\ was.result => is.result
    /\ was.completed_at # "none" => is.completed_at # "none"
    /\ was.retry_count <= is.retry_count
    /\ is.status = "pending" => was.status = "pending"
ViewOnlyGrows ==
    [][/\ \A j \in Job : \A was \in GetJob(j) : \E is \in GetJob(j)' : Grown(was, is)
       /\ \A r \in Run : \A was \in ListRunJobs(r) :
             \E is \in ListRunJobs(r)' : is.id = was.id]_jobs

(***************************************************************************)
(* Subscribers hear of a Job's creation, start and completion in this      *)
(* order and at most once each, although every event is published after a  *)
(* separate read and cancellations and rollbacks publish in between.       *)
(***************************************************************************)
Before(t, u, j) ==
    \A i, k \in DOMAIN log[j] : log[j][i].topic = t /\ log[j][k].topic = u => i < k
NewsInOrder ==
    \A j \in Job :
        /\ Before("created", "started", j)
        /\ Before("created", "completed", j)
        /\ Before("started", "completed", j)
        /\ \A t \in {"created", "started", "completed"}, i, k \in DOMAIN log[j] :
              log[j][i].topic = t /\ log[j][k].topic = t => i = k

(***************************************************************************)
(* functions.job.completed is published only when the result has been      *)
(* written to the Job, and stays there whatever else happens to the Job    *)
(* (merge-flutter-branch fetches it on hearing of the event).  A function  *)
(* that reports no result leaves an empty one.                             *)
(***************************************************************************)
CompletionHasResult ==
    \A j \in Job : \A i \in DOMAIN log[j] :
        log[j][i].topic = "completed" => jobs[j].result

(***************************************************************************)
(* A Job in a terminal state says since when, whichever of the concurrent  *)
(* writers put it there: applyRollbackStatus leaves completed_at out of    *)
(* its patch on the strength of an earlier read.                           *)
(***************************************************************************)
ClosedHasTimestamp ==
    \A j \in Job : jobs[j].status \in Closed => jobs[j].stamp # "none"

(***************************************************************************)
(* The result of a rollback accounts for every Job of the run that it      *)
(* listed, in one slice only, however the Jobs move while it works.        *)
(***************************************************************************)
ListIsAccountedFor ==
    \A c \in Roller : call[c].op = "rollback" /\ Returned(c) /\ call[c].ok =>
        LET s == sweep[c]
        IN  /\ s.cancelled \cup s.rolledBack \cup s.skipped =
                 {j \in Job : s.listed[j].status # "absent" /\ s.listed[j].run = call[c].run}
            /\ s.cancelled \cap s.rolledBack = {}
            /\ s.skipped \cap (s.cancelled \cup s.rolledBack) = {}

(***************************************************************************)
(* Dispatch returns in the end, if the binary does, also when calls of the *)
(* store fail on the way and whatever the clients do to its Job meanwhile. *)
(***************************************************************************)
DispatchEnds ==
    \A g \in Goroutine : (pc[g] \notin {"waiting", "done", "lost"}) ~> (pc[g] \in {"done", "lost"})
-----------------------------------------------------------------------------
(***************************************************************************)
(* What the code says of itself and does not keep.                         *)
(***************************************************************************)

(***************************************************************************)
(* functions.job.cancelled: "Recipients should treat the Job as terminal"  *)
(* (events.go).  A dispatch that had read the Job before the rollback      *)
(* patched it starts, completes or fails it afterwards.                    *)
(***************************************************************************)
CancelledNewsIsTerminal ==
    \A j \in Job : \A i \in DOMAIN log[j] :
        log[j][i].topic = "cancelled" => jobs[j].status \notin InFlight \cup Finished

(***************************************************************************)
(* "FailJob(error)", then functions.job.failed "(after max retries)"       *)
(* (function-job-failure-modes.md): a failed attempt is followed by        *)
(* another, until one succeeds, the last one fails or a client closes the  *)
(* Job.  Nothing in the service starts a retrying Job.                     *)
(***************************************************************************)
FailedAttemptIsRetried ==
    \A j \in Job : (jobs[j].status = "retrying") ~> (jobs[j].status \in {"running"} \cup Closed)
===============================================================================
