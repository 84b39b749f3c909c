------------------------------ MODULE JobManager ------------------------------
(***************************************************************************)
(* functionsManager: the operations on Jobs as the code carries them out.  *)
(*                                                                         *)
(* The manager holds no lock and the store offers no compare-and-swap: an  *)
(* operation reads the entity (GetJob), checks the status it read, patches *)
(* the entity (UpdateEntity) and then publishes, after reading it again.   *)
(* Each of these calls is one step here, so the calls of several callers   *)
(* interleave between them.  RollbackByWorkflowRun lists the Jobs of the   *)
(* run once and then works through the list, acting on the status each Job *)
(* had when it was listed.                                                 *)
(*                                                                         *)
(* The entity store and the event bus are external: a call of the store is *)
(* atomic, and a call that fails has changed nothing.                      *)
(***************************************************************************)
EXTENDS JobModel

CONSTANTS Caller,   \* the goroutines that call the manager
          NoJob,    \* no Job ID
          MayFail   \* whether calls of the store and of the bus may fail

ASSUME JobManagerAssumption == /\ NoJob \notin Job
                               /\ MayFail \in BOOLEAN

VARIABLES jobs,   \* jobs[j]: the Job entity j in the store
          log,    \* log[j]: the events the bus has taken for j, in order
          call,   \* call[c]: the call c is executing
          sweep   \* sweep[c]: the local variables of c's RollbackByWorkflowRun

managerVars == <<jobs, log, call, sweep>>
-----------------------------------------------------------------------------
NoStatus == ""

Op == {"none", "create", "setRun", "start", "complete", "fail", "cancel", "rollback"}

\* Where a call is: the store or bus call it makes next.
At == {"idle", "read", "write", "list", "loop", "reread", "patch", "announce", "publish",
       "returned"}

\* seen is the Job the call has read, or got back from its update; run is the
\* workflow_run_id it was given, and then the one it publishes.
Call == [op : Op, at : At, job : Job \cup {NoJob}, run : Run \cup {NoRun},
         seen : JobRecord, ok : BOOLEAN]
Idle == [op |-> "none", at |-> "idle", job |-> NoJob, run |-> NoRun,
         seen |-> Absent, ok |-> TRUE]

\* listed is what ListJobs returned, todo the Jobs of it still to visit; the
\* slices of the result follow.
Sweep == [listed : [Job -> JobRecord], todo : SUBSET Job,
          cancelled : SUBSET Job, rolledBack : SUBSET Job, skipped : SUBSET Job]
NoSweep == [listed |-> [j \in Job |-> Absent], todo |-> {},
            cancelled |-> {}, rolledBack |-> {}, skipped |-> {}]

Init ==
    /\ jobs = [j \in Job |-> Absent]
    /\ log = [j \in Job |-> <<>>]
    /\ call = [c \in Caller |-> Idle]
    /\ sweep = [c \in Caller |-> NoSweep]
-----------------------------------------------------------------------------
(* Calling and returning *)

Exists(j) == jobs[j].status # "absent"

Begin(c, op, at, j, r) ==
    call' = [call EXCEPT ![c] = [Idle EXCEPT !.op = op, !.at = at, !.job = j, !.run = r]]

CallCreateJob(c, r) == Begin(c, "create", "write", NoJob, r)
CallSetJobWorkflowRunID(c, j, r) == Begin(c, "setRun", "read", j, r)
CallStartJob(c, j) == Begin(c, "start", "read", j, NoRun)
CallCompleteJob(c, j) == Begin(c, "complete", "read", j, NoRun)
CallFailJob(c, j) == Begin(c, "fail", "read", j, NoRun)
CallCancelJob(c, j) == Begin(c, "cancel", "read", j, NoRun)
CallRollbackByWorkflowRun(c, r) == Begin(c, "rollback", "list", NoJob, r)

Goto(c, at) == call' = [call EXCEPT ![c].at = at]
Return(c) == Goto(c, "returned")

\* An error comes back without a Job.
Fail(c) == call' = [call EXCEPT ![c].at = "returned", ![c].seen = Absent, ![c].ok = FALSE]

\* CompleteJob also accepts a Job that a cancellation has just stopped.
FromCancelledToo(op) ==
    CASE op = "start" -> {"pending", "retrying"}
      [] op = "complete" -> {"running", "cancelled"}
      [] op = "fail" -> {"running"}
      [] op = "cancel" -> {"pending", "running"}
      [] OTHER -> Status

\* The statuses an operation accepts.
From(op) ==
    CASE op = "start" -> {"pending", "retrying"}
      [] op = "complete" -> {"running"}
      [] op = "fail" -> {"running"}
      [] op = "cancel" -> {"pending", "running"}
      [] OTHER -> Status

\* GetJob, and the guard on the status it read.
ReadAccepted(c) ==
    /\ call[c].at = "read"
    /\ jobs[call[c].job].status \in From(call[c].op)
    /\ call' = [call EXCEPT ![c].at = "write", ![c].seen = jobs[call[c].job]]
    /\ UNCHANGED <<jobs, log, sweep>>

\* ErrJobNotFound or ErrInvalidJobTransition
ReadRefused(c) ==
    /\ call[c].at = "read"
    /\ jobs[call[c].job].status \notin From(call[c].op)
    /\ Fail(c)
    /\ UNCHANGED <<jobs, log, sweep>>

\* The store fails the call: the operation returns the error.
StorageFails(c) ==
    /\ MayFail
    /\ call[c].at \in {"read", "write", "list", "reread", "patch"}
    /\ Fail(c)
    /\ UNCHANGED <<jobs, log, sweep>>
-----------------------------------------------------------------------------
(* The updates of the single-Job operations *)

\* UpdateEntity: the patched Job j is stored and handed back.
Store(c, j, patched, next) ==
    /\ jobs' = [jobs EXCEPT ![j] = patched]
    /\ call' = [call EXCEPT ![c].at = next, ![c].job = j, ![c].seen = patched]
    /\ UNCHANGED <<log, sweep>>

Writing(c, op) == call[c].at = "write" /\ call[c].op = op

CreateJob(c) ==
    /\ Writing(c, "create")
    /\ \E j \in Job :
          /\ ~Exists(j)
          /\ Store(c, j, NewJob(call[c].run), "announce")

SetJobWorkflowRunID(c) ==
    /\ Writing(c, "setRun")
    /\ LET j == call[c].job
       IN  Store(c, j, [jobs[j] EXCEPT !.run = call[c].run], "returned")

\* The Job is written back as it was read.
StartJobWritingBack(c) ==
    /\ Writing(c, "start")
    /\ Store(c, call[c].job, [call[c].seen EXCEPT !.status = "running"], "announce")

StartJob(c) ==
    /\ Writing(c, "start")
    /\ LET j == call[c].job
       IN  Store(c, j, [jobs[j] EXCEPT !.status = "running"], "announce")

\* The result is left to a second update.
CompleteJobWithoutResult(c) ==
    /\ Writing(c, "complete")
    /\ LET j == call[c].job
       IN  Store(c, j, [jobs[j] EXCEPT !.status = "completed", !.stamp = "complete"],
                 "announce")

\* result is what the function gave, be it the empty string.
CompleteJob(c) ==
    /\ Writing(c, "complete")
    /\ LET j == call[c].job
       IN  Store(c, j, [jobs[j] EXCEPT !.status = "completed", !.result = TRUE,
                                       !.stamp = "complete"], "announce")

\* newCount, computed from the retry_count the call has read
NewCount(c) == call[c].seen.retries + 1

FailJobRetrying(c) ==
    /\ Writing(c, "fail")
    /\ NewCount(c) < MaxRetries
    /\ LET j == call[c].job
       IN  Store(c, j, [jobs[j] EXCEPT !.status = "retrying", !.retries = NewCount(c)],
                 "returned")

FailJobExhausted(c) ==
    /\ Writing(c, "fail")
    /\ NewCount(c) >= MaxRetries
    /\ LET j == call[c].job
       IN  Store(c, j, [jobs[j] EXCEPT !.status = "failed", !.retries = NewCount(c),
                                       !.stamp = "fail"], "announce")

\* The status is not one of the JobStatus constants.
CancelJobMisspelt(c) ==
    /\ Writing(c, "cancel")
    /\ LET j == call[c].job
       IN  Store(c, j, [jobs[j] EXCEPT !.status = "canceled", !.stamp = "cancel"],
                 "returned")

\* completed_at is forgotten.
CancelJobUnstamped(c) ==
    /\ Writing(c, "cancel")
    /\ LET j == call[c].job
       IN  Store(c, j, [jobs[j] EXCEPT !.status = "cancelled"], "returned")

CancelJob(c) ==
    /\ Writing(c, "cancel")
    /\ LET j == call[c].job
       IN  Store(c, j, [jobs[j] EXCEPT !.status = "cancelled", !.stamp = "cancel"],
                 "returned")
-----------------------------------------------------------------------------
(* RollbackByWorkflowRun *)

\* ErrWorkflowRunIDRequired
RollbackRefused(c) ==
    /\ call[c].at = "list"
    /\ call[c].run = NoRun
    /\ Fail(c)
    /\ UNCHANGED <<jobs, log, sweep>>

\* ListJobs: the zero value of a filter's field lets every Job through.
ListJobs(filter) ==
    {j \in Job : /\ Exists(j)
                 /\ filter.status \in {NoStatus, jobs[j].status}
                 /\ filter.run \in {NoRun, jobs[j].run}}

ListRun(c) ==
    /\ call[c].at = "list"
    /\ call[c].run # NoRun
    /\ sweep' = [sweep EXCEPT ![c] =
                    [NoSweep EXCEPT !.listed = jobs,
                        !.todo = ListJobs([status |-> NoStatus, run |-> call[c].run])]]
    /\ Goto(c, "loop")
    /\ UNCHANGED <<jobs, log>>

\* The status the Job of the current iteration had when it was listed.
ListedStatus(c) == sweep[c].listed[call[c].job].status
Target(c) == IF ListedStatus(c) \in InFlight THEN "cancelled" ELSE "rolled_back"

\* A skipped Job is not reported.
SkipJobSilently(c, j) ==
    /\ call[c].at = "loop"
    /\ j \in sweep[c].todo
    /\ sweep[c].listed[j].status \in Undone
    /\ sweep' = [sweep EXCEPT ![c].todo = @ \ {j}]
    /\ UNCHANGED <<jobs, log, call>>

SkipJob(c, j) ==
    /\ call[c].at = "loop"
    /\ j \in sweep[c].todo
    /\ sweep[c].listed[j].status \in Undone
    /\ sweep' = [sweep EXCEPT ![c].todo = @ \ {j}, ![c].skipped = @ \cup {j}]
    /\ UNCHANGED <<jobs, log, call>>

\* The Job is put into its slice before it is patched.
VisitJobEagerly(c, j) ==
    /\ call[c].at = "loop"
    /\ j \in sweep[c].todo
    /\ sweep[c].listed[j].status \notin Undone
    /\ sweep' = [sweep EXCEPT ![c].todo = @ \ {j}, ![c].cancelled = @ \cup {j}]
    /\ call' = [call EXCEPT ![c].at = "reread", ![c].job = j]
    /\ UNCHANGED <<jobs, log>>

\* The Job is to be undone.  The default case, for a status that is none of the
\* constants, is left out: only this manager writes a status.
VisitJob(c, j) ==
    /\ call[c].at = "loop"
    /\ j \in sweep[c].todo
    /\ sweep[c].listed[j].status \notin Undone
    /\ sweep' = [sweep EXCEPT ![c].todo = @ \ {j}]
    /\ call' = [call EXCEPT ![c].at = "reread", ![c].job = j]
    /\ UNCHANGED <<jobs, log>>

\* applyRollbackStatus reads the entity again, for its completed_at only ...
RereadJob(c) ==
    /\ call[c].at = "reread"
    /\ call' = [call EXCEPT ![c].at = "patch", ![c].seen = jobs[call[c].job]]
    /\ UNCHANGED <<jobs, log, sweep>>

\* ... and patches it: completed_at if it was empty, the status in any case.
PatchJob(c) ==
    /\ call[c].at = "patch"
    /\ LET j == call[c].job
       IN  /\ jobs' = [jobs EXCEPT ![j].status = Target(c),
                                   ![j].stamp = IF call[c].seen.stamp = "none"
                                                THEN "rollback" ELSE @]
           /\ sweep' = IF Target(c) = "cancelled"
                       THEN [sweep EXCEPT ![c].cancelled = @ \cup {j}]
                       ELSE [sweep EXCEPT ![c].rolledBack = @ \cup {j}]
    /\ Goto(c, "publish")
    /\ UNCHANGED log

EndRollback(c) ==
    /\ call[c].at = "loop"
    /\ sweep[c].todo = {}
    /\ Return(c)
    /\ UNCHANGED <<jobs, log, sweep>>
-----------------------------------------------------------------------------
(* publish and publishJSON *)

\* StartJob publishes under the topic it was copied from.
NewsCopied(c) ==
    CASE call[c].op \in {"create", "start"} -> [topic |-> "created", prev |-> "none"]
      [] call[c].op = "complete" -> [topic |-> "completed", prev |-> "none"]
      [] call[c].op = "fail" -> [topic |-> "failed", prev |-> "none"]
      [] OTHER -> [topic |-> Target(c), prev |-> ListedStatus(c)]

\* What the call that has made its update is about to tell.
News(c) ==
    CASE call[c].op = "create" -> [topic |-> "created", prev |-> "none"]
      [] call[c].op = "start" -> [topic |-> "started", prev |-> "none"]
      [] call[c].op = "complete" -> [topic |-> "completed", prev |-> "none"]
      [] call[c].op = "fail" -> [topic |-> "failed", prev |-> "none"]
      [] OTHER -> [topic |-> Target(c), prev |-> ListedStatus(c)]

Publishing(c) == call[c].at \in {"announce", "publish"}

\* publish reads the Job anew, for the workflow_run_id of the event; publishJSON
\* has it from its caller.
ReadNews(c) ==
    /\ call[c].at = "announce"
    /\ call' = [call EXCEPT ![c].at = "publish", ![c].run = jobs[call[c].job].run]
    /\ UNCHANGED <<jobs, log, sweep>>

AfterNews(c) == IF call[c].op = "rollback" THEN Goto(c, "loop") ELSE Return(c)

Announce(c) ==
    /\ call[c].at = "publish"
    /\ log' = [log EXCEPT ![call[c].job] =
                  Append(@, [topic |-> News(c).topic, run |-> call[c].run,
                             prev |-> News(c).prev])]
    /\ AfterNews(c)
    /\ UNCHANGED <<jobs, sweep>>

\* A read or a publish that fails is swallowed.
AnnounceLost(c) ==
    /\ MayFail
    /\ Publishing(c)
    /\ AfterNews(c)
    /\ UNCHANGED <<jobs, log, sweep>>
-----------------------------------------------------------------------------
\* One step of the call c is executing.
ManagerStep(c) ==
    \/ ReadAccepted(c) \/ ReadRefused(c) \/ StorageFails(c)
    \/ CreateJob(c) \/ SetJobWorkflowRunID(c) \/ StartJob(c) \/ CompleteJob(c)
    \/ FailJobRetrying(c) \/ FailJobExhausted(c) \/ CancelJob(c)
    \/ RollbackRefused(c) \/ ListRun(c)
    \/ \E j \in Job : SkipJob(c, j) \/ VisitJob(c, j)
    \/ RereadJob(c) \/ PatchJob(c) \/ EndRollback(c)
    \/ ReadNews(c) \/ Announce(c) \/ AnnounceLost(c)

\* A caller that is not in a call makes one, of any operation.
MakeCall(c) ==
    /\ call[c].at \in {"idle", "returned"}
    /\ \/ \E r \in Run \cup {NoRun} :
             \/ (\E j \in Job : ~Exists(j)) /\ CallCreateJob(c, r)
             \/ CallRollbackByWorkflowRun(c, r)
       \/ \E j \in Job :
             \/ \E r \in Run : CallSetJobWorkflowRunID(c, j, r)
             \/ CallStartJob(c, j)
             \/ CallCompleteJob(c, j)
             \/ CallFailJob(c, j)
             \/ CallCancelJob(c, j)
    /\ sweep' = [sweep EXCEPT ![c] = NoSweep]
    /\ UNCHANGED <<jobs, log>>

Next == \E c \in Caller : MakeCall(c) \/ ManagerStep(c)

Spec == Init /\ [][Next]_managerVars
-----------------------------------------------------------------------------
TypeOK ==
    /\ jobs \in [Job -> JobRecord]
    /\ log \in [Job -> Seq(Event)]
    /\ call \in [Caller -> Call]
    /\ sweep \in [Caller -> Sweep]

(***************************************************************************)
(* With one call at a time the manager implements JobLifecycle: what is    *)
(* owed is what the call between its update and its publish has to tell.   *)
(***************************************************************************)
OwedByCallers ==
    [j \in Job |->
        IF \E c \in Caller : Publishing(c) /\ call[c].job = j
        THEN News(CHOOSE c \in Caller : Publishing(c) /\ call[c].job = j)
        ELSE Nothing]

Lifecycle == INSTANCE JobLifecycle WITH owed <- OwedByCallers

LifecycleSpec == Lifecycle!Spec

(***************************************************************************)
(* While a rollback is under way, and after it, its slices say what became *)
(* of the Jobs: they are disjoint, a cancelled Job is cancelled, a         *)
(* rolled-back one rolled back, a skipped one either, also when a failing  *)
(* storage call ends the rollback half way (the result returned with the   *)
(* error).                                                                 *)
(***************************************************************************)
SlicesTellTheTruth ==
    \A c \in Caller : call[c].op = "rollback" =>
        /\ sweep[c].cancelled \cap sweep[c].rolledBack = {}
        /\ sweep[c].skipped \cap (sweep[c].cancelled \cup sweep[c].rolledBack) = {}
        /\ \A j \in sweep[c].cancelled : jobs[j].status = "cancelled"
        /\ \A j \in sweep[c].rolledBack : jobs[j].status = "rolled_back" /\ jobs[j].stamp # "rollback"
        /\ \A j \in sweep[c].skipped : jobs[j].status \in Undone

(***************************************************************************)
(* "Every Job anchored to WorkflowRunID appears in exactly one of the      *)
(* three slices" (models.go), and so none of them is left to run.          *)
(***************************************************************************)
RollbackIsComplete ==
    \A c \in Caller :
        call[c].op = "rollback" /\ call[c].at = "returned" /\ call[c].ok =>
            \A j \in Job : Exists(j) /\ jobs[j].run = call[c].run =>
                /\ j \in sweep[c].cancelled \cup sweep[c].rolledBack \cup sweep[c].skipped
                /\ jobs[j].status \in Undone
===============================================================================
