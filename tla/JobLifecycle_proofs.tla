-------------------------- MODULE JobLifecycle_proofs --------------------------
(***************************************************************************)
(* JobLifecycle for any Jobs, any runs and any retry limit.                *)
(***************************************************************************)
EXTENDS JobLifecycle, TLAPS

(* The sets a step chooses from, for the proofs below. *)
LEMMA StepCases ==
  ASSUME Next
  PROVE  \E j \in Job :
            \/ \E r \in Run \cup {NoRun} : CreateJob(j, r)
            \/ \E r \in Run : SetJobWorkflowRunID(j, r)
            \/ StartJob(j) \/ CompleteJob(j) \/ RetryJob(j) \/ ExhaustJob(j)
            \/ CancelJob(j) \/ StopJob(j) \/ FreezeJob(j)
            \/ Announce(j) \/ Lose(j)
  BY DEF Next, JobStep, FailJob, RollbackJob

(* A Job entity patched with values of the right types is a Job entity. *)
LEMMA PatchedRecord ==
  ASSUME NEW rec \in JobRecord, NEW s \in Status, NEW r \in Run \cup {NoRun},
         NEW b \in BOOLEAN, NEW n \in Nat, NEW t \in Stamp
  PROVE  /\ NewJob(r) \in JobRecord
         /\ [rec EXCEPT !.run = r] \in JobRecord
         /\ [rec EXCEPT !.status = s] \in JobRecord
         /\ [rec EXCEPT !.status = s, !.stamp = t] \in JobRecord
         /\ [rec EXCEPT !.status = s, !.retries = n] \in JobRecord
         /\ [rec EXCEPT !.status = s, !.retries = n, !.stamp = t] \in JobRecord
         /\ [rec EXCEPT !.status = s, !.result = b, !.stamp = t] \in JobRecord
<1> USE DEF JobRecord
<1>1. NewJob(r) \in JobRecord
  BY DEF NewJob, Absent, Status, InFlight, Stamp
<1>2. [rec EXCEPT !.run = r] \in JobRecord
  OBVIOUS
<1>3. [rec EXCEPT !.status = s] \in JobRecord
  OBVIOUS
<1>4. [rec EXCEPT !.status = s, !.stamp = t] \in JobRecord
  OBVIOUS
<1>5. [rec EXCEPT !.status = s, !.retries = n] \in JobRecord
  OBVIOUS
<1>6. [rec EXCEPT !.status = s, !.retries = n, !.stamp = t] \in JobRecord
  OBVIOUS
<1>7. [rec EXCEPT !.status = s, !.result = b, !.stamp = t] \in JobRecord
  OBVIOUS
<1>8. QED
  BY <1>1, <1>2, <1>3, <1>4, <1>5, <1>6, <1>7

(* Storing a Job entity keeps the store well typed, and an announcement the
   announcements owed. *)
LEMMA UpdateType ==
  ASSUME TypeOK, NEW j \in Job, NEW rec \in JobRecord, UpdateEntity(j, rec)
  PROVE  jobs' \in [Job -> JobRecord]
  BY DEF TypeOK, UpdateEntity

LEMMA OweType ==
  ASSUME TypeOK, NEW j \in Job, NEW t \in Topic, NEW p \in Status \cup {"none"},
         Owe(j, t, p)
  PROVE  owed' \in [Job -> Owed \cup {Nothing}]
  BY DEF TypeOK, Owe, Owed

(***************************************************************************)
(* The Jobs, the owed events and the announced ones are always of their    *)
(* types: whatever the operations do to a Job entity, it stays a Job.      *)
(***************************************************************************)
THEOREM TypeCorrect == Spec => []TypeOK
<1>1. Init => TypeOK
  BY DEF Init, TypeOK, JobRecord, Absent, Stamp
<1>2. TypeOK /\ [Next]_lifecycleVars => TypeOK'
  <2> SUFFICES ASSUME TypeOK, [Next]_lifecycleVars PROVE TypeOK'
    OBVIOUS
  <2> USE DEF Status, InFlight, Closed, Finished, Undone, Stamp, Topic
  <2>1. CASE UNCHANGED lifecycleVars
    BY <2>1 DEF lifecycleVars, TypeOK
  <2>2. CASE Next
    <3> PICK j \in Job :
            \/ \E r \in Run \cup {NoRun} : CreateJob(j, r)
            \/ \E r \in Run : SetJobWorkflowRunID(j, r)
            \/ StartJob(j) \/ CompleteJob(j) \/ RetryJob(j) \/ ExhaustJob(j)
            \/ CancelJob(j) \/ StopJob(j) \/ FreezeJob(j)
            \/ Announce(j) \/ Lose(j)
      BY <2>2, StepCases
    <3> jobs[j] \in JobRecord /\ jobs[j].retries + 1 \in Nat
      BY DEF TypeOK, JobRecord
    <3>1. ASSUME NEW r \in Run \cup {NoRun}, CreateJob(j, r) PROVE TypeOK'
      BY <3>1, PatchedRecord, UpdateType, OweType DEF CreateJob, TypeOK
    <3>2. ASSUME NEW r \in Run, SetJobWorkflowRunID(j, r) PROVE TypeOK'
      BY <3>2, PatchedRecord, UpdateType DEF SetJobWorkflowRunID, TypeOK
    <3>3. CASE StartJob(j)
      BY <3>3, PatchedRecord, UpdateType, OweType DEF StartJob, TypeOK
    <3>4. CASE CompleteJob(j)
      BY <3>4, PatchedRecord, UpdateType, OweType DEF CompleteJob, TypeOK
    <3>5. CASE RetryJob(j)
      BY <3>5, PatchedRecord, UpdateType DEF RetryJob, TypeOK
    <3>6. CASE ExhaustJob(j)
      BY <3>6, PatchedRecord, UpdateType, OweType DEF ExhaustJob, TypeOK
    <3>7. CASE CancelJob(j)
      BY <3>7, PatchedRecord, UpdateType DEF CancelJob, TypeOK
    <3>8. CASE StopJob(j)
      BY <3>8, PatchedRecord, UpdateType, OweType DEF StopJob, TypeOK
    <3>9. CASE FreezeJob(j)
      BY <3>9, PatchedRecord, UpdateType, OweType DEF FreezeJob, TypeOK
    <3>10. CASE Announce(j)
      <4>1. owed[j] \in Owed
        BY <3>10 DEF Announce, Quiet, TypeOK
      <4>2. [topic |-> owed[j].topic, run |-> jobs[j].run, prev |-> owed[j].prev] \in Event
        BY <4>1 DEF Owed, Event, JobRecord
      <4>3. log' \in [Job -> Seq(Event)]
        BY <3>10, <4>2 DEF Announce, TypeOK
      <4>4. QED
        BY <3>10, <4>3 DEF Announce, TypeOK
    <3>11. CASE Lose(j)
      BY <3>11 DEF Lose, TypeOK
    <3>12. QED
      BY <3>1, <3>2, <3>3, <3>4, <3>5, <3>6, <3>7, <3>8, <3>9, <3>10, <3>11
  <2>3. QED
    BY <2>1, <2>2
<1>3. QED
  BY <1>1, <1>2, PTL DEF Spec
-----------------------------------------------------------------------------
(* RetryBudget and ClosingRecord of one entity; neither is inductive without
   the other. *)
Sound(rec) ==
  /\ rec.retries <= MaxRetries
  /\ rec.status \in InFlight => rec.retries < MaxRetries
  /\ rec.stamp = "fail" <=> rec.retries = MaxRetries
  /\ rec.stamp = "none" <=> rec.status \in InFlight \cup {"absent"}
  /\ rec.status = "completed" => rec.stamp = "complete"
  /\ rec.status = "failed" => rec.stamp = "fail"
  /\ rec.status = "cancelled" => rec.stamp \in {"cancel", "rollback"}
  /\ rec.status = "rolled_back" => rec.stamp \in {"complete", "fail"}
  /\ rec.result <=> rec.stamp = "complete"

LEMMA SoundJobs ==
  RetryBudget /\ ClosingRecord <=> \A j \in Job : Sound(jobs[j])
  BY DEF RetryBudget, ClosingRecord, Sound

(* A step stores at most one entity. *)
LEMMA OneJobChanges ==
  ASSUME TypeOK, NEW j \in Job, NEW rec \in JobRecord, UpdateEntity(j, rec),
         \A k \in Job : Sound(jobs[k]), Sound(rec)
  PROVE  \A k \in Job : Sound(jobs'[k])
<1>1. jobs' = [jobs EXCEPT ![j] = rec] /\ jobs \in [Job -> JobRecord]
  BY DEF UpdateEntity, TypeOK
<1>2. ASSUME NEW k \in Job PROVE Sound(jobs'[k])
  <2>1. CASE k = j
    BY <1>1, <2>1
  <2>2. CASE k # j
    BY <1>1, <2>2
  <2>3. QED
    BY <2>1, <2>2
<1>3. QED
  BY <1>2

LEMMA SoundStep ==
  ASSUME TypeOK, \A k \in Job : Sound(jobs[k]), [Next]_lifecycleVars
  PROVE  \A k \in Job : Sound(jobs'[k])
<1>1. CASE UNCHANGED lifecycleVars
  BY <1>1 DEF lifecycleVars
<1>2. CASE Next
  <2> PICK j \in Job :
          \/ \E r \in Run \cup {NoRun} : CreateJob(j, r)
          \/ \E r \in Run : SetJobWorkflowRunID(j, r)
          \/ StartJob(j) \/ CompleteJob(j) \/ RetryJob(j) \/ ExhaustJob(j)
          \/ CancelJob(j) \/ StopJob(j) \/ FreezeJob(j)
          \/ Announce(j) \/ Lose(j)
    BY <1>2, StepCases
  <2> DEFINE rec == jobs[j]
  <2>0. rec \in JobRecord /\ rec.retries + 1 \in Nat /\ Sound(rec)
    BY DEF TypeOK, JobRecord
  <2> HIDE DEF rec
  <2>a. jobs[j] = rec
    BY DEF rec
  <2> USE JobModelAssumption DEF Status, InFlight, Closed, Finished, Undone, Stamp
  <2>1. ASSUME NEW r \in Run \cup {NoRun}, CreateJob(j, r)
        PROVE  \A k \in Job : Sound(jobs'[k])
    <3>1. Sound(NewJob(r))
      BY DEF Sound, NewJob, Absent
    <3>2. QED
      BY <3>1, <2>1, <2>0, PatchedRecord, OneJobChanges DEF CreateJob
  <2>2. ASSUME NEW r \in Run, SetJobWorkflowRunID(j, r)
        PROVE  \A k \in Job : Sound(jobs'[k])
    <3>1. Sound([rec EXCEPT !.run = r])
      BY <2>0 DEF Sound, JobRecord
    <3>2. QED
      BY <3>1, <2>2, <2>0, <2>a, PatchedRecord, OneJobChanges DEF SetJobWorkflowRunID
  <2>3. CASE StartJob(j)
    <3>1. Sound([rec EXCEPT !.status = "running"])
      BY <2>0, <2>a, <2>3 DEF Sound, JobRecord, StartJob
    <3>2. QED
      BY <3>1, <2>3, <2>0, <2>a, PatchedRecord, OneJobChanges DEF StartJob
  <2>4. CASE CompleteJob(j)
    <3>1. Sound([rec EXCEPT !.status = "completed", !.result = TRUE, !.stamp = "complete"])
      BY <2>0, <2>a, <2>4 DEF Sound, JobRecord, CompleteJob
    <3>2. QED
      BY <3>1, <2>4, <2>0, <2>a, PatchedRecord, OneJobChanges DEF CompleteJob
  <2>5. CASE RetryJob(j)
    <3>1. Sound([rec EXCEPT !.status = "retrying", !.retries = @ + 1])
      BY <2>0, <2>a, <2>5 DEF Sound, JobRecord, RetryJob
    <3>2. QED
      BY <3>1, <2>5, <2>0, <2>a, PatchedRecord, OneJobChanges DEF RetryJob
  <2>6. CASE ExhaustJob(j)
    <3>1. Sound([rec EXCEPT !.status = "failed", !.retries = @ + 1, !.stamp = "fail"])
      BY <2>0, <2>a, <2>6 DEF Sound, JobRecord, ExhaustJob
    <3>2. QED
      BY <3>1, <2>6, <2>0, <2>a, PatchedRecord, OneJobChanges DEF ExhaustJob
  <2>7. CASE CancelJob(j)
    <3>1. Sound([rec EXCEPT !.status = "cancelled", !.stamp = "cancel"])
      BY <2>0, <2>a, <2>7 DEF Sound, JobRecord, CancelJob
    <3>2. QED
      BY <3>1, <2>7, <2>0, <2>a, PatchedRecord, OneJobChanges DEF CancelJob
  <2>8. CASE StopJob(j)
    <3>1. Sound([rec EXCEPT !.status = "cancelled", !.stamp = "rollback"])
      BY <2>0, <2>a, <2>8 DEF Sound, JobRecord, StopJob
    <3>2. QED
      BY <3>1, <2>8, <2>0, <2>a, PatchedRecord, OneJobChanges DEF StopJob
  <2>9. CASE FreezeJob(j)
    <3>1. Sound([rec EXCEPT !.status = "rolled_back"])
      BY <2>0, <2>a, <2>9 DEF Sound, JobRecord, FreezeJob
    <3>2. QED
      BY <3>1, <2>9, <2>0, <2>a, PatchedRecord, OneJobChanges DEF FreezeJob
  <2>10. CASE Announce(j) \/ Lose(j)
    BY <2>10 DEF Announce, Lose
  <2>11. QED
    BY <2>1, <2>2, <2>3, <2>4, <2>5, <2>6, <2>7, <2>8, <2>9, <2>10
<1>3. QED
  BY <1>1, <1>2

LEMMA SoundAlways == Spec => [](\A k \in Job : Sound(jobs[k]))
<1>1. Init => \A k \in Job : Sound(jobs[k])
  BY JobModelAssumption DEF Init, Absent, Sound, InFlight
<1>2. TypeOK /\ (\A k \in Job : Sound(jobs[k])) /\ [Next]_lifecycleVars
         => (\A k \in Job : Sound(jobs[k]))'
  BY SoundStep
<1>3. QED
  BY <1>1, <1>2, TypeCorrect, PTL DEF Spec

(***************************************************************************)
(* The retry budget is kept for every maxRetries: no sequence of starts    *)
(* and failures fails a Job early, late or never.                          *)
(***************************************************************************)
THEOREM RetryBudgetKept == Spec => []RetryBudget
<1>1. (\A k \in Job : Sound(jobs[k])) => RetryBudget
  BY SoundJobs
<1>2. QED
  BY <1>1, SoundAlways, PTL

(***************************************************************************)
(* completed_at and the result always fit the status, through rollback.    *)
(***************************************************************************)
THEOREM ClosingRecordKept == Spec => []ClosingRecord
<1>1. (\A k \in Job : Sound(jobs[k])) => ClosingRecord
  BY SoundJobs
<1>2. QED
  BY <1>1, SoundAlways, PTL

(***************************************************************************)
(* A closed Job is final: it is at most frozen by a rollback, and keeps    *)
(* its result, its failures and its completed_at.                          *)
(***************************************************************************)
THEOREM ClosedStaysClosed == Spec => ClosedIsFinal
<1>1. TypeOK /\ [Next]_lifecycleVars =>
        [\A j \in Job : jobs[j].status \in Closed =>
            /\ jobs'[j].status \in {jobs[j].status, "rolled_back"}
            /\ jobs[j].status = "cancelled" => jobs'[j].status = "cancelled"
            /\ jobs'[j].result = jobs[j].result
            /\ jobs'[j].retries = jobs[j].retries
            /\ jobs'[j].stamp = jobs[j].stamp]_jobs
  <2> SUFFICES ASSUME TypeOK, Next, jobs' # jobs, NEW k \in Job, jobs[k].status \in Closed
               PROVE  /\ jobs'[k].status \in {jobs[k].status, "rolled_back"}
                      /\ jobs[k].status = "cancelled" => jobs'[k].status = "cancelled"
                      /\ jobs'[k].result = jobs[k].result
                      /\ jobs'[k].retries = jobs[k].retries
                      /\ jobs'[k].stamp = jobs[k].stamp
    BY DEF lifecycleVars
  <2> PICK j \in Job :
          \/ \E r \in Run \cup {NoRun} : CreateJob(j, r)
          \/ \E r \in Run : SetJobWorkflowRunID(j, r)
          \/ StartJob(j) \/ CompleteJob(j) \/ RetryJob(j) \/ ExhaustJob(j)
          \/ CancelJob(j) \/ StopJob(j) \/ FreezeJob(j)
          \/ Announce(j) \/ Lose(j)
    BY StepCases
  <2>0. jobs \in [Job -> JobRecord] /\ jobs[k] \in JobRecord
    BY DEF TypeOK
  <2> USE DEF Closed, Finished, Undone, InFlight
  <2>1. CASE k # j
    <3>1. jobs'[k] = jobs[k]
      BY <2>0, <2>1 DEF CreateJob, SetJobWorkflowRunID, StartJob, CompleteJob, RetryJob,
         ExhaustJob, CancelJob, StopJob, FreezeJob, Announce, Lose, UpdateEntity
    <3>2. QED
      BY <3>1
  <2>2. CASE k = j
    <3>1. ASSUME NEW r \in Run, SetJobWorkflowRunID(j, r)
          PROVE  jobs'[k] = [jobs[k] EXCEPT !.run = r]
      BY <2>0, <2>2, <3>1 DEF SetJobWorkflowRunID, UpdateEntity
    <3>2. CASE FreezeJob(j)
      <4>1. jobs'[k] = [jobs[k] EXCEPT !.status = "rolled_back"] /\ jobs[k].status \in Finished
        BY <2>0, <2>2, <3>2 DEF FreezeJob, UpdateEntity
      <4>2. QED
        BY <2>0, <4>1 DEF JobRecord
    <3>3. (\E r \in Run : SetJobWorkflowRunID(j, r)) \/ FreezeJob(j)
      BY <2>2 DEF CreateJob, Exists, StartJob, CompleteJob, RetryJob, ExhaustJob,
         CancelJob, StopJob, Announce, Lose
    <3>4. QED
      BY <2>0, <3>1, <3>2, <3>3 DEF JobRecord
  <2>3. QED
    BY <2>1, <2>2
<1>2. QED
  BY <1>1, TypeCorrect, PTL DEF Spec, ClosedIsFinal
-----------------------------------------------------------------------------
(* What has been told of job j, announced or owed; NewsIsTrue leaves out the
   previous_status of an announcement that is still owed. *)
Previous(rec) == IF rec.stamp = "fail" THEN "failed" ELSE "completed"
TrueNews(j) ==
  /\ Told(j, "completed") => jobs[j].stamp = "complete"
  /\ Told(j, "failed") => jobs[j].stamp = "fail"
  /\ Told(j, "cancelled") => jobs[j].status = "cancelled" /\ jobs[j].stamp = "rollback"
  /\ Told(j, "rolled_back") => jobs[j].status = "rolled_back"
  /\ \A i \in DOMAIN log[j] :
        log[j][i].topic = "rolled_back" => log[j][i].prev = Previous(jobs[j])
  /\ owed[j].topic = "rolled_back" => owed[j].prev = Previous(jobs[j])

(* What job j tells depends on its own entity and announcements only. *)
LEMMA SameNews ==
  ASSUME NEW j \in Job, TrueNews(j), jobs'[j] = jobs[j], log'[j] = log[j],
         owed'[j] \in {owed[j], Nothing}
  PROVE  TrueNews(j)'
  BY DEF TrueNews, Told, Announced, Previous, Nothing

LEMMA TrueNewsStep ==
  ASSUME TypeOK, NEW k \in Job, Sound(jobs[k]), TrueNews(k), [Next]_lifecycleVars
  PROVE  TrueNews(k)'
<1>1. CASE UNCHANGED lifecycleVars
  BY <1>1, SameNews DEF lifecycleVars
<1>2. CASE Next
  <2> PICK j \in Job :
          \/ \E r \in Run \cup {NoRun} : CreateJob(j, r)
          \/ \E r \in Run : SetJobWorkflowRunID(j, r)
          \/ StartJob(j) \/ CompleteJob(j) \/ RetryJob(j) \/ ExhaustJob(j)
          \/ CancelJob(j) \/ StopJob(j) \/ FreezeJob(j)
          \/ Announce(j) \/ Lose(j)
    BY <1>2, StepCases
  <2>0. /\ jobs \in [Job -> JobRecord] /\ owed \in [Job -> Owed \cup {Nothing}]
        /\ log \in [Job -> Seq(Event)] /\ jobs[k] \in JobRecord
    BY DEF TypeOK
  <2>1. CASE k # j
    <3>1. jobs'[k] = jobs[k] /\ log'[k] = log[k] /\ owed'[k] = owed[k]
      BY <2>0, <2>1 DEF CreateJob, SetJobWorkflowRunID, StartJob, CompleteJob, RetryJob,
         ExhaustJob, CancelJob, StopJob, FreezeJob, Announce, Lose, UpdateEntity, Owe
    <3>2. QED
      BY <3>1, SameNews
  <2>2. CASE k = j
    <3> USE <2>0, <2>2 DEF Closed, Finished, Undone, InFlight
    <3>1. ASSUME NEW r \in Run \cup {NoRun}, CreateJob(j, r) PROVE TrueNews(k)'
      <4>1. jobs'[k] = NewJob(r) /\ log' = log /\ owed'[k].topic = "created"
        BY <3>1 DEF CreateJob, UpdateEntity, Owe
      <4>2. \A t \in {"completed", "failed", "cancelled", "rolled_back"} : ~Announced(k, t)
        BY <3>1 DEF CreateJob, Exists, TrueNews, Told, Sound
      <4>3. QED
        BY <4>1, <4>2 DEF TrueNews, Told, Announced
    <3>2. ASSUME NEW r \in Run, SetJobWorkflowRunID(j, r) PROVE TrueNews(k)'
      <4>1. jobs'[k] = [jobs[k] EXCEPT !.run = r] /\ log' = log /\ owed' = owed
        BY <3>2 DEF SetJobWorkflowRunID, UpdateEntity
      <4>2. jobs'[k].status = jobs[k].status /\ jobs'[k].stamp = jobs[k].stamp
        BY <4>1 DEF JobRecord
      <4>3. QED
        BY <4>1, <4>2 DEF TrueNews, Told, Announced, Previous
    <3>3. CASE StartJob(j)
      <4>1. /\ jobs'[k] = [jobs[k] EXCEPT !.status = "running"] /\ log' = log
            /\ owed'[k].topic = "started"
        BY <3>3 DEF StartJob, UpdateEntity, Owe
      <4>2. \A t \in {"completed", "failed", "cancelled", "rolled_back"} : ~Announced(k, t)
        BY <3>3 DEF StartJob, TrueNews, Told, Sound
      <4>3. QED
        BY <4>1, <4>2 DEF TrueNews, Told, Announced
    <3>4. CASE CompleteJob(j)
      <4>1. /\ jobs'[k] = [jobs[k] EXCEPT !.status = "completed", !.result = TRUE,
                                          !.stamp = "complete"]
            /\ log' = log /\ owed'[k].topic = "completed"
        BY <3>4 DEF CompleteJob, UpdateEntity, Owe
      <4>2. \A t \in {"completed", "failed", "cancelled", "rolled_back"} : ~Announced(k, t)
        BY <3>4 DEF CompleteJob, TrueNews, Told, Sound
      <4>3. jobs'[k].stamp = "complete"
        BY <4>1 DEF JobRecord
      <4>4. QED
        BY <4>1, <4>2, <4>3 DEF TrueNews, Told, Announced
    <3>5. CASE RetryJob(j)
      <4>1. log' = log /\ owed' = owed /\ owed[k].topic = "none"
        BY <3>5 DEF RetryJob, Quiet, Nothing
      <4>2. \A t \in {"completed", "failed", "cancelled", "rolled_back"} : ~Announced(k, t)
        BY <3>5 DEF RetryJob, TrueNews, Told, Sound
      <4>3. QED
        BY <4>1, <4>2 DEF TrueNews, Told, Announced
    <3>6. CASE ExhaustJob(j)
      <4>1. /\ jobs'[k] = [jobs[k] EXCEPT !.status = "failed", !.retries = @ + 1,
                                          !.stamp = "fail"]
            /\ log' = log /\ owed'[k].topic = "failed"
        BY <3>6 DEF ExhaustJob, UpdateEntity, Owe
      <4>2. \A t \in {"completed", "failed", "cancelled", "rolled_back"} : ~Announced(k, t)
        BY <3>6 DEF ExhaustJob, TrueNews, Told, Sound
      <4>3. jobs'[k].stamp = "fail"
        BY <4>1 DEF JobRecord
      <4>4. QED
        BY <4>1, <4>2, <4>3 DEF TrueNews, Told, Announced
    <3>7. CASE CancelJob(j)
      <4>1. log' = log /\ owed' = owed /\ owed[k].topic = "none"
        BY <3>7 DEF CancelJob, Quiet, Nothing
      <4>2. \A t \in {"completed", "failed", "cancelled", "rolled_back"} : ~Announced(k, t)
        BY <3>7 DEF CancelJob, TrueNews, Told, Sound
      <4>3. QED
        BY <4>1, <4>2 DEF TrueNews, Told, Announced
    <3>8. CASE StopJob(j)
      <4>1. /\ jobs'[k] = [jobs[k] EXCEPT !.status = "cancelled", !.stamp = "rollback"]
            /\ log' = log /\ owed'[k].topic = "cancelled"
        BY <3>8 DEF StopJob, UpdateEntity, Owe
      <4>2. \A t \in {"completed", "failed", "cancelled", "rolled_back"} : ~Announced(k, t)
        BY <3>8 DEF StopJob, TrueNews, Told, Sound
      <4>3. jobs'[k].status = "cancelled" /\ jobs'[k].stamp = "rollback"
        BY <4>1 DEF JobRecord
      <4>4. QED
        BY <4>1, <4>2, <4>3 DEF TrueNews, Told, Announced
    <3>9. CASE FreezeJob(j)
      <4>1. /\ jobs'[k] = [jobs[k] EXCEPT !.status = "rolled_back"] /\ log' = log
            /\ owed'[k] = [topic |-> "rolled_back", prev |-> jobs[k].status]
            /\ jobs[k].status \in Finished
        BY <3>9 DEF FreezeJob, UpdateEntity, Owe
      <4>2. ~Announced(k, "cancelled") /\ ~Announced(k, "rolled_back")
        BY <4>1 DEF TrueNews, Told
      <4>3. jobs'[k].status = "rolled_back" /\ jobs'[k].stamp = jobs[k].stamp
        BY <4>1 DEF JobRecord
      <4>4. jobs[k].status = Previous(jobs[k])
        BY <4>1 DEF Sound, Previous
      <4>5. QED
        BY <4>1, <4>2, <4>3, <4>4 DEF TrueNews, Told, Announced, Previous
    <3>10. CASE Announce(j)
      <4> DEFINE e == [topic |-> owed[k].topic, run |-> jobs[k].run, prev |-> owed[k].prev]
      <4>1. /\ jobs' = jobs /\ log'[k] = Append(log[k], e) /\ owed'[k] = Nothing
        BY <3>10 DEF Announce
      <4>2. log[k] \in Seq(Event) /\ e \in Event
        BY <3>10 DEF Announce, Quiet, Owed, Event, JobRecord
      <4>3. \A i \in DOMAIN log'[k] : \/ i \in DOMAIN log[k] /\ log'[k][i] = log[k][i]
                                     \/ log'[k][i] = e
        BY <4>1, <4>2
      <4>4. ASSUME NEW t, Told(k, t)', t # "none" PROVE Told(k, t)
        BY <4>1, <4>3, <4>4 DEF Told, Announced, Nothing
      <4>5. QED
        BY <4>1, <4>3, <4>4 DEF TrueNews, Previous, Nothing
    <3>11. CASE Lose(j)
      BY <3>11, SameNews DEF Lose
    <3>12. QED
      BY <3>1, <3>2, <3>3, <3>4, <3>5, <3>6, <3>7, <3>8, <3>9, <3>10, <3>11
  <2>3. QED
    BY <2>1, <2>2
<1>3. QED
  BY <1>1, <1>2

(***************************************************************************)
(* What subscribers have been told of a Job stays true: a completion or a  *)
(* failure is never taken back, a Job announced cancelled or rolled back   *)
(* stays so, and previous_status is the status the rollback found.         *)
(***************************************************************************)
THEOREM NewsStaysTrue == Spec => []NewsIsTrue
<1> DEFINE Inv == \A k \in Job : Sound(jobs[k]) /\ TrueNews(k)
<1>1. Init => Inv
  <2> SUFFICES ASSUME Init, NEW k \in Job PROVE Sound(jobs[k]) /\ TrueNews(k)
    OBVIOUS
  <2>1. Sound(jobs[k])
    BY JobModelAssumption DEF Init, Absent, Sound, InFlight
  <2>2. log[k] = <<>> /\ owed[k] = Nothing
    BY DEF Init
  <2>3. DOMAIN log[k] = {}
    BY <2>2
  <2>4. TrueNews(k)
    BY <2>2, <2>3 DEF TrueNews, Told, Announced, Nothing
  <2>5. QED
    BY <2>1, <2>4
<1>2. TypeOK /\ Inv /\ [Next]_lifecycleVars => Inv'
  <2> SUFFICES ASSUME TypeOK, Inv, [Next]_lifecycleVars, NEW k \in Job
               PROVE  Sound(jobs[k])' /\ TrueNews(k)'
    OBVIOUS
  <2>1. Sound(jobs'[k])
    BY SoundStep
  <2>2. QED
    BY <2>1, TrueNewsStep DEF Sound
<1>3. Inv => NewsIsTrue
  BY DEF TrueNews, NewsIsTrue, Previous
<1>4. QED
  BY <1>1, <1>2, <1>3, TypeCorrect, PTL DEF Spec
===============================================================================
