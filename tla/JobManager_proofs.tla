--------------------------- MODULE JobManager_proofs ---------------------------
(***************************************************************************)
(* The functionsManager for any Jobs, runs and retry limit: its type for   *)
(* any number of callers, and for one caller that it implements            *)
(* JobLifecycle and that the result of a rollback is true and complete.    *)
(***************************************************************************)
EXTENDS JobManager, TLAPS

LEMMA StepCases ==
  ASSUME NEW c \in Caller, ManagerStep(c)
  PROVE  \/ ReadAccepted(c) \/ ReadRefused(c) \/ StorageFails(c)
         \/ CreateJob(c) \/ SetJobWorkflowRunID(c) \/ StartJob(c) \/ CompleteJob(c)
         \/ FailJobRetrying(c) \/ FailJobExhausted(c) \/ CancelJob(c)
         \/ RollbackRefused(c) \/ ListRun(c)
         \/ (\E j \in Job : SkipJob(c, j) \/ VisitJob(c, j))
         \/ RereadJob(c) \/ PatchJob(c) \/ EndRollback(c)
         \/ ReadNews(c) \/ Announce(c) \/ AnnounceLost(c)
  BY DEF ManagerStep

-----------------------------------------------------------------------------
(* Types *)

OneJob == {"setRun", "start", "complete", "fail", "cancel"}
Announced == {"create", "start", "complete", "fail"}

(* What a call has at hand, by where it is. *)
Located(c) ==
    /\ call[c].at = "read" => call[c].op \in OneJob
    /\ call[c].at = "write" => call[c].op \in OneJob \cup {"create"}
    /\ call[c].at = "announce" => call[c].op \in Announced
    /\ call[c].at = "publish" => call[c].op \in Announced \cup {"rollback"}
    /\ call[c].at \in {"list", "loop", "reread", "patch"} => call[c].op = "rollback"
    /\ call[c].at \in {"read", "write"} /\ call[c].op \in OneJob => call[c].job \in Job
    /\ call[c].at \in {"announce", "publish", "reread", "patch"} => call[c].job \in Job
    /\ call[c].op = "setRun" => call[c].run \in Run
    /\ \A j \in sweep[c].todo : sweep[c].listed[j].status # "absent"
    /\ call[c].at \in {"reread", "patch", "publish"} /\ call[c].op = "rollback" =>
          ListedStatus(c) \in InFlight \cup Finished

AllLocated == \A c \in Caller : Located(c)
ManagerType == TypeOK /\ AllLocated

LEMMA AbsentRecord == Absent \in JobRecord
  BY DEF Absent, JobRecord, Stamp

LEMMA IdleTypes == Idle \in Call /\ NoSweep \in Sweep
  BY AbsentRecord DEF Idle, NoSweep, Call, Sweep, Op, At

LEMMA BeginType ==
  ASSUME TypeOK, NEW c \in Caller, NEW op \in Op, NEW at \in At, NEW j \in Job \cup {NoJob},
         NEW r \in Run \cup {NoRun}, Begin(c, op, at, j, r)
  PROVE  /\ call' \in [Caller -> Call]
         /\ \A d \in Caller : d # c => call'[d] = call[d]
         /\ call'[c].op = op /\ call'[c].at = at /\ call'[c].job = j /\ call'[c].run = r
         /\ call'[c].ok = TRUE
<1>1. [Idle EXCEPT !.op = op, !.at = at, !.job = j, !.run = r] \in Call
  BY IdleTypes DEF Call
<1>2. call' = [call EXCEPT ![c] = [Idle EXCEPT !.op = op, !.at = at, !.job = j, !.run = r]]
  BY DEF Begin
<1>3. QED
  BY <1>1, <1>2 DEF TypeOK, Idle

(* The calls of the manager, by where they start. *)
Started(op, at, j, r) ==
    \/ at = "write" /\ op = "create"
    \/ at = "list" /\ op = "rollback"
    \/ at = "read" /\ op \in OneJob /\ j \in Job /\ (op = "setRun" => r \in Run)

LEMMA CallBegins ==
  ASSUME NEW c \in Caller, MakeCall(c)
  PROVE  \E op \in Op, at \in At, j \in Job \cup {NoJob}, r \in Run \cup {NoRun} :
            Begin(c, op, at, j, r) /\ Started(op, at, j, r)
<1> DEFINE Goal == \E op \in Op, at \in At, j \in Job \cup {NoJob}, r \in Run \cup {NoRun} :
                      Begin(c, op, at, j, r) /\ Started(op, at, j, r)
<1>1. ASSUME NEW r \in Run \cup {NoRun}, CallCreateJob(c, r)
      PROVE  Goal
  <2>1. Started("create", "write", NoJob, r) /\ "create" \in Op /\ "write" \in At
    BY DEF Started, Op, At
  <2>2. QED
    BY <1>1, <2>1 DEF CallCreateJob
<1>2. ASSUME NEW r \in Run \cup {NoRun}, CallRollbackByWorkflowRun(c, r)
      PROVE  Goal
  <2>1. Started("rollback", "list", NoJob, r) /\ "rollback" \in Op /\ "list" \in At
    BY DEF Started, Op, At
  <2>2. QED
    BY <1>2, <2>1 DEF CallRollbackByWorkflowRun
<1>3. ASSUME NEW j \in Job, NEW r \in Run, CallSetJobWorkflowRunID(c, j, r)
      PROVE  Goal
  <2>1. Started("setRun", "read", j, r) /\ "setRun" \in Op /\ "read" \in At
    BY DEF Started, Op, At, OneJob
  <2>2. QED
    BY <1>3, <2>1 DEF CallSetJobWorkflowRunID
<1>4. ASSUME NEW j \in Job,
             CallStartJob(c, j) \/ CallCompleteJob(c, j) \/ CallFailJob(c, j) \/ CallCancelJob(c, j)
      PROVE  Goal
  <2>1. PICK op \in {"start", "complete", "fail", "cancel"} : Begin(c, op, "read", j, NoRun)
    BY <1>4 DEF CallStartJob, CallCompleteJob, CallFailJob, CallCancelJob
  <2>2. Started(op, "read", j, NoRun) /\ op \in Op /\ "read" \in At
    BY DEF Started, Op, At, OneJob
  <2>3. QED
    BY <2>1, <2>2
<1>5. QED
  BY <1>1, <1>2, <1>3, <1>4 DEF MakeCall

(* Whatever call c makes. *)
LEMMA MakeCallBegins ==
  ASSUME TypeOK, NEW c \in Caller, MakeCall(c)
  PROVE  /\ call[c].at \in {"idle", "returned"}
         /\ call' \in [Caller -> Call] /\ sweep' = [sweep EXCEPT ![c] = NoSweep]
         /\ UNCHANGED <<jobs, log>>
         /\ \A d \in Caller : d # c => call'[d] = call[d]
         /\ Started(call'[c].op, call'[c].at, call'[c].job, call'[c].run)
<1>1. PICK op \in Op, at \in At, j \in Job \cup {NoJob}, r \in Run \cup {NoRun} :
         Begin(c, op, at, j, r) /\ Started(op, at, j, r)
  BY CallBegins
<1>2. QED
  BY <1>1, BeginType DEF MakeCall

(* Call c goes on to at, with what it has seen. *)
LEMMA GotoType ==
  ASSUME TypeOK, NEW c \in Caller, NEW at \in At, NEW seen \in JobRecord, NEW ok \in BOOLEAN,
         \/ call' = [call EXCEPT ![c].at = at]
         \/ call' = [call EXCEPT ![c].at = at, ![c].seen = seen]
         \/ call' = [call EXCEPT ![c].at = at, ![c].seen = seen, ![c].ok = ok]
  PROVE  /\ call' \in [Caller -> Call] /\ \A d \in Caller : d # c => call'[d] = call[d]
         /\ call'[c].at = at /\ call'[c].op = call[c].op /\ call'[c].job = call[c].job
         /\ call'[c].run = call[c].run
<1>1. call \in [Caller -> Call] /\ call[c] \in Call
  BY DEF TypeOK
<1>2. CASE call' = [call EXCEPT ![c].at = at]
  BY <1>1, <1>2 DEF Call
<1>3. CASE call' = [call EXCEPT ![c].at = at, ![c].seen = seen]
  BY <1>1, <1>3 DEF Call
<1>4. CASE call' = [call EXCEPT ![c].at = at, ![c].seen = seen, ![c].ok = ok]
  BY <1>1, <1>4 DEF Call
<1>5. QED
  BY <1>2, <1>3, <1>4

LEMMA StoreType ==
  ASSUME TypeOK, NEW c \in Caller, NEW j \in Job, NEW patched \in JobRecord, NEW next \in At,
         Store(c, j, patched, next)
  PROVE  /\ TypeOK' /\ \A d \in Caller : d # c => call'[d] = call[d]
         /\ call'[c].at = next /\ call'[c].op = call[c].op /\ call'[c].job = j
         /\ call'[c].run = call[c].run /\ call'[c].seen = patched
         /\ jobs' = [jobs EXCEPT ![j] = patched] /\ log' = log /\ sweep' = sweep
<1>1. /\ jobs' = [jobs EXCEPT ![j] = patched] /\ log' = log /\ sweep' = sweep
      /\ call' = [call EXCEPT ![c].at = next, ![c].job = j, ![c].seen = patched]
  BY DEF Store
<1>2. /\ call' \in [Caller -> Call] /\ \A d \in Caller : d # c => call'[d] = call[d]
      /\ call'[c].at = next /\ call'[c].op = call[c].op /\ call'[c].job = j
      /\ call'[c].run = call[c].run /\ call'[c].seen = patched
  <2>1. call \in [Caller -> Call] /\ call[c] \in Call
    BY DEF TypeOK
  <2>2. call'[c] = [call[c] EXCEPT !.at = next, !.job = j, !.seen = patched]
    BY <1>1, <2>1
  <2>3. call'[c] \in Call
    BY <2>1, <2>2 DEF Call
  <2>4. \A d \in Caller : d # c => call'[d] = call[d]
    BY <1>1, <2>1
  <2>5. call' \in [Caller -> Call]
    BY <1>1, <2>1, <2>3, <2>4
  <2>6. QED
    BY <2>1, <2>2, <2>4, <2>5 DEF Call
<1>3. jobs' \in [Job -> JobRecord]
  BY <1>1 DEF TypeOK
<1>4. QED
  BY <1>1, <1>2, <1>3 DEF TypeOK

(* The update of an operation on one Job, as the record it stores. *)
Patched(c, j) ==
    CASE call[c].op = "create" -> NewJob(call[c].run)
      [] call[c].op = "setRun" -> [jobs[j] EXCEPT !.run = call[c].run]
      [] call[c].op = "start" -> [jobs[j] EXCEPT !.status = "running"]
      [] call[c].op = "complete" -> [jobs[j] EXCEPT !.status = "completed", !.result = TRUE,
                                                    !.stamp = "complete"]
      [] call[c].op = "fail" /\ NewCount(c) < MaxRetries ->
            [jobs[j] EXCEPT !.status = "retrying", !.retries = NewCount(c)]
      [] call[c].op = "fail" /\ ~(NewCount(c) < MaxRetries) ->
            [jobs[j] EXCEPT !.status = "failed", !.retries = NewCount(c), !.stamp = "fail"]
      [] call[c].op = "cancel" -> [jobs[j] EXCEPT !.status = "cancelled", !.stamp = "cancel"]

Writes(c) == CreateJob(c) \/ SetJobWorkflowRunID(c) \/ StartJob(c) \/ CompleteJob(c)
             \/ FailJobRetrying(c) \/ FailJobExhausted(c) \/ CancelJob(c)

LEMMA PatchedType ==
  ASSUME ManagerType, NEW c \in Caller, NEW j \in Job, call[c].op \in OneJob \cup {"create"}
  PROVE  Patched(c, j) \in JobRecord
<1>1. jobs[j] \in JobRecord /\ call[c] \in Call
  BY DEF ManagerType, TypeOK
<1>2. call[c].run \in Run \cup {NoRun} /\ NewCount(c) \in Nat
  BY <1>1 DEF Call, NewCount, JobRecord
<1>3. NewJob(call[c].run) \in JobRecord
  BY <1>2, AbsentRecord DEF NewJob, JobRecord, Status, InFlight
<1>4. CASE call[c].op = "create"
  BY <1>3, <1>4 DEF Patched
<1>5. CASE call[c].op = "setRun"
  BY <1>1, <1>2, <1>5 DEF Patched, JobRecord
<1>6. CASE call[c].op \in {"start", "complete", "cancel"}
  BY <1>1, <1>6 DEF Patched, JobRecord, Status, InFlight, Closed, Finished, Undone, Stamp
<1>7. CASE call[c].op = "fail"
  BY <1>1, <1>2, <1>7 DEF Patched, JobRecord, Status, InFlight, Closed, Finished, Stamp
<1>8. QED
  BY <1>4, <1>5, <1>6, <1>7 DEF OneJob

(* A call that fails a Job for good is the one whose count has reached the limit. *)
LEMMA WritesStore ==
  ASSUME ManagerType, NEW c \in Caller, Writes(c)
  PROVE  /\ call[c].at = "write"
         /\ \E j \in Job, next \in {"announce", "returned"} :
               /\ Store(c, j, Patched(c, j), next)
               /\ call[c].op = "create" => ~Exists(j)
               /\ call[c].op # "create" => j = call[c].job
               /\ next = "announce" => call[c].op \in Announced
               /\ next = "returned" <=> \/ call[c].op \in {"setRun", "cancel"}
                                        \/ call[c].op = "fail" /\ NewCount(c) < MaxRetries
<1>1. call[c] \in Call /\ Located(c) /\ NewCount(c) \in Nat /\ MaxRetries \in Nat
  BY JobModelAssumption DEF ManagerType, TypeOK, AllLocated, NewCount, Call, JobRecord
<1>2. call[c].at = "write"
  BY DEF Writes, CreateJob, SetJobWorkflowRunID, StartJob, CompleteJob, FailJobRetrying,
         FailJobExhausted, CancelJob, Writing
<1>3. CASE CreateJob(c)
  BY <1>2, <1>3 DEF CreateJob, Writing, Patched, Announced
<1>4. CASE SetJobWorkflowRunID(c)
  BY <1>1, <1>2, <1>4 DEF SetJobWorkflowRunID, Writing, Patched, Located, OneJob
<1>5. CASE StartJob(c)
  BY <1>1, <1>2, <1>5 DEF StartJob, Writing, Patched, Announced, Located, OneJob
<1>6. CASE CompleteJob(c)
  BY <1>1, <1>2, <1>6 DEF CompleteJob, Writing, Patched, Announced, Located, OneJob
<1>7. CASE FailJobRetrying(c)
  BY <1>1, <1>2, <1>7 DEF FailJobRetrying, Writing, Patched, Located, OneJob
<1>8. CASE FailJobExhausted(c)
  <2>1. ~(NewCount(c) < MaxRetries)
    BY <1>1, <1>8 DEF FailJobExhausted
  <2>2. QED
    BY <1>1, <1>2, <1>8, <2>1 DEF FailJobExhausted, Writing, Patched, Announced, Located, OneJob
<1>9. CASE CancelJob(c)
  BY <1>1, <1>2, <1>9 DEF CancelJob, Writing, Patched, Located, OneJob
<1>10. QED
  BY <1>3, <1>4, <1>5, <1>6, <1>7, <1>8, <1>9 DEF Writes

(* The steps that change nothing but where the call is and what it has seen. *)
Moves(c) == ReadAccepted(c) \/ ReadRefused(c) \/ StorageFails(c) \/ RollbackRefused(c)
            \/ RereadJob(c) \/ EndRollback(c) \/ AnnounceLost(c)

(* From where to where they lead. *)
Route(c, next) ==
    \/ call[c].at = "read" /\ next = "write" /\ call[c].op \in OneJob
    \/ call[c].at = "reread" /\ next = "patch" /\ call[c].op = "rollback"
    \/ call[c].at \in {"announce", "publish"} /\ next = "loop" /\ call[c].op = "rollback"
    \/ next = "returned"

LEMMA MovesType ==
  ASSUME ManagerType, NEW c \in Caller, Moves(c)
  PROVE  /\ TypeOK' /\ UNCHANGED <<jobs, log, sweep>>
         /\ \A d \in Caller : d # c => call'[d] = call[d]
         /\ call'[c].op = call[c].op /\ call'[c].job = call[c].job /\ call'[c].run = call[c].run
         /\ \E next \in At : call'[c].at = next /\ Route(c, next)
<1>1. /\ call[c] \in Call /\ Located(c) /\ call \in [Caller -> Call]
      /\ \A j \in Job : jobs[j] \in JobRecord
  BY DEF ManagerType, TypeOK, AllLocated
<1>2. \E next \in At, seen \in JobRecord, ok \in BOOLEAN :
         /\ Route(c, next)
         /\ \/ call' = [call EXCEPT ![c].at = next]
            \/ call' = [call EXCEPT ![c].at = next, ![c].seen = seen]
            \/ call' = [call EXCEPT ![c].at = next, ![c].seen = seen, ![c].ok = ok]
  <2>1. CASE ReadAccepted(c)
    BY <1>1, <2>1 DEF ReadAccepted, Route, Located, OneJob, At
  <2>2. CASE ReadRefused(c) \/ StorageFails(c) \/ RollbackRefused(c)
    BY <2>2, AbsentRecord DEF ReadRefused, StorageFails, RollbackRefused, Fail, Route, At
  <2>3. CASE RereadJob(c)
    BY <1>1, <2>3 DEF RereadJob, Route, Located, At
  <2>4. CASE EndRollback(c)
    BY <2>4, AbsentRecord DEF EndRollback, Return, Goto, Route, At
  <2>5. CASE AnnounceLost(c)
    BY <2>5, AbsentRecord DEF AnnounceLost, Publishing, AfterNews, Return, Goto, Route, At
  <2>6. QED
    BY <2>1, <2>2, <2>3, <2>4, <2>5 DEF Moves
<1>3. UNCHANGED <<jobs, log, sweep>>
  BY DEF Moves, ReadAccepted, ReadRefused, StorageFails, RollbackRefused, RereadJob, EndRollback,
         AnnounceLost
<1>4. PICK next \in At, seen \in JobRecord, ok \in BOOLEAN :
         /\ Route(c, next)
         /\ \/ call' = [call EXCEPT ![c].at = next]
            \/ call' = [call EXCEPT ![c].at = next, ![c].seen = seen]
            \/ call' = [call EXCEPT ![c].at = next, ![c].seen = seen, ![c].ok = ok]
  BY <1>2
<1>5. /\ call' \in [Caller -> Call] /\ \A d \in Caller : d # c => call'[d] = call[d]
      /\ call'[c].at = next /\ call'[c].op = call[c].op /\ call'[c].job = call[c].job
      /\ call'[c].run = call[c].run
  <2>1. TypeOK
    BY DEF ManagerType
  <2>2. CASE call' = [call EXCEPT ![c].at = next]
    BY ONLY <2>1, <2>2, GotoType, next \in At, seen \in JobRecord, ok \in BOOLEAN, c \in Caller
  <2>3. CASE call' = [call EXCEPT ![c].at = next, ![c].seen = seen]
    BY ONLY <2>1, <2>3, GotoType, next \in At, seen \in JobRecord, ok \in BOOLEAN, c \in Caller
  <2>4. CASE call' = [call EXCEPT ![c].at = next, ![c].seen = seen, ![c].ok = ok]
    BY ONLY <2>1, <2>4, GotoType, next \in At, seen \in JobRecord, ok \in BOOLEAN, c \in Caller
  <2>5. QED
    BY <1>4, <2>2, <2>3, <2>4
<1>6. QED
  BY <1>3, <1>4, <1>5 DEF ManagerType, TypeOK

LEMMA ReadNewsType ==
  ASSUME ManagerType, NEW c \in Caller, ReadNews(c)
  PROVE  /\ TypeOK' /\ UNCHANGED <<jobs, log, sweep>>
         /\ \A d \in Caller : d # c => call'[d] = call[d]
         /\ call[c].at = "announce" /\ call'[c].at = "publish" /\ call'[c].op = call[c].op
         /\ call'[c].job = call[c].job /\ call'[c].run = jobs[call[c].job].run
<1>1. /\ call[c] \in Call /\ Located(c) /\ call \in [Caller -> Call]
      /\ call[c].at = "announce"
  BY DEF ManagerType, TypeOK, AllLocated, ReadNews
<1>2. jobs[call[c].job].run \in Run \cup {NoRun}
  BY <1>1 DEF ManagerType, TypeOK, Located, JobRecord
<1>3. call' = [call EXCEPT ![c].at = "publish", ![c].run = jobs[call[c].job].run]
  BY DEF ReadNews
<1>4. call' \in [Caller -> Call]
  BY <1>1, <1>2, <1>3 DEF Call, At
<1>5. QED
  BY <1>1, <1>3, <1>4 DEF ReadNews, ManagerType, TypeOK, Call

LEMMA NewsType ==
  ASSUME ManagerType, NEW c \in Caller, call[c].at = "publish"
  PROVE  [topic |-> News(c).topic, run |-> call[c].run, prev |-> News(c).prev] \in Event
<1>1. call[c] \in Call /\ Located(c)
  BY DEF ManagerType, TypeOK, AllLocated
<1>2. CASE call[c].op \in Announced
  BY <1>1, <1>2 DEF News, Announced, Event, Topic, Call
<1>3. CASE call[c].op = "rollback"
  <2>1. /\ ListedStatus(c) \in Status /\ Target(c) \in Topic
        /\ News(c) = [topic |-> Target(c), prev |-> ListedStatus(c)]
    BY <1>1, <1>3 DEF News, Located, Target, Topic, Status, Closed
  <2>2. QED
    BY <1>1, <2>1 DEF Event, Call
<1>4. QED
  BY <1>1, <1>2, <1>3 DEF Located

LEMMA AnnounceType ==
  ASSUME ManagerType, NEW c \in Caller, Announce(c)
  PROVE  /\ TypeOK' /\ UNCHANGED <<jobs, sweep>>
         /\ \A d \in Caller : d # c => call'[d] = call[d]
         /\ call'[c].op = call[c].op /\ call'[c].job = call[c].job /\ call'[c].run = call[c].run
         /\ call'[c].at = IF call[c].op = "rollback" THEN "loop" ELSE "returned"
<1>1. call[c].at = "publish" /\ call[c].job \in Job /\ UNCHANGED <<jobs, sweep>>
  BY DEF Announce, ManagerType, AllLocated, Located
<1>2. PICK next \in At : /\ next = IF call[c].op = "rollback" THEN "loop" ELSE "returned"
                         /\ call' = [call EXCEPT ![c].at = next]
  BY DEF Announce, AfterNews, Goto, Return, At
<1>3. /\ call' \in [Caller -> Call] /\ \A d \in Caller : d # c => call'[d] = call[d]
      /\ call'[c].at = next /\ call'[c].op = call[c].op /\ call'[c].job = call[c].job
      /\ call'[c].run = call[c].run
  BY <1>2, GotoType, AbsentRecord DEF ManagerType
<1>4. log' \in [Job -> Seq(Event)]
  <2>1. PICK e \in Event : log' = [log EXCEPT ![call[c].job] = Append(@, e)]
    BY <1>1, NewsType DEF Announce
  <2>2. QED
    BY <1>1, <2>1 DEF ManagerType, TypeOK
<1>5. QED
  BY <1>1, <1>2, <1>3, <1>4 DEF ManagerType, TypeOK

LEMMA ListRunType ==
  ASSUME ManagerType, NEW c \in Caller, ListRun(c)
  PROVE  /\ TypeOK' /\ UNCHANGED <<jobs, log>> /\ call[c].at = "list" /\ call[c].op = "rollback"
         /\ \A d \in Caller : d # c => call'[d] = call[d] /\ sweep'[d] = sweep[d]
         /\ call'[c].at = "loop" /\ call'[c].op = call[c].op /\ call'[c].run = call[c].run
         /\ call[c].run \in Run
         /\ sweep'[c] = [NoSweep EXCEPT !.listed = jobs,
                            !.todo = {j \in Job : Exists(j) /\ jobs[j].run = call[c].run}]
<1>1. /\ sweep \in [Caller -> Sweep] /\ jobs \in [Job -> JobRecord] /\ call[c] \in Call
      /\ UNCHANGED <<jobs, log>> /\ call[c].at = "list" /\ call[c].run # NoRun
      /\ call' = [call EXCEPT ![c].at = "loop"] /\ Located(c)
  BY DEF ManagerType, TypeOK, AllLocated, ListRun, Goto
<1>2. ListJobs([status |-> NoStatus, run |-> call[c].run]) =
         {j \in Job : Exists(j) /\ jobs[j].run = call[c].run}
  BY <1>1 DEF ListJobs
<1>3. sweep' = [sweep EXCEPT ![c] = [NoSweep EXCEPT !.listed = jobs,
                   !.todo = {j \in Job : Exists(j) /\ jobs[j].run = call[c].run}]]
  BY <1>2 DEF ListRun
<1>4. [NoSweep EXCEPT !.listed = jobs,
          !.todo = {j \in Job : Exists(j) /\ jobs[j].run = call[c].run}] \in Sweep
  BY <1>1, IdleTypes DEF Sweep
<1>5. /\ sweep' \in [Caller -> Sweep] /\ \A d \in Caller : d # c => sweep'[d] = sweep[d]
      /\ sweep'[c] = [NoSweep EXCEPT !.listed = jobs,
                         !.todo = {j \in Job : Exists(j) /\ jobs[j].run = call[c].run}]
  BY <1>1, <1>3, <1>4
<1>6. /\ call' \in [Caller -> Call] /\ \A d \in Caller : d # c => call'[d] = call[d]
      /\ call'[c].at = "loop" /\ call'[c].op = call[c].op /\ call'[c].run = call[c].run
  <2>1. "loop" \in At
    BY DEF At
  <2>2. QED
    BY <1>1, <2>1, GotoType, AbsentRecord DEF ManagerType
<1>7. call[c].op = "rollback" /\ call[c].run \in Run
  BY <1>1 DEF Located, Call
<1>8. QED
  BY <1>1, <1>5, <1>6, <1>7 DEF ManagerType, TypeOK

LEMMA SkipJobType ==
  ASSUME ManagerType, NEW c \in Caller, NEW j \in Job, SkipJob(c, j)
  PROVE  /\ TypeOK' /\ UNCHANGED <<jobs, log, call>>
         /\ \A d \in Caller : d # c => sweep'[d] = sweep[d]
         /\ call[c].at = "loop" /\ j \in sweep[c].todo /\ sweep[c].listed[j].status \in Undone
         /\ sweep'[c].listed = sweep[c].listed /\ sweep'[c].todo = sweep[c].todo \ {j}
         /\ sweep'[c].cancelled = sweep[c].cancelled /\ sweep'[c].rolledBack = sweep[c].rolledBack
         /\ sweep'[c].skipped = sweep[c].skipped \cup {j}
<1>1. /\ sweep \in [Caller -> Sweep] /\ sweep[c] \in Sweep
      /\ sweep' = [sweep EXCEPT ![c].todo = @ \ {j}, ![c].skipped = @ \cup {j}]
  BY DEF ManagerType, TypeOK, SkipJob
<1>2. [sweep[c] EXCEPT !.todo = @ \ {j}, !.skipped = @ \cup {j}] \in Sweep
  BY <1>1 DEF Sweep
<1>3. sweep' \in [Caller -> Sweep] /\ \A d \in Caller : d # c => sweep'[d] = sweep[d]
  BY <1>1, <1>2
<1>4. /\ sweep'[c].listed = sweep[c].listed /\ sweep'[c].todo = sweep[c].todo \ {j}
      /\ sweep'[c].cancelled = sweep[c].cancelled /\ sweep'[c].rolledBack = sweep[c].rolledBack
      /\ sweep'[c].skipped = sweep[c].skipped \cup {j}
  BY <1>1 DEF Sweep
<1>5. QED
  BY <1>3, <1>4 DEF SkipJob, ManagerType, TypeOK

LEMMA VisitJobType ==
  ASSUME ManagerType, NEW c \in Caller, NEW j \in Job, VisitJob(c, j)
  PROVE  /\ TypeOK' /\ UNCHANGED <<jobs, log>>
         /\ \A d \in Caller : d # c => call'[d] = call[d] /\ sweep'[d] = sweep[d]
         /\ call[c].at = "loop" /\ j \in sweep[c].todo /\ sweep[c].listed[j].status \notin Undone
         /\ call'[c].at = "reread" /\ call'[c].job = j
         /\ call'[c].op = call[c].op /\ call'[c].run = call[c].run
         /\ sweep'[c].listed = sweep[c].listed /\ sweep'[c].todo = sweep[c].todo \ {j}
         /\ sweep'[c].cancelled = sweep[c].cancelled /\ sweep'[c].rolledBack = sweep[c].rolledBack
         /\ sweep'[c].skipped = sweep[c].skipped
<1>1. /\ sweep \in [Caller -> Sweep] /\ sweep[c] \in Sweep
      /\ call \in [Caller -> Call] /\ call[c] \in Call
      /\ sweep' = [sweep EXCEPT ![c].todo = @ \ {j}]
      /\ call' = [call EXCEPT ![c].at = "reread", ![c].job = j]
  BY DEF ManagerType, TypeOK, VisitJob
<1>2. /\ call' \in [Caller -> Call] /\ \A d \in Caller : d # c => call'[d] = call[d]
      /\ call'[c].at = "reread" /\ call'[c].job = j
      /\ call'[c].op = call[c].op /\ call'[c].run = call[c].run
  BY <1>1 DEF Call, At
<1>3. [sweep[c] EXCEPT !.todo = @ \ {j}] \in Sweep
  BY <1>1 DEF Sweep
<1>4. sweep' \in [Caller -> Sweep] /\ \A d \in Caller : d # c => sweep'[d] = sweep[d]
  BY <1>1, <1>3
<1>5. /\ sweep'[c].listed = sweep[c].listed /\ sweep'[c].todo = sweep[c].todo \ {j}
      /\ sweep'[c].cancelled = sweep[c].cancelled /\ sweep'[c].rolledBack = sweep[c].rolledBack
      /\ sweep'[c].skipped = sweep[c].skipped
  BY <1>1 DEF Sweep
<1>6. QED
  BY <1>2, <1>4, <1>5 DEF VisitJob, ManagerType, TypeOK

(* The Job as a rollback leaves it. *)
Undo(c) == [jobs[call[c].job] EXCEPT !.status = Target(c),
                                     !.stamp = IF call[c].seen.stamp = "none"
                                               THEN "rollback" ELSE @]

LEMMA PatchJobType ==
  ASSUME ManagerType, NEW c \in Caller, PatchJob(c)
  PROVE  /\ TypeOK' /\ log' = log /\ call[c].at = "patch" /\ call[c].job \in Job
         /\ \A d \in Caller : d # c => call'[d] = call[d] /\ sweep'[d] = sweep[d]
         /\ call'[c].at = "publish" /\ call'[c].job = call[c].job
         /\ call'[c].op = call[c].op /\ call'[c].run = call[c].run
         /\ jobs' = [jobs EXCEPT ![call[c].job] = Undo(c)]
         /\ sweep'[c].listed = sweep[c].listed /\ sweep'[c].todo = sweep[c].todo
         /\ sweep'[c].skipped = sweep[c].skipped
         /\ sweep'[c].cancelled = IF Target(c) = "cancelled" THEN sweep[c].cancelled \cup {call[c].job}
                                  ELSE sweep[c].cancelled
         /\ sweep'[c].rolledBack = IF Target(c) = "cancelled" THEN sweep[c].rolledBack
                                   ELSE sweep[c].rolledBack \cup {call[c].job}
<1>1. /\ sweep \in [Caller -> Sweep] /\ sweep[c] \in Sweep
      /\ call \in [Caller -> Call] /\ call[c] \in Call /\ call[c].at = "patch"
      /\ jobs \in [Job -> JobRecord] /\ call[c].job \in Job /\ jobs[call[c].job] \in JobRecord
      /\ call' = [call EXCEPT ![c].at = "publish"] /\ log' = log
  BY DEF ManagerType, TypeOK, AllLocated, Located, PatchJob, Goto
<1>2. jobs' = [jobs EXCEPT ![call[c].job] = Undo(c)]
  BY <1>1 DEF PatchJob, Undo, JobRecord
<1>3. Target(c) \in Status
  BY DEF Target, Status, Closed, Undone
<1>4. Undo(c) \in JobRecord
  BY <1>1, <1>3 DEF Undo, JobRecord, Stamp
<1>5. jobs' \in [Job -> JobRecord]
  BY <1>1, <1>2, <1>4
<1>6. /\ call' \in [Caller -> Call] /\ \A d \in Caller : d # c => call'[d] = call[d]
      /\ call'[c].at = "publish" /\ call'[c].job = call[c].job
      /\ call'[c].op = call[c].op /\ call'[c].run = call[c].run
  <2>1. "publish" \in At
    BY DEF At
  <2>2. QED
    BY <1>1, <2>1, GotoType, AbsentRecord DEF ManagerType
<1>7. sweep' = IF Target(c) = "cancelled"
               THEN [sweep EXCEPT ![c].cancelled = @ \cup {call[c].job}]
               ELSE [sweep EXCEPT ![c].rolledBack = @ \cup {call[c].job}]
  BY DEF PatchJob
<1>8. CASE Target(c) = "cancelled"
  <2>1. sweep' = [sweep EXCEPT ![c].cancelled = @ \cup {call[c].job}]
    BY <1>7, <1>8
  <2>2. QED
    BY <1>1, <1>2, <1>5, <1>6, <1>8, <2>1 DEF Sweep, ManagerType, TypeOK
<1>9. CASE Target(c) # "cancelled"
  <2>1. sweep' = [sweep EXCEPT ![c].rolledBack = @ \cup {call[c].job}]
    BY <1>7, <1>9
  <2>2. QED
    BY <1>1, <1>2, <1>5, <1>6, <1>9, <2>1 DEF Sweep, ManagerType, TypeOK
<1>10. QED
  BY <1>8, <1>9

(* The other calls are where they were. *)
LEMMA LocatedElsewhere ==
  ASSUME AllLocated, NEW c \in Caller,
         \A d \in Caller : d # c => call'[d] = call[d] /\ sweep'[d] = sweep[d],
         Located(c)'
  PROVE  AllLocated'
<1> SUFFICES ASSUME NEW d \in Caller, d # c
             PROVE  Located(d)'
  BY DEF AllLocated
<1>1. Located(d) /\ call'[d] = call[d] /\ sweep'[d] = sweep[d]
  BY DEF AllLocated
<1>2. QED
  BY <1>1 DEF Located, ListedStatus

LEMMA ManagerTypeInit == Init => ManagerType
<1> SUFFICES ASSUME Init
             PROVE  ManagerType
  OBVIOUS
<1>1. TypeOK
  BY AbsentRecord, IdleTypes DEF Init, TypeOK
<1>2. ASSUME NEW c \in Caller
      PROVE  Located(c)
  <2>1. call[c] = Idle /\ sweep[c] = NoSweep
    BY DEF Init
  <2>2. QED
    BY <2>1 DEF Idle, NoSweep, Located
<1>3. QED
  BY <1>1, <1>2 DEF ManagerType, AllLocated

LEMMA MakeCallKeepsType ==
  ASSUME ManagerType, NEW c \in Caller, MakeCall(c)
  PROVE  ManagerType'
<1>1. sweep \in [Caller -> Sweep] /\ sweep' = [sweep EXCEPT ![c] = NoSweep]
  BY MakeCallBegins DEF ManagerType, TypeOK
<1>2. TypeOK'
  BY <1>1, MakeCallBegins, IdleTypes DEF ManagerType, TypeOK
<1>3. sweep'[c] = NoSweep
  BY <1>1
<1>4. Located(c)'
  BY <1>3, MakeCallBegins DEF ManagerType, Started, Located, OneJob, NoSweep
<1>5. \A d \in Caller : d # c => call'[d] = call[d] /\ sweep'[d] = sweep[d]
  BY <1>1, MakeCallBegins DEF ManagerType
<1>6. QED
  BY <1>2, <1>4, <1>5, LocatedElsewhere DEF ManagerType

LEMMA ManagerStepKeepsType ==
  ASSUME ManagerType, NEW c \in Caller, ManagerStep(c)
  PROVE  ManagerType'
<1>1. Located(c)
  BY DEF ManagerType, AllLocated
<1>2. CASE Writes(c)
  <2>1. PICK j \in Job, next \in {"announce", "returned"} :
           /\ Store(c, j, Patched(c, j), next)
           /\ next = "announce" => call[c].op \in Announced
    BY <1>2, WritesStore
  <2>2. call[c].op \in OneJob \cup {"create"} /\ next \in At
    BY <1>1, <1>2, WritesStore DEF Located, At
  <2>3. Patched(c, j) \in JobRecord
    BY <2>2, PatchedType
  <2>4. /\ TypeOK' /\ \A d \in Caller : d # c => call'[d] = call[d]
        /\ call'[c].at = next /\ call'[c].op = call[c].op /\ call'[c].job = j
        /\ call'[c].run = call[c].run /\ sweep' = sweep
    BY <2>1, <2>2, <2>3, StoreType DEF ManagerType
  <2>5. Located(c)'
    BY <1>1, <2>1, <2>2, <2>4 DEF Located, OneJob
  <2>6. QED
    BY <2>4, <2>5, LocatedElsewhere DEF ManagerType
<1>3. CASE Moves(c)
  <2>1. PICK next \in At : call'[c].at = next /\ Route(c, next)
    BY <1>3, MovesType
  <2>2. Located(c)'
    BY <1>1, <1>3, <2>1, MovesType DEF Located, Route, ListedStatus
  <2>3. QED
    BY <1>3, <2>2, MovesType, LocatedElsewhere DEF ManagerType
<1>4. CASE ReadNews(c)
  <2>1. Located(c)'
    BY <1>1, <1>4, ReadNewsType DEF Located, ListedStatus, OneJob, Announced
  <2>2. QED
    BY <1>4, <2>1, ReadNewsType, LocatedElsewhere DEF ManagerType
<1>5. CASE Announce(c)
  <2>1. Located(c)'
    BY <1>1, <1>5, AnnounceType DEF Located, ListedStatus
  <2>2. QED
    BY <1>5, <2>1, AnnounceType, LocatedElsewhere DEF ManagerType
<1>6. CASE ListRun(c)
  <2>1. /\ sweep'[c].listed = jobs
        /\ sweep'[c].todo = {j \in Job : Exists(j) /\ jobs[j].run = call[c].run}
        /\ call'[c].at = "loop" /\ call'[c].op = "rollback"
    BY <1>6, ListRunType DEF NoSweep
  <2>2. Located(c)'
    BY <2>1 DEF Located, Exists
  <2>3. QED
    BY <1>6, <2>2, ListRunType, LocatedElsewhere DEF ManagerType
<1>7. ASSUME NEW j \in Job, SkipJob(c, j)
      PROVE  ManagerType'
  <2>1. Located(c)'
    BY <1>1, <1>7, SkipJobType DEF Located, ListedStatus
  <2>2. QED
    BY <1>7, <2>1, SkipJobType, LocatedElsewhere DEF ManagerType
<1>8. ASSUME NEW j \in Job, VisitJob(c, j)
      PROVE  ManagerType'
  <2>1. sweep[c].listed[j].status \in InFlight \cup Finished
    <3>1. sweep[c].listed[j] \in JobRecord
      BY DEF ManagerType, TypeOK, Sweep
    <3>2. QED
      BY <1>1, <1>8, <3>1, VisitJobType DEF Located, JobRecord, Status, Closed
  <2>2. Located(c)'
    BY <1>1, <1>8, <2>1, VisitJobType DEF Located, ListedStatus
  <2>3. QED
    BY <1>8, <2>2, VisitJobType, LocatedElsewhere DEF ManagerType
<1>9. CASE PatchJob(c)
  <2>1. /\ sweep'[c].listed = sweep[c].listed /\ sweep'[c].todo = sweep[c].todo
        /\ call[c].at = "patch" /\ call'[c].at = "publish" /\ call'[c].job = call[c].job
        /\ call'[c].op = call[c].op /\ call'[c].run = call[c].run
    BY <1>9, PatchJobType
  <2>2. Located(c)'
    BY <1>1, <2>1 DEF Located, ListedStatus
  <2>3. QED
    BY <1>9, <2>2, PatchJobType, LocatedElsewhere DEF ManagerType
<1>10. QED
  BY <1>2, <1>3, <1>4, <1>5, <1>6, <1>7, <1>8, <1>9, StepCases DEF Writes, Moves

LEMMA ManagerTypeStep == ManagerType /\ [Next]_managerVars => ManagerType'
<1> SUFFICES ASSUME ManagerType, [Next]_managerVars
             PROVE  ManagerType'
  OBVIOUS
<1>1. CASE UNCHANGED managerVars
  BY <1>1 DEF managerVars, ManagerType, TypeOK, AllLocated, Located, ListedStatus
<1>2. QED
  BY <1>1, MakeCallKeepsType, ManagerStepKeepsType DEF Next

(***************************************************************************)
(* Every reachable state of the store, of the bus and of the calls of      *)
(* manager.go and workflow_run_rollback.go has its type, for any number of *)
(* callers and failures.                                                   *)
(***************************************************************************)
THEOREM TypeCorrect == Spec => []TypeOK
<1>1. ManagerType => TypeOK
  BY DEF ManagerType
<1>2. QED
  BY <1>1, ManagerTypeInit, ManagerTypeStep, PTL DEF Spec

-----------------------------------------------------------------------------
(* One caller *)

OneCaller == \A c, d \in Caller : c = d

(* completed_at fits the status. *)
Stamped(j) ==
    /\ jobs[j].status \in InFlight \cup {"absent"} => jobs[j].stamp = "none"
    /\ jobs[j].status \in Finished => jobs[j].stamp \in {"complete", "fail"}
    /\ jobs[j].status = "rolled_back" => jobs[j].stamp \in {"complete", "fail"}

(* What the call has read or listed is still so when it acts on it. *)
Current(c) ==
    /\ call[c].at = "write" /\ call[c].op # "create" =>
          call[c].seen = jobs[call[c].job] /\ jobs[call[c].job].status \in From(call[c].op)
    /\ call[c].at = "publish" => call[c].run = jobs[call[c].job].run
    /\ call[c].at \in {"loop", "reread", "patch", "publish"} /\ call[c].op = "rollback" =>
          /\ call[c].run \in Run
          /\ \A j \in sweep[c].todo : jobs[j] = sweep[c].listed[j] /\ jobs[j].run = call[c].run
    /\ call[c].at \in {"reread", "patch"} =>
          /\ jobs[call[c].job] = sweep[c].listed[call[c].job]
          /\ jobs[call[c].job].run = call[c].run
    /\ call[c].at = "patch" => call[c].seen = jobs[call[c].job]

(* The Job that a rollback is at work on is in no slice yet. *)
InHand(c) == IF call[c].at \in {"reread", "patch"} THEN {call[c].job} ELSE {}

(* The slices of a rollback, what it has in hand and what it has still to do are *)
(* apart, and have every Job of the run.                                         *)
Sliced(c) ==
    call[c].op = "rollback" =>
        /\ sweep[c].cancelled \cap sweep[c].rolledBack = {}
        /\ sweep[c].skipped \cap (sweep[c].cancelled \cup sweep[c].rolledBack) = {}
        /\ (sweep[c].todo \cup InHand(c)) \cap
              (sweep[c].cancelled \cup sweep[c].rolledBack \cup sweep[c].skipped) = {}
        /\ sweep[c].todo \cap InHand(c) = {}
        /\ \A j \in sweep[c].cancelled : jobs[j].status = "cancelled"
        /\ \A j \in sweep[c].rolledBack : jobs[j].status = "rolled_back"
        /\ \A j \in sweep[c].skipped : jobs[j].status \in Undone
        /\ call[c].at \in {"loop", "reread", "patch", "publish"} \/ (call[c].at = "returned" /\ call[c].ok) =>
              \A j \in Job : Exists(j) /\ jobs[j].run = call[c].run =>
                 j \in sweep[c].todo \cup InHand(c) \cup
                       sweep[c].cancelled \cup sweep[c].rolledBack \cup sweep[c].skipped
        /\ call[c].at = "returned" /\ call[c].ok => sweep[c].todo = {}

SoloInv == /\ ManagerType /\ OneCaller
           /\ \A j \in Job : Stamped(j)
           /\ \A c \in Caller : Current(c) /\ Sliced(c)

LEMMA SoloMakeCall ==
  ASSUME SoloInv, NEW c \in Caller, MakeCall(c)
  PROVE  (\A j \in Job : Stamped(j)') /\ Current(c)' /\ Sliced(c)'
<1>1. /\ sweep'[c] = NoSweep /\ jobs' = jobs
      /\ call'[c].at \in {"write", "list", "read"}
      /\ call'[c].at = "write" => call'[c].op = "create"
  BY MakeCallBegins DEF SoloInv, ManagerType, TypeOK, Started
<1>2. Sliced(c)'
  BY <1>1 DEF Sliced, InHand, NoSweep
<1>3. Current(c)'
  BY <1>1 DEF Current
<1>4. QED
  BY <1>1, <1>2, <1>3 DEF SoloInv, Stamped

LEMMA SoloWrites ==
  ASSUME SoloInv, NEW c \in Caller, Writes(c)
  PROVE  (\A j \in Job : Stamped(j)') /\ Current(c)' /\ Sliced(c)'
<1>1. PICK j \in Job, next \in {"announce", "returned"} :
         /\ Store(c, j, Patched(c, j), next)
         /\ call[c].op # "create" => j = call[c].job
  BY WritesStore DEF SoloInv
<1>2. /\ call[c].at = "write" /\ call[c].op \in OneJob \cup {"create"} /\ next \in At
      /\ Current(c) /\ Stamped(j) /\ jobs[j] \in JobRecord /\ jobs \in [Job -> JobRecord]
  BY WritesStore DEF SoloInv, ManagerType, TypeOK, AllLocated, Located, At
<1>3. Patched(c, j) \in JobRecord
  BY <1>2, PatchedType DEF SoloInv
<1>4. /\ call'[c].at = next /\ call'[c].op = call[c].op /\ jobs' = [jobs EXCEPT ![j] = Patched(c, j)]
  BY <1>1, <1>2, <1>3, StoreType DEF SoloInv, ManagerType
<1>5. Current(c)' /\ Sliced(c)'
  BY <1>2, <1>4 DEF Current, Sliced, OneJob
<1>6. ASSUME call[c].op # "create"
      PROVE  jobs[j].status \in From(call[c].op)
  BY <1>1, <1>2, <1>6 DEF Current
<1>7. Stamped(j)'
  <2>1. jobs'[j] = Patched(c, j)
    BY <1>2, <1>4
  <2>2. CASE call[c].op = "create"
    BY <2>1, <2>2 DEF Stamped, Patched, NewJob, Absent, InFlight, Finished
  <2>3. CASE call[c].op = "setRun"
    BY <1>2, <2>1, <2>3 DEF Stamped, Patched, JobRecord
  <2>4. CASE call[c].op = "start"
    BY <1>2, <1>6, <2>1, <2>4 DEF Stamped, Patched, JobRecord, From, InFlight, Finished
  <2>5. CASE call[c].op = "complete"
    BY <1>2, <2>1, <2>5 DEF Stamped, Patched, JobRecord, InFlight, Finished
  <2>6. CASE call[c].op = "fail"
    BY <1>2, <1>6, <2>1, <2>6 DEF Stamped, Patched, JobRecord, From, InFlight, Finished
  <2>7. CASE call[c].op = "cancel"
    BY <1>2, <2>1, <2>7 DEF Stamped, Patched, JobRecord, InFlight, Finished
  <2>8. QED
    BY <1>2, <2>2, <2>3, <2>4, <2>5, <2>6, <2>7 DEF OneJob
<1>8. \A i \in Job : i # j => Stamped(i)'
  BY <1>2, <1>4 DEF SoloInv, Stamped
<1>9. QED
  BY <1>5, <1>7, <1>8

LEMMA SoloMoves ==
  ASSUME SoloInv, NEW c \in Caller, Moves(c)
  PROVE  (\A j \in Job : Stamped(j)') /\ Current(c)' /\ Sliced(c)'
<1>1. /\ call \in [Caller -> Call] /\ call[c] \in Call /\ Current(c) /\ Sliced(c) /\ Located(c)
      /\ UNCHANGED <<jobs, log, sweep>>
  BY MovesType DEF SoloInv, ManagerType, TypeOK, AllLocated
<1>2. \A j \in Job : Stamped(j)'
  BY <1>1 DEF SoloInv, Stamped
<1>3. CASE ReadAccepted(c)
  <2>1. /\ call'[c].at = "write" /\ call'[c].op = call[c].op /\ call'[c].job = call[c].job
        /\ call'[c].seen = jobs[call[c].job] /\ jobs[call[c].job].status \in From(call[c].op)
        /\ call[c].at = "read"
    BY <1>1, <1>3 DEF ReadAccepted, Call
  <2>2. QED
    BY <1>1, <1>2, <2>1 DEF Current, Sliced, Located, OneJob
<1>4. CASE ReadRefused(c) \/ StorageFails(c) \/ RollbackRefused(c)
  <2>1. call' = [call EXCEPT ![c].at = "returned", ![c].seen = Absent, ![c].ok = FALSE]
    BY <1>4 DEF ReadRefused, StorageFails, RollbackRefused, Fail
  <2>2. /\ call'[c].at = "returned" /\ call'[c].ok = FALSE /\ call'[c].op = call[c].op
    BY <1>1, <2>1 DEF Call
  <2>3. Sliced(c)'
    BY <1>1, <2>2 DEF Sliced, InHand
  <2>4. QED
    BY <1>2, <2>2, <2>3 DEF Current
<1>5. CASE RereadJob(c)
  <2>1. /\ call'[c].at = "patch" /\ call'[c].op = call[c].op /\ call'[c].job = call[c].job
        /\ call'[c].run = call[c].run /\ call'[c].seen = jobs[call[c].job]
        /\ call[c].at = "reread"
    BY <1>1, <1>5 DEF RereadJob, Call
  <2>2. InHand(c)' = InHand(c)
    BY <2>1 DEF InHand
  <2>3. Sliced(c)'
    BY <1>1, <2>1, <2>2 DEF Sliced, Exists
  <2>4. QED
    BY <1>1, <1>2, <2>1, <2>3 DEF Current
<1>6. CASE EndRollback(c)
  <2>1. /\ call'[c].at = "returned" /\ call'[c].op = call[c].op /\ call'[c].run = call[c].run
        /\ call[c].at = "loop" /\ sweep[c].todo = {}
    BY <1>1, <1>6 DEF EndRollback, Return, Goto, Call
  <2>2. InHand(c)' = {} /\ InHand(c) = {}
    BY <2>1 DEF InHand
  <2>3. Sliced(c)'
    BY <1>1, <2>1, <2>2 DEF Sliced, Exists
  <2>4. QED
    BY <1>2, <2>1, <2>3 DEF Current
<1>7. CASE AnnounceLost(c)
  <2>1. /\ call'[c].op = call[c].op /\ call'[c].run = call[c].run
        /\ call[c].at \in {"announce", "publish"}
        /\ call'[c].at = IF call[c].op = "rollback" THEN "loop" ELSE "returned"
    BY <1>1, <1>7 DEF AnnounceLost, Publishing, AfterNews, Return, Goto, Call
  <2>2. InHand(c)' = {} /\ InHand(c) = {} /\ (call[c].op = "rollback" => call[c].at = "publish")
    BY <1>1, <2>1 DEF InHand, Located, Announced
  <2>3. Sliced(c)'
    BY <1>1, <2>1, <2>2 DEF Sliced, Exists
  <2>4. QED
    BY <1>1, <1>2, <2>1, <2>2, <2>3 DEF Current
<1>8. QED
  BY <1>3, <1>4, <1>5, <1>6, <1>7 DEF Moves

LEMMA SoloNews ==
  ASSUME SoloInv, NEW c \in Caller, ReadNews(c) \/ Announce(c)
  PROVE  (\A j \in Job : Stamped(j)') /\ Current(c)' /\ Sliced(c)'
<1>1. /\ Current(c) /\ Sliced(c) /\ Located(c) /\ UNCHANGED <<jobs, sweep>>
  BY ReadNewsType, AnnounceType DEF SoloInv, ManagerType, AllLocated
<1>2. \A j \in Job : Stamped(j)'
  BY <1>1 DEF SoloInv, Stamped
<1>3. CASE ReadNews(c)
  <2>1. /\ call[c].at = "announce" /\ call'[c].at = "publish" /\ call'[c].op = call[c].op
        /\ call'[c].job = call[c].job /\ call'[c].run = jobs[call[c].job].run
    BY <1>3, ReadNewsType DEF SoloInv
  <2>2. call[c].op # "rollback"
    BY <1>1, <2>1 DEF Located, Announced
  <2>3. QED
    BY <1>1, <1>2, <2>1, <2>2 DEF Current, Sliced
<1>4. CASE Announce(c)
  <2>1. /\ call'[c].op = call[c].op /\ call'[c].run = call[c].run /\ call[c].at = "publish"
        /\ call'[c].at = IF call[c].op = "rollback" THEN "loop" ELSE "returned"
    BY <1>4, AnnounceType DEF SoloInv, Announce
  <2>2. InHand(c)' = {} /\ InHand(c) = {}
    BY <2>1 DEF InHand
  <2>3. Sliced(c)'
    BY <1>1, <2>1, <2>2 DEF Sliced, Exists
  <2>4. QED
    BY <1>1, <1>2, <2>1, <2>3 DEF Current
<1>5. QED
  BY <1>3, <1>4

LEMMA SoloListRun ==
  ASSUME SoloInv, NEW c \in Caller, ListRun(c)
  PROVE  (\A j \in Job : Stamped(j)') /\ Current(c)' /\ Sliced(c)'
<1>1. /\ jobs' = jobs /\ call'[c].at = "loop" /\ call'[c].op = "rollback"
      /\ call'[c].run = call[c].run /\ call[c].run \in Run
      /\ sweep'[c].listed = jobs
      /\ sweep'[c].todo = {j \in Job : Exists(j) /\ jobs[j].run = call[c].run}
      /\ sweep'[c].cancelled = {} /\ sweep'[c].rolledBack = {} /\ sweep'[c].skipped = {}
  BY ListRunType DEF SoloInv, NoSweep
<1>2. \A j \in Job : Stamped(j)'
  BY <1>1 DEF SoloInv, Stamped
<1>3. Current(c)'
  BY <1>1 DEF Current
<1>4. InHand(c)' = {}
  BY <1>1 DEF InHand
<1>5. Sliced(c)'
  BY <1>1, <1>4 DEF Sliced, Exists
<1>6. QED
  BY <1>2, <1>3, <1>5

LEMMA SoloSkipJob ==
  ASSUME SoloInv, NEW c \in Caller, NEW j \in Job, SkipJob(c, j)
  PROVE  (\A i \in Job : Stamped(i)') /\ Current(c)' /\ Sliced(c)'
<1>1. /\ UNCHANGED <<jobs, call>> /\ call[c].at = "loop" /\ j \in sweep[c].todo
      /\ sweep[c].listed[j].status \in Undone
      /\ sweep'[c].listed = sweep[c].listed /\ sweep'[c].todo = sweep[c].todo \ {j}
      /\ sweep'[c].cancelled = sweep[c].cancelled /\ sweep'[c].rolledBack = sweep[c].rolledBack
      /\ sweep'[c].skipped = sweep[c].skipped \cup {j}
  BY SkipJobType DEF SoloInv
<1>2. \A i \in Job : Stamped(i)'
  BY <1>1 DEF SoloInv, Stamped
<1>3. Current(c) /\ Sliced(c) /\ call[c].op = "rollback"
  BY <1>1 DEF SoloInv, ManagerType, AllLocated, Located
<1>4. Current(c)'
  BY <1>1, <1>3 DEF Current
<1>5. InHand(c)' = {} /\ InHand(c) = {}
  BY <1>1 DEF InHand
<1>6. jobs[j].status \in Undone
  BY <1>1, <1>3 DEF Current
<1>7. Sliced(c)'
  BY <1>1, <1>3, <1>5, <1>6 DEF Sliced, Exists
<1>8. QED
  BY <1>2, <1>4, <1>7

LEMMA SoloVisitJob ==
  ASSUME SoloInv, NEW c \in Caller, NEW j \in Job, VisitJob(c, j)
  PROVE  (\A i \in Job : Stamped(i)') /\ Current(c)' /\ Sliced(c)'
<1>1. /\ jobs' = jobs /\ call[c].at = "loop" /\ j \in sweep[c].todo
      /\ call'[c].at = "reread" /\ call'[c].job = j
      /\ call'[c].op = call[c].op /\ call'[c].run = call[c].run
      /\ sweep'[c].listed = sweep[c].listed /\ sweep'[c].todo = sweep[c].todo \ {j}
      /\ sweep'[c].cancelled = sweep[c].cancelled /\ sweep'[c].rolledBack = sweep[c].rolledBack
      /\ sweep'[c].skipped = sweep[c].skipped
  BY VisitJobType DEF SoloInv
<1>2. \A i \in Job : Stamped(i)'
  BY <1>1 DEF SoloInv, Stamped
<1>3. Current(c) /\ Sliced(c) /\ call[c].op = "rollback"
  BY <1>1 DEF SoloInv, ManagerType, AllLocated, Located
<1>4. Current(c)'
  BY <1>1, <1>3 DEF Current
<1>5. InHand(c)' = {j} /\ InHand(c) = {}
  BY <1>1 DEF InHand
<1>6. Sliced(c)'
  BY <1>1, <1>3, <1>5 DEF Sliced, Exists
<1>7. QED
  BY <1>2, <1>4, <1>6

(* What a rollback finds before it patches. *)
LEMMA Patching ==
  ASSUME SoloInv, NEW c \in Caller, PatchJob(c), NEW j \in Job, j = call[c].job
  PROVE  /\ call[c].op = "rollback" /\ jobs[j] \in JobRecord /\ Stamped(j) /\ jobs[j].run = call[c].run
         /\ call[c].run \in Run /\ ListedStatus(c) = jobs[j].status
         /\ \/ jobs[j].status \in InFlight /\ Target(c) = "cancelled"
               /\ Undo(c) = [jobs[j] EXCEPT !.status = "cancelled", !.stamp = "rollback"]
            \/ jobs[j].status \in Finished /\ Target(c) = "rolled_back"
               /\ Undo(c) = [jobs[j] EXCEPT !.status = "rolled_back"]
<1>1. /\ call[c].at = "patch" /\ Current(c) /\ Located(c) /\ jobs[j] \in JobRecord /\ Stamped(j)
  BY DEF PatchJob, SoloInv, ManagerType, TypeOK, AllLocated
<1>2. /\ call[c].op = "rollback" /\ call[c].seen = jobs[j] /\ jobs[j].run = call[c].run
      /\ call[c].run \in Run /\ ListedStatus(c) = jobs[j].status
      /\ ListedStatus(c) \in InFlight \cup Finished
  BY <1>1 DEF Current, Located, ListedStatus
<1>3. CASE jobs[j].status \in InFlight
  <2>1. Target(c) = "cancelled" /\ call[c].seen.stamp = "none"
    BY <1>1, <1>2, <1>3 DEF Target, Stamped
  <2>2. QED
    BY <1>1, <1>2, <1>3, <2>1 DEF Undo
<1>4. CASE jobs[j].status \in Finished
  <2>1. Target(c) = "rolled_back" /\ call[c].seen.stamp # "none"
    BY <1>1, <1>2, <1>4 DEF Target, Stamped, InFlight, Finished
  <2>2. Undo(c) = [jobs[j] EXCEPT !.status = "rolled_back"]
    BY <1>1, <2>1 DEF Undo, JobRecord
  <2>3. QED
    BY <1>1, <1>2, <1>4, <2>1, <2>2
<1>5. QED
  BY <1>2, <1>3, <1>4

LEMMA SoloPatchJob ==
  ASSUME SoloInv, NEW c \in Caller, PatchJob(c)
  PROVE  (\A i \in Job : Stamped(i)') /\ Current(c)' /\ Sliced(c)'
<1>1. PICK j \in Job : j = call[c].job
  BY PatchJobType DEF SoloInv
<1>2. /\ call[c].at = "patch" /\ call'[c].at = "publish" /\ call'[c].job = j
      /\ call'[c].op = call[c].op /\ call'[c].run = call[c].run
      /\ jobs' = [jobs EXCEPT ![j] = Undo(c)] /\ jobs \in [Job -> JobRecord]
      /\ sweep'[c].listed = sweep[c].listed /\ sweep'[c].todo = sweep[c].todo
      /\ sweep'[c].skipped = sweep[c].skipped
      /\ sweep'[c].cancelled = IF Target(c) = "cancelled" THEN sweep[c].cancelled \cup {j}
                               ELSE sweep[c].cancelled
      /\ sweep'[c].rolledBack = IF Target(c) = "cancelled" THEN sweep[c].rolledBack
                                ELSE sweep[c].rolledBack \cup {j}
  BY <1>1, PatchJobType DEF SoloInv, ManagerType, TypeOK
<1>3. /\ call[c].op = "rollback" /\ jobs[j] \in JobRecord /\ Stamped(j) /\ jobs[j].run = call[c].run
      /\ \/ jobs[j].status \in InFlight /\ Target(c) = "cancelled"
            /\ Undo(c) = [jobs[j] EXCEPT !.status = "cancelled", !.stamp = "rollback"]
         \/ jobs[j].status \in Finished /\ Target(c) = "rolled_back"
            /\ Undo(c) = [jobs[j] EXCEPT !.status = "rolled_back"]
  BY <1>1, Patching
<1>4. /\ jobs'[j].status = Target(c) /\ jobs'[j].run = jobs[j].run /\ Target(c) \in Undone
      /\ Stamped(j)'
  <2>1. jobs'[j] = Undo(c)
    BY <1>2
  <2>2. CASE Target(c) = "cancelled"
    <3>1. jobs'[j] = [jobs[j] EXCEPT !.status = "cancelled", !.stamp = "rollback"]
      BY <1>3, <2>1, <2>2
    <3>2. /\ jobs'[j].status = "cancelled" /\ jobs'[j].run = jobs[j].run
      BY ONLY <3>1, <1>3 DEF JobRecord
    <3>3. QED
      BY <2>2, <3>2 DEF Stamped, InFlight, Finished, Undone
  <2>3. CASE Target(c) = "rolled_back"
    <3>1. jobs[j].status \in Finished /\ jobs'[j] = [jobs[j] EXCEPT !.status = "rolled_back"]
      BY <1>3, <2>1, <2>3
    <3>2. /\ jobs'[j].status = "rolled_back" /\ jobs'[j].run = jobs[j].run
          /\ jobs'[j].stamp = jobs[j].stamp
      BY ONLY <3>1, <1>3 DEF JobRecord
    <3>3. QED
      BY <1>3, <2>3, <3>1, <3>2 DEF Stamped, InFlight, Finished, Undone
  <2>4. QED
    BY <1>3, <2>2, <2>3
<1>5. \A i \in Job : i # j => jobs'[i] = jobs[i]
  BY <1>2
<1>6. \A i \in Job : Stamped(i)'
  BY <1>4, <1>5 DEF SoloInv, Stamped
<1>7. Current(c) /\ Sliced(c) /\ sweep[c] \in Sweep
  BY DEF SoloInv, ManagerType, TypeOK
<1>8. InHand(c) = {j} /\ InHand(c)' = {}
  BY <1>1, <1>2 DEF InHand
<1>9. j \notin sweep[c].todo
  BY <1>3, <1>7, <1>8 DEF Sliced
<1>10. Current(c)'
  BY <1>1, <1>2, <1>3, <1>4, <1>5, <1>7, <1>9 DEF Current, Sweep
<1>11. Sliced(c)'
  <2>1. /\ j \notin sweep[c].cancelled /\ j \notin sweep[c].rolledBack /\ j \notin sweep[c].skipped
    BY <1>3, <1>7, <1>8 DEF Sliced
  <2>2. \A i \in Job : (Exists(i) /\ jobs[i].run = call[c].run)' => Exists(i) /\ jobs[i].run = call[c].run
    BY <1>2, <1>3, <1>4, <1>5 DEF Exists, InFlight, Finished
  <2>3. /\ \A i \in sweep[c].cancelled : jobs'[i].status = "cancelled"
        /\ \A i \in sweep[c].rolledBack : jobs'[i].status = "rolled_back"
        /\ \A i \in sweep[c].skipped : jobs'[i].status \in Undone
    BY <1>3, <1>5, <1>7, <2>1 DEF Sliced, Sweep
  <2>4. CASE Target(c) = "cancelled"
    BY <1>2, <1>3, <1>4, <1>7, <1>8, <1>9, <2>1, <2>2, <2>3, <2>4 DEF Sliced
  <2>5. CASE Target(c) = "rolled_back"
    BY <1>2, <1>3, <1>4, <1>7, <1>8, <1>9, <2>1, <2>2, <2>3, <2>5 DEF Sliced
  <2>6. QED
    BY <1>3, <2>4, <2>5
<1>12. QED
  BY <1>6, <1>10, <1>11

LEMMA SoloInit == OneCaller /\ Init => SoloInv
<1> SUFFICES ASSUME OneCaller, Init
             PROVE  SoloInv
  OBVIOUS
<1>1. \A j \in Job : Stamped(j)
  BY DEF Init, Absent, Stamped, Finished
<1>2. ASSUME NEW c \in Caller
      PROVE  Current(c) /\ Sliced(c)
  <2>1. call[c].at = "idle" /\ call[c].op = "none"
    BY DEF Init, Idle
  <2>2. QED
    BY <2>1 DEF Current, Sliced
<1>3. QED
  BY <1>1, <1>2, ManagerTypeInit DEF SoloInv

LEMMA SoloStep == SoloInv /\ [Next]_managerVars => SoloInv'
<1> SUFFICES ASSUME SoloInv, [Next]_managerVars
             PROVE  SoloInv'
  OBVIOUS
<1>1. ManagerType' /\ OneCaller'
  BY ManagerTypeStep DEF SoloInv, OneCaller
<1>2. CASE UNCHANGED managerVars
  <2>1. \A j \in Job : Stamped(j)'
    BY <1>2 DEF managerVars, SoloInv, Stamped
  <2>2. \A c \in Caller : Current(c)' /\ Sliced(c)'
    BY <1>2 DEF managerVars, SoloInv, Current, Sliced, InHand, Exists
  <2>3. QED
    BY <1>1, <2>1, <2>2 DEF SoloInv
<1>3. ASSUME NEW c \in Caller, MakeCall(c) \/ ManagerStep(c)
      PROVE  SoloInv'
  <2>1. (\A j \in Job : Stamped(j)') /\ Current(c)' /\ Sliced(c)'
    BY <1>3, StepCases, SoloMakeCall, SoloWrites, SoloMoves, SoloNews, SoloListRun, SoloSkipJob,
       SoloVisitJob, SoloPatchJob
    DEF Writes, Moves
  <2>2. \A d \in Caller : d = c
    BY DEF SoloInv, OneCaller
  <2>3. QED
    BY <1>1, <2>1, <2>2 DEF SoloInv
<1>4. QED
  BY <1>2, <1>3 DEF Next

LEMMA SoloSlices == SoloInv => SlicesTellTheTruth
<1> SUFFICES ASSUME SoloInv, NEW c \in Caller, call[c].op = "rollback"
             PROVE  /\ sweep[c].cancelled \cap sweep[c].rolledBack = {}
                    /\ sweep[c].skipped \cap (sweep[c].cancelled \cup sweep[c].rolledBack) = {}
                    /\ \A j \in sweep[c].cancelled : jobs[j].status = "cancelled"
                    /\ \A j \in sweep[c].rolledBack :
                          jobs[j].status = "rolled_back" /\ jobs[j].stamp # "rollback"
                    /\ \A j \in sweep[c].skipped : jobs[j].status \in Undone
  BY DEF SlicesTellTheTruth
<1>1. Sliced(c) /\ sweep[c] \in Sweep /\ \A j \in Job : Stamped(j)
  BY DEF SoloInv, ManagerType, TypeOK
<1>2. \A j \in sweep[c].rolledBack : j \in Job /\ jobs[j].status = "rolled_back"
  BY <1>1 DEF Sliced, Sweep
<1>3. QED
  BY <1>1, <1>2 DEF Sliced, Stamped

LEMMA SoloComplete == SoloInv => RollbackIsComplete
<1> SUFFICES ASSUME SoloInv, NEW c \in Caller, call[c].op = "rollback",
                    call[c].at = "returned", call[c].ok,
                    NEW j \in Job, Exists(j), jobs[j].run = call[c].run
             PROVE  /\ j \in sweep[c].cancelled \cup sweep[c].rolledBack \cup sweep[c].skipped
                    /\ jobs[j].status \in Undone
  BY DEF RollbackIsComplete
<1>1. Sliced(c) /\ InHand(c) = {}
  BY DEF SoloInv, InHand
<1>2. QED
  BY <1>1 DEF Sliced, Undone

(***************************************************************************)
(* For a rollback that no other call interferes with, the slices of        *)
(* WorkflowRunRollbackResult (models.go) say what became of the Jobs, also *)
(* when a failing call ends it half way, for any number of Jobs and runs.  *)
(***************************************************************************)
THEOREM SlicesTrue == OneCaller /\ Spec => []SlicesTellTheTruth
  BY SoloInit, SoloStep, SoloSlices, PTL DEF Spec

(***************************************************************************)
(* "Every Job anchored to WorkflowRunID appears in exactly one of the      *)
(* three slices" (models.go), for any number of Jobs and runs, if no other *)
(* call interferes with the rollback.                                      *)
(***************************************************************************)
THEOREM RollbackComplete == OneCaller /\ Spec => []RollbackIsComplete
  BY SoloInit, SoloStep, SoloComplete, PTL DEF Spec

-----------------------------------------------------------------------------
(* The refinement *)

LEMMA NothingOwed ==
  ASSUME OneCaller, NEW c \in Caller
  PROVE  /\ ~Publishing(c) => OwedByCallers = [j \in Job |-> Nothing]
         /\ ~Publishing(c)' => OwedByCallers' = [j \in Job |-> Nothing]
<1>1. \A d \in Caller : d = c
  BY DEF OneCaller
<1>2. QED
  BY <1>1 DEF OwedByCallers

LEMMA NewsOwed ==
  ASSUME OneCaller, NEW c \in Caller
  PROVE  /\ Publishing(c) =>
              OwedByCallers = [j \in Job |-> IF j = call[c].job THEN News(c) ELSE Nothing]
         /\ Publishing(c)' =>
              OwedByCallers' = [j \in Job |-> IF j = call'[c].job THEN News(c)' ELSE Nothing]
<1>1. \A d \in Caller : d = c
  BY DEF OneCaller
<1>2. ASSUME Publishing(c), NEW j \in Job
      PROVE  OwedByCallers[j] = IF j = call[c].job THEN News(c) ELSE Nothing
  <2>1. CASE j = call[c].job
    <3>1. (CHOOSE d \in Caller : Publishing(d) /\ call[d].job = j) = c
      BY <1>1, <1>2, <2>1
    <3>2. QED
      BY <1>2, <2>1, <3>1 DEF OwedByCallers
  <2>2. CASE j # call[c].job
    BY <1>1, <2>2 DEF OwedByCallers
  <2>3. QED
    BY <2>1, <2>2
<1>3. ASSUME Publishing(c)', NEW j \in Job
      PROVE  OwedByCallers'[j] = IF j = call'[c].job THEN News(c)' ELSE Nothing
  <2>1. CASE j = call'[c].job
    <3>1. (CHOOSE d \in Caller : Publishing(d)' /\ call'[d].job = j) = c
      BY <1>1, <1>3, <2>1
    <3>2. QED
      BY <1>3, <2>1, <3>1 DEF OwedByCallers
  <2>2. CASE j # call'[c].job
    BY <1>1, <2>2 DEF OwedByCallers
  <2>3. QED
    BY <2>1, <2>2
<1>4. QED
  BY <1>2, <1>3 DEF OwedByCallers

(* A step with nothing to tell before and after it, and no change, is none. *)
LEMMA QuietStutters ==
  ASSUME OneCaller, NEW c \in Caller, ~Publishing(c), ~Publishing(c)', UNCHANGED <<jobs, log>>
  PROVE  UNCHANGED Lifecycle!lifecycleVars
  BY NothingOwed DEF Lifecycle!lifecycleVars

(* The update of an operation on one Job is the operation. *)
LEMMA WritesImplement ==
  ASSUME SoloInv, NEW c \in Caller, Writes(c)
  PROVE  Lifecycle!Next
<1>1. PICK j \in Job, next \in {"announce", "returned"} :
         /\ Store(c, j, Patched(c, j), next)
         /\ call[c].op = "create" => ~Exists(j)
         /\ call[c].op # "create" => j = call[c].job
         /\ next = "returned" <=> \/ call[c].op \in {"setRun", "cancel"}
                                  \/ call[c].op = "fail" /\ NewCount(c) < MaxRetries
  BY WritesStore DEF SoloInv
<1>2. /\ call[c].at = "write" /\ call[c].op \in OneJob \cup {"create"} /\ next \in At
      /\ Current(c) /\ Located(c) /\ jobs[j] \in JobRecord /\ call[c].run \in Run \cup {NoRun}
  BY WritesStore DEF SoloInv, ManagerType, TypeOK, AllLocated, Located, At, Call
<1>3. Patched(c, j) \in JobRecord
  BY <1>2, PatchedType DEF SoloInv
<1>4. /\ call'[c].at = next /\ call'[c].op = call[c].op /\ call'[c].job = j
      /\ jobs' = [jobs EXCEPT ![j] = Patched(c, j)] /\ log' = log
  BY <1>1, <1>2, <1>3, StoreType DEF SoloInv, ManagerType
<1>5. OwedByCallers = [i \in Job |-> Nothing]
  BY <1>2, NothingOwed DEF SoloInv, Publishing
<1>6. next = "returned" => OwedByCallers' = OwedByCallers
  BY <1>4, <1>5, NothingOwed DEF SoloInv, Publishing
<1>7. next = "announce" => OwedByCallers' = [OwedByCallers EXCEPT ![j] = News(c)']
  <2>1. next = "announce" => OwedByCallers' = [i \in Job |-> IF i = j THEN News(c)' ELSE Nothing]
    BY <1>4, NewsOwed DEF SoloInv, Publishing
  <2>2. QED
    BY <1>5, <2>1
<1>8. ASSUME call[c].op # "create"
      PROVE  /\ jobs[j].status \in From(call[c].op) /\ call[c].seen = jobs[j]
             /\ NewCount(c) = jobs[j].retries + 1
  BY <1>1, <1>2, <1>8 DEF Current, NewCount
<1>9. OwedByCallers[j] = Nothing
  BY <1>5
<1> USE DEF Lifecycle!UpdateEntity, Lifecycle!Quiet, Lifecycle!Owe, Lifecycle!Nothing, Nothing
<1>10. CASE call[c].op = "create"
  <2>1. News(c)' = [topic |-> "created", prev |-> "none"] /\ next = "announce"
    BY <1>1, <1>4, <1>10 DEF News
  <2>2. Lifecycle!CreateJob(j, call[c].run)
    BY <1>1, <1>4, <1>7, <1>10, <2>1
    DEF Lifecycle!CreateJob, Lifecycle!Exists, Exists, Patched, Lifecycle!NewJob, NewJob,
        Lifecycle!Absent, Absent
  <2>3. QED
    BY <1>2, <2>2 DEF Lifecycle!Next, Lifecycle!JobStep
<1>11. CASE call[c].op = "setRun"
  <2>1. Lifecycle!SetJobWorkflowRunID(j, call[c].run) /\ call[c].run \in Run
    BY <1>1, <1>2, <1>4, <1>6, <1>8, <1>9, <1>11
    DEF Lifecycle!SetJobWorkflowRunID, Lifecycle!Exists, Patched, Located, From, Status, InFlight,
        Closed, Finished, Undone
  <2>2. QED
    BY <2>1 DEF Lifecycle!Next, Lifecycle!JobStep
<1>12. CASE call[c].op = "start"
  <2>1. News(c)' = [topic |-> "started", prev |-> "none"] /\ next = "announce"
    BY <1>1, <1>4, <1>12 DEF News
  <2>2. Lifecycle!StartJob(j)
    BY <1>4, <1>7, <1>8, <1>9, <1>12, <2>1 DEF Lifecycle!StartJob, Patched, From
  <2>3. QED
    BY <2>2 DEF Lifecycle!Next, Lifecycle!JobStep
<1>13. CASE call[c].op = "complete"
  <2>1. News(c)' = [topic |-> "completed", prev |-> "none"] /\ next = "announce"
    BY <1>1, <1>4, <1>13 DEF News
  <2>2. Lifecycle!CompleteJob(j)
    BY <1>4, <1>7, <1>8, <1>9, <1>13, <2>1 DEF Lifecycle!CompleteJob, Patched, From
  <2>3. QED
    BY <2>2 DEF Lifecycle!Next, Lifecycle!JobStep
<1>14. CASE call[c].op = "fail" /\ NewCount(c) < MaxRetries
  <2>1. Patched(c, j) = [jobs[j] EXCEPT !.status = "retrying", !.retries = jobs[j].retries + 1]
    BY <1>8, <1>14 DEF Patched
  <2>2. Lifecycle!RetryJob(j)
    BY <1>1, <1>4, <1>6, <1>8, <1>9, <1>14, <2>1 DEF Lifecycle!RetryJob, From
  <2>3. QED
    BY <2>2 DEF Lifecycle!Next, Lifecycle!JobStep, Lifecycle!FailJob
<1>15. CASE call[c].op = "fail" /\ ~(NewCount(c) < MaxRetries)
  <2>1. News(c)' = [topic |-> "failed", prev |-> "none"] /\ next = "announce"
    BY <1>1, <1>4, <1>15 DEF News
  <2>2. Patched(c, j) = [jobs[j] EXCEPT !.status = "failed", !.retries = jobs[j].retries + 1,
                                        !.stamp = "fail"]
    BY <1>8, <1>15 DEF Patched
  <2>3. jobs[j].retries + 1 >= MaxRetries
    BY <1>2, <1>8, <1>15, JobModelAssumption DEF JobRecord
  <2>4. Lifecycle!ExhaustJob(j)
    BY <1>4, <1>7, <1>8, <1>9, <1>15, <2>1, <2>2, <2>3 DEF Lifecycle!ExhaustJob, From
  <2>5. QED
    BY <2>4 DEF Lifecycle!Next, Lifecycle!JobStep, Lifecycle!FailJob
<1>16. CASE call[c].op = "cancel"
  <2>1. Lifecycle!CancelJob(j)
    BY <1>1, <1>4, <1>6, <1>8, <1>9, <1>16 DEF Lifecycle!CancelJob, Patched, From
  <2>2. QED
    BY <2>1 DEF Lifecycle!Next, Lifecycle!JobStep
<1>17. QED
  BY <1>2, <1>10, <1>11, <1>12, <1>13, <1>14, <1>15, <1>16 DEF OneJob

(* The patch of a rollback stops a Job in flight and freezes a finished one. *)
LEMMA PatchImplements ==
  ASSUME SoloInv, NEW c \in Caller, PatchJob(c)
  PROVE  Lifecycle!Next
<1>1. PICK j \in Job : j = call[c].job
  BY PatchJobType DEF SoloInv
<1>2. /\ call[c].at = "patch" /\ call'[c].at = "publish" /\ call'[c].job = j
      /\ call'[c].op = call[c].op /\ jobs' = [jobs EXCEPT ![j] = Undo(c)] /\ log' = log
      /\ sweep'[c].listed = sweep[c].listed
  BY <1>1, PatchJobType DEF SoloInv
<1>3. /\ call[c].op = "rollback" /\ jobs[j].run \in Run /\ ListedStatus(c) = jobs[j].status
      /\ \/ jobs[j].status \in InFlight /\ Target(c) = "cancelled"
            /\ Undo(c) = [jobs[j] EXCEPT !.status = "cancelled", !.stamp = "rollback"]
         \/ jobs[j].status \in Finished /\ Target(c) = "rolled_back"
            /\ Undo(c) = [jobs[j] EXCEPT !.status = "rolled_back"]
  BY <1>1, Patching
<1>4. News(c)' = [topic |-> Target(c), prev |-> jobs[j].status]
  <2>1. ListedStatus(c)' = ListedStatus(c) /\ Target(c)' = Target(c)
    BY <1>1, <1>2 DEF ListedStatus, Target
  <2>2. QED
    BY <1>2, <1>3, <2>1 DEF News
<1>5. OwedByCallers = [i \in Job |-> Nothing]
  BY <1>2, NothingOwed DEF SoloInv, Publishing
<1>6. OwedByCallers' = [OwedByCallers EXCEPT ![j] = [topic |-> Target(c), prev |-> jobs[j].status]]
  <2>1. OwedByCallers' = [i \in Job |-> IF i = j THEN News(c)' ELSE Nothing]
    BY <1>2, NewsOwed DEF SoloInv, Publishing
  <2>2. QED
    BY <1>4, <1>5, <2>1
<1> USE DEF Lifecycle!UpdateEntity, Lifecycle!Quiet, Lifecycle!Owe, Lifecycle!Nothing, Nothing
<1>7. CASE jobs[j].status \in InFlight /\ Target(c) = "cancelled"
  <2>1. Undo(c) = [jobs[j] EXCEPT !.status = "cancelled", !.stamp = "rollback"]
    BY <1>3, <1>7
  <2>2. Lifecycle!StopJob(j)
    BY <1>2, <1>3, <1>5, <1>6, <1>7, <2>1 DEF Lifecycle!StopJob, Lifecycle!InFlight, InFlight
  <2>3. QED
    BY <2>2 DEF Lifecycle!Next, Lifecycle!JobStep, Lifecycle!RollbackJob
<1>8. CASE jobs[j].status \in Finished /\ Target(c) = "rolled_back"
  <2>1. Undo(c) = [jobs[j] EXCEPT !.status = "rolled_back"]
    BY <1>3, <1>8
  <2>2. Lifecycle!FreezeJob(j)
    BY <1>2, <1>3, <1>5, <1>6, <1>8, <2>1 DEF Lifecycle!FreezeJob, Lifecycle!Finished, Finished
  <2>3. QED
    BY <2>2 DEF Lifecycle!Next, Lifecycle!JobStep, Lifecycle!RollbackJob
<1>9. QED
  BY <1>3, <1>7, <1>8

LEMMA NewsIsSomething ==
  ASSUME NEW c \in Caller, call[c].op \in Announced \cup {"rollback"}
  PROVE  News(c) # Nothing
<1>1. Target(c) # "none"
  BY DEF Target
<1>2. News(c).topic # "none"
  BY <1>1 DEF News, Announced
<1>3. QED
  BY <1>2 DEF Nothing

(* The publish of an event announces what is owed, and its failure loses it. *)
LEMMA AnnounceImplements ==
  ASSUME SoloInv, NEW c \in Caller, Announce(c) \/ AnnounceLost(c)
  PROVE  Lifecycle!Next
<1>1. /\ Publishing(c) /\ Located(c) /\ Current(c) /\ call[c] \in Call /\ jobs' = jobs
      /\ call \in [Caller -> Call]
  BY DEF Announce, AnnounceLost, Publishing, SoloInv, ManagerType, TypeOK, AllLocated
<1>2. PICK j \in Job : j = call[c].job
  BY <1>1 DEF Publishing, Located
<1>3. OwedByCallers = [i \in Job |-> IF i = j THEN News(c) ELSE Nothing]
  BY <1>1, <1>2, NewsOwed DEF SoloInv
<1>4. call'[c].at \in {"loop", "returned"}
  <2>1. PICK next \in {"loop", "returned"} : call' = [call EXCEPT ![c].at = next]
    BY DEF Announce, AnnounceLost, AfterNews, Return, Goto
  <2>2. QED
    BY <1>1, <2>1 DEF Call
<1>5. OwedByCallers' = [OwedByCallers EXCEPT ![j] = Nothing]
  <2>1. OwedByCallers' = [i \in Job |-> Nothing]
    BY <1>4, NothingOwed DEF SoloInv, Publishing
  <2>2. QED
    BY <1>3, <2>1
<1>6. OwedByCallers[j] = News(c) /\ News(c) # Nothing
  BY <1>1, <1>3, NewsIsSomething DEF Publishing, Located
<1> USE DEF Lifecycle!Quiet, Lifecycle!Nothing, Nothing
<1>7. CASE Announce(c)
  <2>1. log' = [log EXCEPT ![j] = Append(@, [topic |-> News(c).topic, run |-> jobs[j].run,
                                             prev |-> News(c).prev])]
    BY <1>1, <1>2, <1>7 DEF Announce, Current
  <2>2. Lifecycle!Announce(j)
    BY <1>1, <1>5, <1>6, <2>1 DEF Lifecycle!Announce
  <2>3. QED
    BY <2>2 DEF Lifecycle!Next, Lifecycle!JobStep
<1>8. CASE AnnounceLost(c)
  <2>1. Lifecycle!Lose(j)
    BY <1>1, <1>5, <1>6, <1>8 DEF Lifecycle!Lose, AnnounceLost
  <2>2. QED
    BY <2>1 DEF Lifecycle!Next, Lifecycle!JobStep
<1>9. QED
  BY <1>7, <1>8

(* Between the update and the publish the event stays owed. *)
LEMMA ReadNewsStutters ==
  ASSUME SoloInv, NEW c \in Caller, ReadNews(c)
  PROVE  UNCHANGED Lifecycle!lifecycleVars
<1>1. /\ UNCHANGED <<jobs, log, sweep>> /\ call[c].at = "announce" /\ call'[c].at = "publish"
      /\ call'[c].op = call[c].op /\ call'[c].job = call[c].job
  BY ReadNewsType DEF SoloInv
<1>2. News(c)' = News(c)
  <2>1. Target(c)' = Target(c) /\ ListedStatus(c)' = ListedStatus(c)
    BY <1>1 DEF Target, ListedStatus
  <2>2. QED
    BY <1>1, <2>1 DEF News
<1>3. OwedByCallers' = OwedByCallers
  BY <1>1, <1>2, NewsOwed DEF SoloInv, Publishing
<1>4. QED
  BY <1>1, <1>3 DEF Lifecycle!lifecycleVars

LEMMA RefinementInit == Init => Lifecycle!Init
<1> SUFFICES ASSUME Init
             PROVE  Lifecycle!Init
  OBVIOUS
<1>1. \A c \in Caller : ~Publishing(c)
  BY DEF Init, Idle, Publishing
<1>2. OwedByCallers = [j \in Job |-> Nothing]
  BY <1>1 DEF OwedByCallers
<1>3. QED
  BY <1>2 DEF Init, Lifecycle!Init, Absent, Lifecycle!Absent, Nothing, Lifecycle!Nothing

LEMMA RefinementStep ==
  SoloInv /\ [Next]_managerVars => [Lifecycle!Next]_(Lifecycle!lifecycleVars)
<1> SUFFICES ASSUME SoloInv, [Next]_managerVars
             PROVE  [Lifecycle!Next]_(Lifecycle!lifecycleVars)
  OBVIOUS
<1>1. CASE UNCHANGED managerVars
  <2>1. OwedByCallers' = OwedByCallers
    BY <1>1 DEF managerVars, OwedByCallers, Publishing, News, Target, ListedStatus
  <2>2. QED
    BY <1>1, <2>1 DEF managerVars, Lifecycle!lifecycleVars
<1>2. ASSUME NEW c \in Caller, MakeCall(c)
      PROVE  UNCHANGED Lifecycle!lifecycleVars
  <2>1. /\ ~Publishing(c) /\ ~Publishing(c)' /\ UNCHANGED <<jobs, log>>
    BY <1>2, MakeCallBegins DEF SoloInv, ManagerType, Publishing, Started
  <2>2. QED
    BY <2>1, QuietStutters DEF SoloInv
<1>3. ASSUME NEW c \in Caller, Moves(c), ~AnnounceLost(c)
      PROVE  UNCHANGED Lifecycle!lifecycleVars
  <2>1. UNCHANGED <<jobs, log>> /\ call[c] \in Call /\ call \in [Caller -> Call]
    BY <1>3, MovesType DEF SoloInv, ManagerType, TypeOK
  <2>2. call[c].at \in {"read", "write", "list", "reread", "patch", "loop"}
    BY <1>3 DEF Moves, ReadAccepted, ReadRefused, StorageFails, RollbackRefused, RereadJob, EndRollback
  <2>3. call'[c].at \in {"write", "returned", "patch"}
    BY <1>3, <2>2, MovesType DEF SoloInv, Route
  <2>4. QED
    BY <2>1, <2>2, <2>3, QuietStutters DEF SoloInv, Publishing
<1>4. ASSUME NEW c \in Caller, ListRun(c) \/ \E j \in Job : SkipJob(c, j) \/ VisitJob(c, j)
      PROVE  UNCHANGED Lifecycle!lifecycleVars
  <2>1. /\ UNCHANGED <<jobs, log>> /\ call[c].at \in {"list", "loop"}
        /\ call'[c].at \in {"loop", "reread"}
    BY <1>4, ListRunType, SkipJobType, VisitJobType DEF SoloInv
  <2>2. QED
    BY <2>1, QuietStutters DEF SoloInv, Publishing
<1>5. ASSUME NEW c \in Caller, ManagerStep(c)
      PROVE  [Lifecycle!Next]_(Lifecycle!lifecycleVars)
  BY <1>3, <1>4, <1>5, StepCases, WritesImplement, PatchImplements, AnnounceImplements,
     ReadNewsStutters
  DEF Writes, Moves
<1>6. QED
  BY <1>1, <1>2, <1>5 DEF Next

(***************************************************************************)
(* With one call at a time the manager (manager.go,                        *)
(* workflow_run_rollback.go) implements JobLifecycle call by call, for any *)
(* Jobs, runs and retry limit and whatever calls fail; every theorem of    *)
(* JobLifecycle_proofs then holds of it.                                   *)
(***************************************************************************)
THEOREM ImplementsLifecycle == OneCaller /\ Spec => LifecycleSpec
<1>1. Init => Lifecycle!Init
  BY RefinementInit
<1>2. QED
  BY <1>1, SoloInit, SoloStep, RefinementStep, PTL DEF Spec, LifecycleSpec, Lifecycle!Spec
================================================================================
