# CodeValdFunctions in TLA+

CodeValdFunctions runs function binaries when platform events arrive.  Each
execution is a *Job*, an entity in a store shared through a library that is not
part of this repository.  These modules describe what the service does with Jobs,
events, the directory of functions, its own process and, through the functions it
ships, with runs, tasks and branches.  TLC checks the models on small instances;
TLAPS proves, for every value of the constants, the safety properties of the Job state
machine, of the dispatches and clients that work on one store, of the event receiver, of
the process around it, of the directory of functions and the runs out of it, and of the
start-pipeline, next-task, compile-flutter and merge-flutter-branch functions; and that
the process implements the delivery of events and a manager that serves one call at a
time the Job state machine.

    tlc -config MCJobLifecycle.cfg MCJobLifecycle.tla       one of the runs below
    tlapm JobLifecycle_proofs.tla                           the proofs (also of
                                                            JobManager_proofs,
                                                            FunctionsDispatcher_proofs,
                                                            EventReceiver_proofs,
                                                            Service_proofs,
                                                            FunctionRun_proofs,
                                                            MergeFlutterBranch_proofs,
                                                            NextTask_proofs)

## The system

| part | state it keeps | operations | what makes it correct |
|---|---|---|---|
| `functionsManager` (manager.go) | Job entities in the store | CreateJob, SetJobWorkflowRunID, StartJob, CompleteJob, FailJob, CancelJob, GetJob, ListJobs, publish | status, retry count, result and time of completion fit together; a closed Job stays closed; events tell the truth, in order, at most once |
| rollback (workflow_run_rollback.go) | none of its own; the listed Jobs and three result slices | RollbackByWorkflowRun, applyRollbackStatus, publishJSON | every Job of the run in exactly one slice, and the slice is true; outputs and times survive |
| `EventReceiverServer` (event_receiver.go) | ReceivedEvent records | NotifyEvent | no acknowledged event is unknown; every record is dispatched; duplicates are recognised |
| `FunctionsDispatcher` (event_receiver.go) | goroutines | Dispatch | the Job always says what became of the binary |
| `BinaryRunner` (runner.go) | the functions directory | Lookup, Run, Deploy | the first match is found and is what is run; a deployment takes effect |
| gRPC server (server.go) | none | CancelJob, RollbackByWorkflowRun, DeployFunction, GetJob, ListJobs | passes on to the above; of a Job that a client has seen, its run, its result and that it has ended stay, and no attempt is taken back (the time at which it ended may change) |
| process (app.go, config.go, registrar.go) | registration with Cross, listener | Run, Load, heartbeat, Publish, shutdown | every event raised is served in the end, and only trouble makes the service forget one |
| `start-pipeline` | none; makes a WorkflowRun in CodeValdWork | its `main` | no handover of an unannounced run; no run left behind in silence; a positive pinned budget is kept, and a 0 leaves the budget to Work |
| `next-task` | none; assigns tasks in CodeValdWork | its `main` | the first task of its list that can be worked on, no blocked one, and none that was done with before the run |
| `compile-flutter` | none; a clone | its `main` | no verdict on a tree that lacks files the event log told of |
| `merge-flutter-branch` | none; merges in CodeValdGit | its `main` | only branches that were analysed and found clean, at some commit; a branch merged again only for a known reason |
| `emit-event`, storage client, gen | | | not modelled, see the end |

How they interact: Cross (external) pushes events to `NotifyEvent`, which starts a
goroutine in `Dispatch`; `Dispatch` asks `Lookup` for a function, creates and starts
a Job, runs the binary as a child process and completes or fails the Job.  Beside
it gRPC clients cancel Jobs, roll runs back and deploy functions.  All of them work
on the same entities through the same manager, which holds no lock.  Every change
of a Job but three (a retry, a cancellation, a back-fill) is published to Cross,
and published events come back as triggers: `functions.job.completed` of
`compile-flutter` starts `merge-flutter-branch`.

What is hard: read-check-update without compare-and-swap; a rollback that works
through a list it read once; events published after a second read and lost without
a trace; deduplication by look-up-then-write; a process that dies between any two
storage calls and recovers nothing; files that are read while they are rewritten;
branches that move between analysis and merge.  `PROJECT.json` lists these hazards
at the lines where they bite, with the properties that watch them.

## The modules

`JobModel` has the Job entity and its events: the fields whose values decide what
happens (status, run, whether there is a result, retry count, and of `completed_at`
which operation wrote it).  A result counts as written when the patch has one, also if
what the function gave is the empty string.  `started_at`, names, payloads, error text and
`rollback_reason` are left out: no operation reads them.

`JobLifecycle` is the abstract specification: one step per operation of the manager,
operations on one Job do not overlap, and the event of a change is *owed* until it
is announced or lost.  Actions bear the names of the operations; `FailJob` is
`RetryJob \/ ExhaustJob`, a rollback of one Job is `StopJob \/ FreezeJob`.

`JobManager` is the code: `call[c]` is what goroutine `c` is executing and where,
one step per call of the store or the bus.  `ReadAccepted` and `ReadRefused` are
`GetJob` with the guard of the operation (`From`), then come the updates named after
the operations, then `ReadNews` and `Announce` (`publish`).  `UpdateEntity` is a
patch: it overwrites the fields it names of the entity as it is by then, whatever
was read before.  `RollbackByWorkflowRun` is `ListRun`, then for each Job `SkipJob`,
or `VisitJob`, `RereadJob`, `PatchJob` and `Announce`; `sweep[c]` has its local
variables and result.  `LifecycleSpec` is `JobLifecycle` under the mapping that owes
what a call between its update and its publish has to tell.

`FunctionsDispatcher` EXTENDS `JobManager` with the program counter of `Dispatch` in
each goroutine, the gRPC clients that cancel and roll back, and `Restart`, the death
of the process with everything but the store.  The function binary is external: it
answers with success or failure, and with a run or without.  `GetJob` and
`ListRunJobs` are what a client gets at any moment, and change nothing.  They have
`completed_at` as the operation whose clock it shows, so that a model says when it
changes; `ViewOnlyGrows` claims only that it stays set.

`EventReceiver` is `NotifyEvent`, call by call, in several handlers, with Cross as
the one who pushes until it is acknowledged.  An event without an ID skips the
search.  `faults` counts, by kind, the calls that failed.

`Service` EXTENDS `EventReceiver` with the process around it.  `phase` is how far
`app.Run` is: `StartUp` (the registrar, if CROSS_GRPC_ADDR is set and it can be made),
`Listen` (store, listener and servers), `Signal` and `Exit` (the graceful shutdown, which
waits for handlers and not for dispatches), `Kill` (which is `EventReceiver`'s
`Restart`).  `Heartbeat` keeps `routes` to the service alive in Cross, and `Lapse` is
Cross forgetting them.  A handler starts a dispatch (`GoDispatch`), which looks for a
function, makes a Job and completes it or not; `Complete` raises
functions.job.completed with Cross, which pushes it like any other event.  So the
chain from a completed task through compile-flutter to merge-flutter-branch is one
behaviour.  A push needs a route, a process that serves, and AGENCY_ID.

`EventDelivery` is what `Service` promises about one event: unheard, owed, dealt with,
or forgotten.  `DeliverySpec` is that specification under the mapping `Fates`.

The proofs of a module are in the module named after it with `_proofs`, or in that of the
module that extends it (`BinaryRunner` in `FunctionRun_proofs`, `StartPipeline` in
`NextTask_proofs`, `CompileFlutter` in `MergeFlutterBranch_proofs`).

`BinaryRunner` has the directory as a binary and a manifest per name, either of them
absent, torn or whole; a lookup that reads one manifest at a time in the order of
`ReadDir`, and deployments that truncate and write the binary, then the manifest.
The ghosts `steady` and `history` look back: which functions matched all through a
lookup, which deployments returned without error, overlapped or failed.

`FunctionRun` EXTENDS `BinaryRunner` with `Run`: the function found is executed some
time after the lookup, as the file then is, unless it is open for writing.  A compiled
binary cannot be opened for writing while it runs, and a deployment of it fails.  The
functions in `Script` (all those shipped) are not protected like that: `Start` starts
the interpreter, `ReadScript` is the interpreter reading the file, and a deployment can
truncate or replace the script in between, and afterwards.  `Exit` is what
`Run` and `Dispatch` make of the output: no JSON or the status "error" fails the Job,
anything else completes it, whatever the exit code (runner.go:110 says so,
runner.go:11 says otherwise).  The ghost `version` is the trigger a binary was written
for, `overtaken` the dispatches that a deployment for another event came in between of,
or whose script was opened for writing between its start and its reading.

`CompileFlutter` and `MergeFlutterBranch` (which EXTENDS it) are the two functions on
one git repository.  A branch is the number of its commits, each with one new file;
`written` are the commits there are, `served` what a clone gets.  What the event log
tells of the files is any subset of them (`pubsub_expected_paths`): it is asked for a
time window and for 500 events of all branches, skips what it cannot parse, and is empty
if the query fails.  `find_branch` takes a branch that exists among those whose first
mention in the listing decides for them (`Listed`).  Several merge-flutter-branch
processes run at once, as `Dispatch` starts one per event.  `posts` records of each merge
that git is asked for whether main had the commit already, whether the heads had been
compared, whether another merge came in between and whether main had commits of another
branch.

`StartPipeline` and `NextTask` (which EXTENDS it) are the two functions on
CodeValdWork.  A call that fails may have had its effect (`create_workflow_run`,
`publish_started`, `publish_next` with a fault: the answer was lost) or not
(`CallFails`).  A next-task is started for a run that was handed over or without a run,
and `assigned` are the runs a task was given to, since a task is assigned again if it is
picked again.  The ghost `finished` is which tasks were done with when a run was made.

Operators called after a definition with a suffix (`CancelJobMisspelt`,
`SkipJobSilently`, ...) are plausible mistakes in that definition; no specification
uses them.  `PROJECT.json` names for each property one of them that breaks it.

## Assumptions

Each call of the store is atomic, a filtered `ListEntities` included, and one that fails has
changed nothing.  This is an assumption on the store's client and not a fact: `NotifyEvent`
passes the context of the RPC on to `CreateEntity` (event_receiver.go:52), and if a call
cancelled with it had written after all, the next push would pass for a duplicate of a
record that was never dispatched.  `AckedIsRecorded` does not need the assumption,
`RecordsAreDispatched` and `EventuallyDispatched` do.  A publish is delivered or lost (`nil`
publishers lose everything).  `UpdateEntity` merges the given properties.  Reading the
functions directory does not fail except through absent or half-written files.  In
CodeValdWork a completed or cancelled task stays so.  CodeValdGit merges the branch as it is
at that moment, by fast-forward if main has nothing else.

A file is not executed while it is open for writing, and a compiled binary is not opened
for writing while it is executed (ETXTBSY on Linux).  Nothing is assumed of a script after
its start: what its interpreter finds if a deployment opens the file before it has been
read is an exception `RunsWhatItMatched` names, and what it reads later than at once is
not modelled.  Cross routes to
the service the events its manifests ask for, as long as it is registered (registrar.go
registers `todo.completed` where the manifest has `work.todo.completed`; how Cross
matches them is not in this repository), and keeps pushing what is not acknowledged.

Fairness is assumed in four runs.  `dispatch_races` and `dispatch_retries`: every goroutine
that can take a step takes one (the Go scheduler is fair to runnable goroutines, storage and
bus calls return, with an error or without) and the binary ends; the runner sets no limit to
it, so this is a premise about functions, not a fact about the service.  `event_receiver`:
handlers run, and Cross goes on pushing what is not acknowledged.  `service`: besides, a
process that has ended is started again and comes up, a heartbeat comes through now and then
(CROSS_PING_INTERVAL is positive), a dispatch and its binary end, and a push that is
possible again and again is made (strong fairness: routes lapse, processes stop).  That the
process is restarted is a premise about its supervisor.  No client has to call.

## The runs

| run | instance | shows |
|---|---|---|
| `lifecycle` | 1 Job, 2 runs, the code's limit of 3 retries | the state machine keeps retry budget, closing record and truthful news, and a closed Job is final |
| `manager` | 1 caller, 2 Jobs of which one is failed, 1 run, failing calls | the manager implements `JobLifecycle`; the slices of a rollback tell the truth at every moment, and a rollback that succeeds is complete |
| `dispatch_races` | 1 dispatch, 1 canceller, 1 roller, 1 run, failing calls, 1 restart, fair | what races cannot break: order and uniqueness of created, started, completed; a completed event has its result; a closed Job has a time; nothing a client has seen of a Job is erased; a rollback accounts for what it listed; and a dispatch ends, if its binary does, also when calls fail |
| `dispatch_cancel_news` | 1 dispatch, 1 roller | *violated*: a Job announced cancelled can be started or completed afterwards |
| `dispatch_retries` | 1 dispatch, nothing fails but the binary, fair | *violated*: a Job whose attempt failed stays retrying |
| `event_receiver` | 2 handlers, 1 event with an ID and 1 without, 3 faults, fair | acknowledged is recorded; each record dispatched but for what a restart loses; how many duplicates there can be; without a restart every event is dispatched |
| `service` | 1 handler, the chain of 3 events, with and without AGENCY_ID and Cross, 2 faults, 2 shutdowns, 2 mishaps, fair | the service implements `EventDelivery`; every event raised is served in the end, unless the service is left without registration or agency |
| `function_run` | 3 names, of which 2 are scripts, 1 dispatch, 2 deployments at once | the first steady match is found; a deployment takes effect; what runs is what was found, but for deployments in between |
| `deploy_qualifier` | as shipped, 1 lookup, 1 deployment | *violated*: deploying `emit-event` anew lets it take plain events |
| `merge` | 2 branches, 2 compilations, 3 merges by 2 processes at once, 1 fault | verdicts on trees with all files told of, merges of clean branches, three reasons for a repeated merge and no fourth |
| `merge_unanalysed` | 1 branch, 1 compilation, 1 merge | *violated*: main gets a commit nobody analysed |
| `next_task` | 1 start, 3 tasks in 2 plans, 2 selections at once, with the run or without, 1 fault; no pinned budget or 0 or more, an agency with and without one, an environment without one or with 0 | handover, orphans, what becomes of a 0, the right and unblocked choice of an open task |

Why the bounds are enough.  No action of the Job models relates two Jobs except the
loop of a rollback, so one Job shows every race and two every way a loop can end
half way; the store's one Job can be reached by at most one dispatch, since
`Dispatch` creates its own, so one goroutine, one canceller and one roller are all
the kinds of actors that can meet on it.  A back-fill that replaces one run by another
takes two runs, which that instance has not; that none does is `ViewsGrow`, proved for
any number of them.  Three retries are the code's own limit.  Two handlers make the
look-up-then-write race; the bound on duplicates is stated in the number of
handlers.  Two deployments can overlap on one name or run on two names while the
lookup is anywhere; three names put one before, one at and one after the match.
Two commits per branch suffice for a stale clone, a retry and a late push.
Two processes and a third merge give each of the three reasons for a repeated merge: both
compare before either merges, a branch is merged a second time after main has taken
another, and a comparison fails.  Both next-task processes can work on the one run, on
one request delivered twice, or without a run.
In `manager` the second failure is the last (`MaxRetries = 2`), so that both ways of
FailJob happen, and by the constraint `OneFails` only one of the two Jobs fails at all;
the limit of three is `lifecycle`'s.  `service` has one handler, since the races between
handlers are `event_receiver`'s and the proof is for any number; its three events are
what a completed task sets off with the functions as shipped, and two faults, two
shutdowns and two mishaps let trouble strike twice at one event or at two of them.

Deadlock is not checked where the system may rightly stop: a service with no event
left, or a bound used up.

### What the violated properties show

* `CancelledNewsIsTerminal` (events.go:12-14: "Recipients should treat the Job as
  terminal").  StartJob has read the Job as pending, the rollback patches it to
  cancelled and announces that, StartJob sets it to running.
* `QualifierHolds` (functions/emit-event.json:7: the guard "ensures this helper only
  activates when explicitly invoked").  `Deploy` writes a manifest without
  payload_match.
* `FailedAttemptIsRetried` (function-job-failure-modes.md:37-38 and 125: "after 3 retries
  `functions.job.failed` fires"; manager.go:14-15 has the number of times a Job may be
  retried).  FailJob moves the Job to retrying, `Dispatch` returns, and nothing in the
  service starts a retrying Job: there is no second attempt, and `functions.job.failed` is
  never published.  (If something did, `RetryBudget` says that the third failure would
  be the last, as manager_test.go:152-164 has it; read literally, the comment allows one
  attempt more.)
* `MainIsAnalysed` (functions/merge-flutter-branch:5-6: "Merges the feature branch
  analysed by compile-flutter").  The result names the branch, not the commit.

### What the documents say and no property here claims

For these the properties say how much of the claim the code keeps.

* A terminal Job keeps its `completed_at` (workflow_run_rollback.go:86-88).  Not under
  races: CompleteJob and CancelJob that have both read the Job as running both write their
  own time, the second over the first's; and `applyRollbackStatus` that read a running Job
  patches `now` over the time at which it completed since.  A client sees the time change.
  `ClosedHasTimestamp` and `ViewOnlyGrows` say that there always is one, once there was.
  (With one caller it is kept: `ClosingRecord`.)
* Every Job anchored to the run is in a slice of the rollback's result (models.go:86-88),
  and the slices are true.  Not under races: a Job created or back-filled after the list was
  read is missed, a Job that moved since is in the wrong slice, and two rollbacks of one run
  both announce a Job as cancelled.  `RollbackIsComplete` and `SlicesTellTheTruth` are
  checked and proved for one caller; `ListIsAccountedFor` is what remains for many.
* After a merge "any subsequent merge job for the same branch can exit early"
  (merge-flutter-branch:136-142), exactly one job merges, and that "regardless of how many
  merge jobs run concurrently" (BUG-20260603-001, lines 101 and 119-121).  Two jobs that
  compare the heads before either merges both merge; a job that comes after main has taken
  another branch, before or since, finds two different heads and merges again; and so does
  one that cannot compare them, by intent (line 165) or because a headCommitId is empty
  (line 150).  `RepeatedMergeHasReason` says that there is no further case.
* A pinned budget of 0 disables the gate, and a 0 of the environment falls through
  (start-pipeline:167-169).  Line 131 sends no 0, so that Work chooses the budget of the
  run, and lines 180-181 take the 0 of the environment, of which the same becomes.
  `ZeroLeavesBudgetToWork` states that.
* A clone that disagrees with the event log is an infrastructure error
  (compile-flutter:132-135).  It is one against the files the query returned
  (`VerdictOnDeclaredTree`): a stale tree passes if the log leaves out what it lacks (an
  event before the task was created, or older than an hour if the task could not be looked
  up; the 501st event of all branches; a payload that does not parse; a query that fails) or
  if it lacks a commit to a path it has.
* next-task assigns the picked task "if it has no assignee" (next-task:12).  It never looks,
  so two processes at once, or one after the other, assign one task twice.
  `AssignedIsUnblocked` and `RunTakesOpenTasks` say what that cannot lead to: a blocked task
  being assigned, or a run being given a task that was done with before it.

## What is proved

`JobLifecycle_proofs` proves, from `JobModelAssumption` alone (a positive retry limit,
`NoRun` not a run), for every `Job`, `Run` and `MaxRetries`:

* `TypeCorrect`: `Spec => []TypeOK`;
* `RetryBudgetKept`, `ClosingRecordKept`: the two invariants on Job records;
* `ClosedStaysClosed`: the action property `ClosedIsFinal`;
* `NewsStaysTrue`: `NewsIsTrue`.

The argument.  Most steps patch one Job and leave the others, so the lemmas work on
one record: `StepCases` says which of the operations a step of Job j was, and
`PatchedRecord`, `UpdateType` and `OweType` what its patch is like.  `RetryBudget` and
`ClosingRecord` are not inductive separately: that a cancelled Job's retries
are below the limit needs the stamp, and that a rolled-back Job's stamp is the
old one needs the status it had.  The inductive invariant is their conjunction with
`TypeOK`, made precise per record (`Sound`), and `SoundStep` preserves it;
`ClosedIsFinal` follows from it step by step.  `NewsIsTrue` also depends on `owed`: an
owed event must already be true of the Job when it is announced, which is why its
statement speaks of what is announced *or* owed (`Told`).

`JobManager_proofs` proves, from `JobModelAssumption` and `JobManagerAssumption`, for any
Jobs, runs and retry limit and whatever calls fail:

* `TypeCorrect`: `Spec => []TypeOK`, for any number of callers;
* `ImplementsLifecycle`: `OneCaller /\ Spec => LifecycleSpec`, so that with at most one
  caller every theorem of `JobLifecycle_proofs` holds of the code;
* `SlicesTrue`, `RollbackComplete`: with at most one caller a rollback's result is true at
  every moment, and complete when it returns without an error.

The argument.  `Located` says what a call has at hand, by where it is; that types every
step, for any number of callers (`ManagerType`).  One caller (`OneCaller`) finds the store
as it read it: `Current` says that the Job read, or listed and not yet visited, is still
what the store has, `Stamped` that `completed_at` fits the status, and `Sliced` that
the slices, the Job in hand and the Jobs still to do are apart and cover the run;
`SoloInv`, their conjunction, is inductive.  All updates of one Job are one patch
(`WritesStore`, `Patched`).  For the refinement at most one Job is owed news
(`NothingOwed`, `NewsOwed`), an update is a step of the abstract Job (`WritesImplement`,
`PatchImplements`), a publish announces or loses what is owed (`AnnounceImplements`), and
everything else stutters (`ReadNewsStutters`, `QuietStutters`).  With a second caller
`Current` fails: what was read is stale when it is used, which is what the runs of the
dispatcher are about.

`FunctionsDispatcher_proofs`, on `JobManager_proofs`, proves from `DispatcherAssumption`
(goroutines, cancelling and rolling-back clients are apart and all the callers there are)
and the two assumptions above, for any number of each, whatever calls fail and however
often the process dies:

* `DispatcherTypeCorrect`: `DispatcherTypeOK`;
* `CompletionHasItsResult`: `CompletionHasResult`;
* `NewsOrdered`: `NewsInOrder`;
* `ClosedStamped`: `ClosedHasTimestamp`;
* `ListAccounted`: `ListIsAccountedFor`;
* `ViewsGrow`: the action property `ViewOnlyGrows`.

The argument.  With many callers what was read may be stale, so the inductive invariant
`DispatcherInv` says which of it can be relied on and why.  `Roles`: who makes which call,
and that `Dispatch` makes its calls one after the other; only goroutines create, start,
complete, fail and back-fill.  `Known`: facts nobody takes back, so that they outlive the
read: a Job exists, has its time, has its result.  This is why `applyRollbackStatus` may
leave `completed_at` out, and why a completion announced after two reads is true.  `Owned`:
two goroutines never have one Job, each creating its own.  `Fresh`: what cancellations and
rollbacks never write (the run, the retries, the news still to come) is for the one
goroutine as it read it, which is why a back-fill replaces no run and a retry does not lower
the count.  `Consistent` is what the properties say of one Job and its log; a Job that does
not exist has no log.  `Accounted` is the loop of a rollback: the slices, the Job in hand
and those to do are apart and are the list.  A step is one of `Dispatch` between two calls,
a request, a step of the manager, or `Restart` (`DispatcherCases`), and for every part of
the invariant there is a lemma for each of the four.  That an update only lets a Job grow
(`WriteAges`, `PatchAges`) is used for `Known` and is what `ViewsGrow` follows from.  Unlike
`ImplementsLifecycle` this needs no bound on the number of callers; what it cannot have is
`JobLifecycle`'s closed Jobs being final, which races break.

`EventReceiver_proofs` proves, from `ReceiverAssumption` (events with and without an ID
are told apart, there are finitely many handlers), for any events, handlers and faults:

* `TypeCorrect`; `AckedRecorded`: what Cross has an acknowledgement for has a record;
* `RecordsDispatched`: each record is dispatched once, but for what restarts cut off;
* `DuplicatesBounded`: at most one record per push that can be under way and one per
  search that failed.

The argument.  `GotoType` and `DoneType` say what a step of one handler does to its
local state.  `AckedIsRecorded` is inductive together with `Served` (a handler past
the write has a record).  `RecordsAreDispatched` is inductive as it stands; its proof
counts the handlers about to dispatch, one joining per write and one leaving per
dispatch, by the cardinality theorems.  `DuplicatesAreBounded` is not: what bounds the
records is that, once there is one, no handler comes to write another but by a failed
search, so `Bounded` adds the handlers about to write to the records.

`Service_proofs`, on `EventReceiver_proofs`, proves from `ReceiverAssumption` and
`ServiceAssumption`, for any events, functions, handlers and environments:

* `ImplementsReceiver`: `ServiceSpec => Spec`, so every theorem on the receiver holds of
  the service, `ServiceRecordsDispatched` for one;
* `ServiceTypeCorrect`: `ServiceTypeOK`, with no handler and no dispatch in a process that
  does not serve;
* `Delivers`: the refinement `ServiceSpec => DeliverySpec`;
* `NoEventLost`: without trouble nothing is forgotten and nothing acknowledged unheard.

The argument.  A step of the service is a step of the receiver or leaves its variables
alone (`ReceiverStep`).  For the refinement each kind of step is mapped by a lemma of its
own: a record makes an event heard (`RecordHears`), the handover to the goroutine changes
no fate (`GoDispatchHandsOver`), the end of a dispatch deals with the event (`DealtWith`)
or gives it up (`GiveUpForgets`), the end of the process forgets what was owed
(`GoneForgets`, where the owed events are the ones in the hands of a handler or a
dispatch), an answer acknowledges what was heard of (`AnswerAcknowledges`), and the other
steps leave the fates as they are (`AsideKeeps`); `DeliveryStep` puts them together.
It takes `TypeOK`, `Served` and `AckedIsRecorded` of the receiver besides `ServiceTypeOK`
and `OwedIsRecorded`: that an acknowledged event has a record is what makes its fate other
than unheard.

`NextTask_proofs` proves from `StartAssumption` and
`SelectAssumption` all invariants of the run `next_task`, for any processes, runs,
tasks and dependencies: `TypeCorrect`, `HandoverAnnounced`, `NoOrphan`,
`ZeroBudget`, `AssignedUnblocked`, `TakesOpenTasks`, `FirstRunnable`.

The argument.  `StartInv` adds to the three properties of `start-pipeline` what each
process has behind it, by where it is (`Progress`): which runs are its own, where its
budget can come from (`Resolved`: the pinned one, and a 0 only if it is pinned or the
environment's), that a run it hands over was announced.
`StartPipelineKeeps` is its preservation, call by call.  `SelectInv` adds to that what
a selection may rely on (`Sound`): a task its list calls done with is still done with
(a terminal status is final, an assumption on CodeValdWork), so that dependencies
checked on the list hold when the assignment is made; what it has not tried yet
contains every task it might pick, so that the least of them is the first runnable one;
and its run, if it has one, was made before its list was read, so that what was done with
when the run was made (`finished`) is not among what it has not tried.  `Past` is what
makes the last step work: the tasks in `finished` are still done with, and only runs that
were handed over are assigned tasks.
That a set of tasks has a least member is `LeastTask`, from the well-foundedness of <
on Nat.

`FunctionRun_proofs` proves from `RunnerAssumption` (there are functions and triggers,
the directory comes with functions), for any functions, lookups and deployments:

* `TypeCorrect`: `Spec => []TypeOK`;
* `SteadyFound`: a function that matches all through a lookup is found, unless an
  earlier one is;
* `DeploymentEffective`: a deployment that returned without an error has taken effect;

and, adding `RunAssumption` (no binary the directory comes with is torn), of the
dispatches that run what they have found:

* `RunImplementsDirectory`: `RunSpec => Spec`, and with it `RunSteadyFound` and
  `RunDeploymentEffective`;
* `RunTypeCorrect`: `RunTypeOK`;
* `MatchedIsRun`: `RunsWhatItMatched`.

The argument.  For a lookup, `Sighted` says where the functions are that have matched
all along, by where the lookup is: not yet read, or the one accepted, or behind it.
The steps of deployments can only shrink that set (`OverwriteSighted`); that a set of
names has a first member is `LeastName`.  For a deployment, `Orderly` says how far the
files are, by how far it is, as long as it is the only one of its name.

For the run, `Kept` relates binary and manifest of a name: the manifest asks for what the
binary was written for, but while a deployment is between its two writes.  `Aimed` carries
that from the moment a dispatch accepts a manifest to the run: what it has found is written
for its event and so is whatever is being written (`Meant`), which only a deployment for
other events changes (`MeantStays`), and that one is an exception.  It also carries it from
the start of a script to the moment it is read: nobody was writing the script when it was
started, and whoever opens it since makes the dispatch an exception, so the script is whole
and of the right version (`WholeStays`). `Recorded` is the property, made inductive by where
the run is.

`MergeFlutterBranch_proofs` proves from `CompileAssumption` and `MergeAssumption` (main,
the feature branches and "none" are apart, listings and tasks are of branches, the bounds
are numbers), for any branches, listings, compilations, mergers and faults:

* `TypeCorrect`: `TypeOK` of both functions and of git;
* `VerdictDeclared`: `VerdictOnDeclaredTree`;
* `MergedWasClean`: `MergedBranchWasClean`;
* `RepeatHasReason`: `RepeatedMergeHasReason`, for any number of processes at once.

The argument.  `MergeInv` adds to the properties what a compilation has behind it, by where
it is (`Progress`): once it has been checked, the clone has the files declared.  A result is
therefore on a tree with those files (`Complete`) and, if it says "ok", on a clean one
(`FreeOfErrors`), and stays so, for results and verdicts are kept.  A merge has such a
result in its hands and has looked at it (`Entitled`), so what it brings to main is of a
branch some tree of which was clean; `PostMergeEffect` and `PostKeepsInv` are that step.
`RepeatedMergeHasReason` is not inductive: `HeadsInv` adds that main's head is never ahead
of its branch (`HeadKnown`) and what a process knows of the two heads (`Compared`): if the
heads were compared, nobody has merged since (`Alone`) and main's head is a commit of the
branch, then it is an older one than the branch's, also if the branch moves on before the
merge.  And as long as main has commits of one branch only, its head is the last of them
(`Ancestry`, which `PostKeepsAncestry` preserves: git fast-forwards then).  So a merge for
which none of the three reasons holds finds that main has no commit as young as the branch's
last one.

Model-checked only: all liveness (`DispatchEnds`, `EventuallyDispatched`,
`EventuallyServed`; out of the prover's reach, as is `ENABLED`), and the four disagreements
under "What the violated properties show", which are counterexamples.  Every invariant and
every action property of a passing run has a theorem.

## Not modelled

`emit-event` (one publish of its parameters, which the dispatcher does not supply), the
construction of the store's client and the seed of its schema, the shared library behind
the registrar, the HTTP routes it registers, generated code, the codes and texts of
errors, names, payloads and clocks.  That the exit code of a binary does not count if
stdout parses is a hazard without a property: one about it would restate the condition.

## Plan

Order of work, the core first; all are done.

1. Job state machine, manager, dispatcher; refinement; first theorems.
2. `EventReceiver`.
3. `BinaryRunner`.
4. `CompileFlutter`, `MergeFlutterBranch`.
5. `StartPipeline`, `NextTask`.
6. Theorems on the Job state machine, `EventReceiver`, `StartPipeline` and `NextTask`.
7. `Service`, the process and the chain of events, `EventDelivery` and the proof that the
   one implements the other.
8. `FunctionRun`, the run of a binary amid deployments, and the views of clients.
9. Theorems on `BinaryRunner` and `FunctionRun` (a steady function is found, and what is
   found is run).
10. Theorems on `JobManager`: its type for any callers; for one caller the refinement of
   `JobLifecycle` and what a rollback returns.
11. Theorems on `FunctionsDispatcher` (a closed Job has its time, a completed event its
   result) and on `MergeFlutterBranch` (verdicts against the event log; the reasons for
   which a branch is merged again).
