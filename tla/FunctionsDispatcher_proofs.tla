----------------------- MODULE FunctionsDispatcher_proofs ----------------------
(***************************************************************************)
(* The running service for any Jobs and runs, any number of dispatches,    *)
(* cancelling and rolling-back clients at once, whatever calls fail and    *)
(* however often the process dies.                                         *)
(***************************************************************************)
EXTENDS FunctionsDispatcher, JobManager_proofs

-----------------------------------------------------------------------------
(* The inductive invariant *)

AtRest == {"waiting", "done", "lost"}

(* The operation Dispatch has called last, by where it is. *)
OpAt(p) ==
    CASE p = "creating" -> "create"
      [] p \in {"starting", "running"} -> "start"
      [] p = "failing" -> "fail"
      [] p = "backfilling" -> "setRun"
      [] p = "completing" -> "complete"
      [] OTHER -> "none"

(* What every goroutine and client is doing in the manager. *)
Doing(g) ==
    /\ pc[g] \in AtRest => call[g] = Idle
    /\ pc[g] \notin AtRest => call[g].op = OpAt(pc[g]) /\ call[g].at # "idle"
    /\ pc[g] = "running" => call[g].at = "returned" /\ call[g].ok
    /\ pc[g] = "creating" /\ call[g].at = "returned" /\ call[g].ok => call[g].job \in Job
    /\ pc[g] \notin AtRest \cup {"creating"} => call[g].job \in Job

Roles ==
    /\ \A g \in Goroutine : Doing(g)
    /\ \A c \in Canceller : call[c].op \in {"none", "cancel"}
    /\ \A c \in Roller : call[c].op \in {"none", "rollback"}

(* What a call holds of the store that no other call can take back. *)
Known(c) ==
    /\ call[c].job \in Job => Exists(call[c].job)
    /\ \A j \in Job : sweep[c].listed[j].status # "absent" => Exists(j)
    /\ call[c].at = "patch" /\ call[c].seen.stamp # "none" =>
          jobs[call[c].job].stamp # "none"
    /\ Publishing(c) /\ call[c].op = "complete" => jobs[call[c].job].result

(* No two goroutines work on one Job. *)
Owned ==
    \A g, h \in Goroutine : g # h /\ call[g].job \in Job => call[h].job # call[g].job

(* The news of its Job that g may still publish. *)
Ahead(g) ==
    CASE pc[g] = "creating" /\ call[g].at # "returned" -> {"created", "started", "completed"}
      [] pc[g] = "creating" /\ call[g].at = "returned" -> {"started", "completed"}
      [] pc[g] = "starting" /\ call[g].at # "returned" -> {"started", "completed"}
      [] pc[g] = "starting" /\ call[g].at = "returned" -> {"completed"}
      [] pc[g] \in {"running", "failing", "backfilling"} -> {"completed"}
      [] pc[g] = "completing" /\ call[g].at # "returned" -> {"completed"}
      [] OTHER -> {}

(* The Job of g has been started. *)
HasStarted(g) ==
    \/ pc[g] = "starting" /\ call[g].at \in {"announce", "publish"}
    \/ pc[g] \in {"starting", "running"} /\ call[g].at = "returned" /\ call[g].ok

(* What g can rely on in its Job, because no one else writes that. *)
Fresh(g) ==
    call[g].job \in Job =>
        /\ HasStarted(g) => call[g].seen.run = jobs[call[g].job].run
        /\ pc[g] = "backfilling" /\ call[g].at \in {"read", "write"} =>
              jobs[call[g].job].run = NoRun
        /\ pc[g] = "failing" /\ call[g].at = "write" =>
              call[g].seen.retries = jobs[call[g].job].retries
        /\ \A i \in DOMAIN log[call[g].job] : log[call[g].job][i].topic \notin Ahead(g)

(* A sequence of events as NewsInOrder wants it. *)
Precedes(s, t, u) ==
    \A i, k \in DOMAIN s : s[i].topic = t /\ s[k].topic = u => i < k
InOrder(s) ==
    /\ Precedes(s, "created", "started")
    /\ Precedes(s, "created", "completed")
    /\ Precedes(s, "started", "completed")
    /\ \A t \in {"created", "started", "completed"}, i, k \in DOMAIN s :
          s[i].topic = t /\ s[k].topic = t => i = k

Consistent(j) ==
    /\ jobs[j].status \in Closed => jobs[j].stamp # "none"
    /\ ~Exists(j) => log[j] = <<>>
    /\ \A i \in DOMAIN log[j] : log[j][i].topic = "completed" => jobs[j].result
    /\ InOrder(log[j])

(* What a rollback has listed is in one slice, in hand or still to do. *)
Listing(c) == {j \in Job : /\ sweep[c].listed[j].status # "absent"
                           /\ sweep[c].listed[j].run = call[c].run}
Sorted(c) == sweep[c].cancelled \cup sweep[c].rolledBack \cup sweep[c].skipped
Sweeping(c) == \/ call[c].at \in {"loop", "reread", "patch", "publish"}
               \/ call[c].at = "returned" /\ call[c].ok
Accounted(c) ==
    call[c].op = "rollback" =>
        /\ Sweeping(c) =>
              /\ Sorted(c) \cup sweep[c].todo \cup InHand(c) = Listing(c)
              /\ sweep[c].cancelled \cap sweep[c].rolledBack = {}
              /\ sweep[c].skipped \cap (sweep[c].cancelled \cup sweep[c].rolledBack) = {}
              /\ (sweep[c].todo \cup InHand(c)) \cap Sorted(c) = {}
              /\ sweep[c].todo \cap InHand(c) = {}
        /\ call[c].at = "returned" /\ call[c].ok => sweep[c].todo = {}

DispatcherType ==
    /\ ManagerType
    /\ pc \in [Goroutine -> PC]
    /\ restarts \in 0..MaxRestarts

DispatcherInv ==
    /\ DispatcherType
    /\ Roles
    /\ \A c \in Caller : Known(c)
    /\ Owned
    /\ \A g \in Goroutine : Fresh(g)
    /\ \A j \in Job : Consistent(j)
    /\ \A c \in Roller : Accounted(c)

-----------------------------------------------------------------------------
(* Dispatch and the clients *)

LEMMA Callers ==
  /\ Goroutine \subseteq Caller /\ Canceller \subseteq Caller /\ Roller \subseteq Caller
  /\ \A c \in Caller : c \in Goroutine \/ c \in Canceller \/ c \in Roller
  /\ \A g \in Goroutine : g \notin Canceller /\ g \notin Roller
  /\ \A c \in Canceller : c \notin Roller
  BY DispatcherAssumption

(* The step of Dispatch between two calls of the manager. *)
Turns(g, next) ==
    /\ pc' = [pc EXCEPT ![g] = next] /\ UNCHANGED <<jobs, log, sweep, restarts>>
    /\ call' \in [Caller -> Call] /\ \A d \in Caller : d # g => call'[d] = call[d]
    /\ \/ next = "done" /\ call'[g] = Idle
       \/ /\ next = "running" /\ pc[g] = "starting"
          /\ call' = call /\ call[g].at = "returned" /\ call[g].ok
       \/ /\ next = "creating" /\ pc[g] = "waiting"
          /\ call'[g].op = "create" /\ call'[g].at = "write" /\ call'[g].job = NoJob
       \/ /\ next \in {"starting", "failing", "completing", "backfilling"}
          /\ call'[g].op = OpAt(next) /\ call'[g].at = "read"
          /\ call'[g].job = call[g].job /\ call[g].job \in Job
          /\ next = "starting" => pc[g] = "creating" /\ call[g].at = "returned"
          /\ next \in {"failing", "completing"} => pc[g] \in {"running", "backfilling"}
          /\ next = "backfilling" => /\ pc[g] = "running" /\ HasStarted(g)
                                     /\ call[g].seen.run = NoRun /\ call'[g].run \in Run

LEMMA ReadingCall ==
  ASSUME DispatcherInv, NEW g \in Goroutine, NEW op \in OneJob, NEW r \in Run \cup {NoRun},
         call[g].job \in Job, Begin(g, op, "read", call[g].job, r)
  PROVE  /\ call' \in [Caller -> Call] /\ \A d \in Caller : d # g => call'[d] = call[d]
         /\ call'[g].op = op /\ call'[g].at = "read" /\ call'[g].job = call[g].job
         /\ call'[g].run = r
<1>1. op \in Op /\ "read" \in At /\ g \in Caller /\ TypeOK
  BY Callers DEF OneJob, Op, At, DispatcherInv, DispatcherType, ManagerType
<1>2. QED
  BY <1>1, BeginType

LEMMA DispatchTurns ==
  ASSUME DispatcherInv, NEW g \in Goroutine,
         NoFunction(g) \/ (\E r \in Run \cup {NoRun} : Dispatch(g, r)) \/ DispatchStep(g)
  PROVE  \E next \in PC : Turns(g, next)
<1>1. /\ call \in [Caller -> Call] /\ g \in Caller /\ Doing(g) /\ call[g] \in Call /\ TypeOK
      /\ pc \in [Goroutine -> PC]
  BY Callers DEF DispatcherInv, DispatcherType, ManagerType, TypeOK, Roles
<1>2. ASSUME Ended(g)
      PROVE  Turns(g, "done") /\ "done" \in PC
  <2>1. /\ call' = [call EXCEPT ![g] = Idle] /\ pc' = [pc EXCEPT ![g] = "done"]
        /\ UNCHANGED <<jobs, log, sweep, restarts>>
    BY <1>2 DEF Ended, Moved
  <2>2. /\ call' \in [Caller -> Call] /\ \A d \in Caller : d # g => call'[d] = call[d]
        /\ call'[g] = Idle
    BY <1>1, <2>1, IdleTypes
  <2>3. QED
    BY <2>1, <2>2 DEF Turns, PC
<1>3. ASSUME NEW r \in Run \cup {NoRun}, Dispatch(g, r)
      PROVE  Turns(g, "creating") /\ "creating" \in PC
  <2>1. "create" \in Op /\ "write" \in At
    BY DEF Op, At
  <2>2. /\ call' \in [Caller -> Call] /\ \A d \in Caller : d # g => call'[d] = call[d]
        /\ call'[g].op = "create" /\ call'[g].at = "write" /\ call'[g].job = NoJob
    <3>1. Begin(g, "create", "write", NoJob, r)
      BY <1>3 DEF Dispatch, CallCreateJob
    <3>2. QED
      BY <1>1, <2>1, <3>1, BeginType
  <2>3. QED
    BY <1>3, <2>2 DEF Dispatch, Moved, Turns, PC
<1>4. ASSUME JobCreated(g)
      PROVE  Turns(g, "starting") /\ "starting" \in PC
  <2>1. /\ pc[g] = "creating" /\ call[g].at = "returned" /\ call[g].job \in Job
        /\ Begin(g, "start", "read", call[g].job, NoRun)
    BY <1>1, <1>4 DEF JobCreated, Returned, CallStartJob, Doing
  <2>2. QED
    BY <1>4, <2>1, ReadingCall DEF JobCreated, Moved, Turns, PC, OneJob, OpAt
<1>5. ASSUME JobStarted(g)
      PROVE  Turns(g, "running") /\ "running" \in PC
  BY <1>1, <1>5 DEF JobStarted, Returned, Moved, Turns, PC
<1>6. ASSUME BinaryFails(g)
      PROVE  Turns(g, "failing") /\ "failing" \in PC
  <2>1. pc[g] = "running" /\ call[g].job \in Job /\ Begin(g, "fail", "read", call[g].job, NoRun)
    BY <1>1, <1>6 DEF BinaryFails, CallFailJob, Doing, AtRest
  <2>2. QED
    BY <1>6, <2>1, ReadingCall DEF BinaryFails, Moved, Turns, PC, OneJob, OpAt
<1>7. ASSUME NEW r \in Run \cup {NoRun}, BinarySucceeds(g, r)
      PROVE  \E next \in PC : Turns(g, next)
  <2>1. pc[g] = "running" /\ call[g].job \in Job /\ HasStarted(g)
    BY <1>1, <1>7 DEF BinarySucceeds, Doing, AtRest, HasStarted
  <2>2. CASE call[g].seen.run = NoRun /\ r # NoRun
    <3>1. Begin(g, "setRun", "read", call[g].job, r) /\ Moved(g, "backfilling") /\ r \in Run
      BY <1>7, <2>2 DEF BinarySucceeds, CallSetJobWorkflowRunID
    <3>2. Turns(g, "backfilling") /\ "backfilling" \in PC
      BY <2>1, <2>2, <3>1, ReadingCall DEF Moved, Turns, PC, OneJob, OpAt
    <3>3. QED
      BY <3>2
  <2>3. CASE ~(call[g].seen.run = NoRun /\ r # NoRun)
    <3>1. Begin(g, "complete", "read", call[g].job, NoRun) /\ Moved(g, "completing")
      BY <1>7, <2>3 DEF BinarySucceeds, CallCompleteJob
    <3>2. Turns(g, "completing") /\ "completing" \in PC
      BY <2>1, <3>1, ReadingCall DEF Moved, Turns, PC, OneJob, OpAt
    <3>3. QED
      BY <3>2
  <2>4. QED
    BY <2>2, <2>3
<1>8. ASSUME BackfillReturned(g)
      PROVE  Turns(g, "completing") /\ "completing" \in PC
  <2>1. /\ pc[g] = "backfilling" /\ call[g].job \in Job
        /\ Begin(g, "complete", "read", call[g].job, NoRun)
    BY <1>1, <1>8 DEF BackfillReturned, CallCompleteJob, Doing, AtRest
  <2>2. QED
    BY <1>8, <2>1, ReadingCall DEF BackfillReturned, Moved, Turns, PC, OneJob, OpAt
<1>9. NoFunction(g) \/ GiveUp(g) \/ DispatchReturns(g) => Ended(g)
  BY DEF NoFunction, GiveUp, DispatchReturns
<1>10. QED
  BY <1>2, <1>3, <1>4, <1>5, <1>6, <1>7, <1>8, <1>9 DEF DispatchStep

(* A client's request. *)
Requests(c) ==
    /\ UNCHANGED <<jobs, log, pc, restarts>>
    /\ call' \in [Caller -> Call] /\ sweep' \in [Caller -> Sweep]
    /\ \A d \in Caller : d # c => call'[d] = call[d] /\ sweep'[d] = sweep[d]
    /\ \/ /\ c \in Canceller /\ sweep'[c] = sweep[c]
          /\ call'[c].op = "cancel" /\ call'[c].at = "read" /\ call'[c].job \in Job
          /\ Exists(call'[c].job)
       \/ /\ c \in Roller /\ sweep'[c] = NoSweep
          /\ call'[c].op = "rollback" /\ call'[c].at = "list" /\ call'[c].job = NoJob

LEMMA CancelRequests ==
  ASSUME DispatcherInv, NEW c \in Canceller, NEW j \in Job, RequestCancel(c, j)
  PROVE  c \in Caller /\ Requests(c)
<1>1. "cancel" \in Op /\ "read" \in At /\ c \in Caller /\ TypeOK
  BY Callers DEF Op, At, DispatcherInv, DispatcherType, ManagerType
<1>2. /\ call' \in [Caller -> Call] /\ \A d \in Caller : d # c => call'[d] = call[d]
      /\ call'[c].op = "cancel" /\ call'[c].at = "read" /\ call'[c].job = j
  BY <1>1, BeginType DEF RequestCancel, CallCancelJob
<1>3. QED
  BY <1>1, <1>2 DEF RequestCancel, Requests, TypeOK

LEMMA RollbackRequests ==
  ASSUME DispatcherInv, NEW c \in Roller, NEW r \in Run, RequestRollback(c, r)
  PROVE  c \in Caller /\ Requests(c)
<1>1. "rollback" \in Op /\ "list" \in At /\ c \in Caller /\ TypeOK
  BY Callers DEF Op, At, DispatcherInv, DispatcherType, ManagerType
<1>2. /\ call' \in [Caller -> Call] /\ \A d \in Caller : d # c => call'[d] = call[d]
      /\ call'[c].op = "rollback" /\ call'[c].at = "list" /\ call'[c].job = NoJob
  BY <1>1, BeginType DEF RequestRollback, CallRollbackByWorkflowRun
<1>3. sweep' = [sweep EXCEPT ![c] = NoSweep] /\ sweep \in [Caller -> Sweep]
  BY <1>1 DEF RequestRollback, TypeOK
<1>4. QED
  BY <1>1, <1>2, <1>3, IdleTypes DEF RequestRollback, Requests

(* What a step of the service can be. *)
LEMMA DispatcherCases ==
  ASSUME DispatcherInv, DispatcherNext
  PROVE  \/ \E g \in Goroutine, next \in PC : Turns(g, next)
         \/ \E c \in Caller : Requests(c)
         \/ \E c \in Caller : Manager(c)
         \/ Restart
<1>1. ASSUME NEW g \in Goroutine,
             NoFunction(g) \/ (\E r \in Run \cup {NoRun} : Dispatch(g, r)) \/ DispatchStep(g)
      PROVE  \E next \in PC : Turns(g, next)
  BY <1>1, DispatchTurns
<1>2. ASSUME NEW c \in Canceller, NEW j \in Job, RequestCancel(c, j)
      PROVE  c \in Caller /\ Requests(c)
  BY <1>2, CancelRequests
<1>3. ASSUME NEW c \in Roller, NEW r \in Run, RequestRollback(c, r)
      PROVE  c \in Caller /\ Requests(c)
  BY <1>3, RollbackRequests
<1>4. QED
  BY <1>1, <1>2, <1>3 DEF DispatcherNext

-----------------------------------------------------------------------------
(* Types *)

LEMMA TurnKeepsType ==
  ASSUME DispatcherInv, NEW g \in Goroutine, NEW next \in PC, Turns(g, next)
  PROVE  DispatcherType'
<1>1. g \in Caller /\ Located(g) /\ TypeOK /\ AllLocated
  BY Callers DEF DispatcherInv, DispatcherType, ManagerType, AllLocated
<1>2. TypeOK'
  BY <1>1 DEF Turns, TypeOK
<1>3. Located(g)'
  <2>1. CASE call'[g] = Idle \/ call'[g] = call[g]
    BY <1>1, <2>1 DEF Turns, Located, Idle, ListedStatus
  <2>2. CASE next = "creating" /\ call'[g].op = "create" /\ call'[g].at = "write"
    BY <1>1, <2>2 DEF Turns, Located, OneJob
  <2>3. CASE /\ next \in {"starting", "failing", "completing", "backfilling"}
             /\ call'[g].op = OpAt(next) /\ call'[g].at = "read"
             /\ call'[g].job = call[g].job /\ call[g].job \in Job
             /\ next = "backfilling" => call'[g].run \in Run
    <3>1. call'[g].op \in OneJob /\ (call'[g].op = "setRun" => next = "backfilling")
      BY <2>3 DEF OpAt, OneJob
    <3>2. QED
      BY <1>1, <2>3, <3>1 DEF Turns, Located, OneJob
  <2>4. QED
    BY <2>1, <2>2, <2>3 DEF Turns
<1>4. AllLocated'
  BY <1>1, <1>3, LocatedElsewhere DEF Turns
<1>5. QED
  BY <1>2, <1>4 DEF DispatcherInv, DispatcherType, ManagerType, Turns

LEMMA RequestKeepsType ==
  ASSUME DispatcherInv, NEW c \in Caller, Requests(c)
  PROVE  DispatcherType'
<1>1. Located(c) /\ TypeOK /\ AllLocated
  BY DEF DispatcherInv, DispatcherType, ManagerType, AllLocated
<1>2. TypeOK'
  BY <1>1 DEF Requests, TypeOK
<1>3. Located(c)'
  BY <1>1 DEF Requests, Located, OneJob, NoSweep
<1>4. AllLocated'
  BY <1>1, <1>3, LocatedElsewhere DEF Requests
<1>5. QED
  BY <1>2, <1>4 DEF DispatcherInv, DispatcherType, ManagerType, Requests

LEMMA RestartKeepsType ==
  ASSUME DispatcherInv, Restart
  PROVE  DispatcherType'
<1>1. /\ \A c \in Caller : call'[c] = Idle /\ sweep'[c] = NoSweep
      /\ call' \in [Caller -> Call] /\ sweep' \in [Caller -> Sweep]
  BY IdleTypes DEF Restart
<1>2. AllLocated'
  BY <1>1 DEF AllLocated, Located, Idle, NoSweep
<1>3. pc' \in [Goroutine -> PC] /\ restarts' \in 0..MaxRestarts
  <2>1. \A g \in Goroutine : pc[g] \in PC
    BY DEF DispatcherInv, DispatcherType
  <2>2. pc' \in [Goroutine -> PC]
    BY <2>1 DEF Restart, PC
  <2>3. QED
    BY <2>2, DispatcherAssumption DEF Restart, DispatcherInv, DispatcherType
<1>4. QED
  BY <1>1, <1>2, <1>3 DEF DispatcherInv, DispatcherType, ManagerType, TypeOK, Restart

LEMMA ManagerKeepsDispatcherType ==
  ASSUME DispatcherInv, NEW c \in Caller, Manager(c)
  PROVE  DispatcherType'
  BY ManagerStepKeepsType DEF DispatcherInv, DispatcherType, Manager

-----------------------------------------------------------------------------
(* The steps of a call that is not a rollback *)

(* The call goes on as it is. *)
Onward(c, next) ==
    /\ call'[c].at = next /\ call'[c].op = call[c].op /\ call'[c].job = call[c].job
    /\ call'[c].ok = call[c].ok

Errs(c) ==
    /\ UNCHANGED <<jobs, log>> /\ call[c].at \notin {"idle", "returned"}
    /\ call'[c].at = "returned" /\ ~call'[c].ok
    /\ call'[c].op = call[c].op /\ call'[c].job = call[c].job

Reads(c) ==
    /\ UNCHANGED <<jobs, log>> /\ call[c].at = "read" /\ Onward(c, "write")
    /\ call'[c].seen = jobs[call[c].job] /\ jobs[call[c].job].status \in From(call[c].op)

Carries(c) ==
    /\ UNCHANGED <<jobs, log>> /\ call[c].at = "announce" /\ Onward(c, "publish")
    /\ call'[c].seen = call[c].seen

Tells(c) ==
    /\ jobs' = jobs /\ Publishing(c) /\ call[c].job \in Job /\ call[c].op \in Announced
    /\ Onward(c, "returned") /\ call'[c].seen = call[c].seen
    /\ \/ log' = log
       \/ \E e \in Event : /\ e.topic = News(c).topic
                           /\ log' = [log EXCEPT ![call[c].job] = Append(@, e)]

LEMMA TellsWhenDone ==
  ASSUME ManagerType, NEW c \in Caller, call[c].op # "rollback", Announce(c) \/ AnnounceLost(c)
  PROVE  Tells(c)
<1>1. /\ call \in [Caller -> Call] /\ call[c] \in Call /\ Located(c)
  BY DEF ManagerType, TypeOK, AllLocated
<1>2. /\ Publishing(c) /\ jobs' = jobs /\ call' = [call EXCEPT ![c].at = "returned"]
  BY DEF Announce, AnnounceLost, AfterNews, Return, Goto, Publishing
<1>3. call[c].job \in Job /\ call[c].op \in Announced
  BY <1>1, <1>2 DEF Publishing, Located
<1>4. Onward(c, "returned") /\ call'[c].seen = call[c].seen
  BY <1>1, <1>2 DEF Onward, Call
<1>5. \/ log' = log
      \/ \E e \in Event : /\ e.topic = News(c).topic
                          /\ log' = [log EXCEPT ![call[c].job] = Append(@, e)]
  <2>1. CASE AnnounceLost(c)
    BY <2>1 DEF AnnounceLost
  <2>2. CASE Announce(c)
    <3>1. PICK e : e = [topic |-> News(c).topic, run |-> call[c].run, prev |-> News(c).prev]
      OBVIOUS
    <3>2. /\ e \in Event /\ e.topic = News(c).topic
          /\ log' = [log EXCEPT ![call[c].job] = Append(@, e)]
      BY <2>2, <3>1, NewsType DEF Announce
    <3>3. QED
      BY <3>2
  <2>3. QED
    BY <2>1, <2>2
<1>6. QED
  BY <1>2, <1>3, <1>4, <1>5 DEF Tells

LEMMA PlainSteps ==
  ASSUME ManagerType, NEW c \in Caller, ManagerStep(c), call[c].op # "rollback"
  PROVE  /\ sweep' = sweep /\ \A d \in Caller : d # c => call'[d] = call[d]
         /\ Errs(c) \/ Reads(c) \/ Writes(c) \/ Carries(c) \/ Tells(c)
<1>1. /\ call \in [Caller -> Call] /\ call[c] \in Call /\ Located(c)
  BY DEF ManagerType, TypeOK, AllLocated
<1>2. CASE ReadAccepted(c)
  <2>1. call' = [call EXCEPT ![c].at = "write", ![c].seen = jobs[call[c].job]]
    BY <1>2 DEF ReadAccepted
  <2>2. Onward(c, "write") /\ call'[c].seen = jobs[call[c].job]
    BY <1>1, <2>1 DEF Onward, Call
  <2>3. QED
    BY <1>1, <1>2, <2>1, <2>2 DEF ReadAccepted, Reads
<1>3. CASE ReadRefused(c) \/ StorageFails(c) \/ RollbackRefused(c)
  <2>1. /\ call' = [call EXCEPT ![c].at = "returned", ![c].seen = Absent, ![c].ok = FALSE]
        /\ UNCHANGED <<jobs, log, sweep>> /\ call[c].at \notin {"idle", "returned"}
    BY <1>3 DEF ReadRefused, StorageFails, RollbackRefused, Fail
  <2>2. QED
    BY <1>1, <2>1 DEF Errs, Call
<1>4. CASE Writes(c)
  <2>1. PICK j \in Job, next \in {"announce", "returned"} : Store(c, j, Patched(c, j), next)
    BY <1>4, WritesStore
  <2>2. QED
    BY <1>1, <1>4, <2>1 DEF Store
<1>5. CASE ReadNews(c)
  <2>1. /\ call' = [call EXCEPT ![c].at = "publish", ![c].run = jobs[call[c].job].run]
        /\ UNCHANGED <<jobs, log, sweep>> /\ call[c].at = "announce"
    BY <1>5 DEF ReadNews
  <2>2. Onward(c, "publish") /\ call'[c].seen = call[c].seen
    BY <1>1, <2>1 DEF Onward, Call
  <2>3. QED
    BY <1>1, <2>1, <2>2 DEF Carries
<1>6. CASE Announce(c) \/ AnnounceLost(c)
  <2>1. sweep' = sweep /\ call' = [call EXCEPT ![c].at = "returned"]
    BY <1>6 DEF Announce, AnnounceLost, AfterNews, Return, Goto
  <2>2. QED
    BY <1>1, <1>6, <2>1, TellsWhenDone
<1>7. ~ListRun(c) /\ ~RereadJob(c) /\ ~PatchJob(c) /\ ~EndRollback(c)
      /\ \A j \in Job : ~SkipJob(c, j) /\ ~VisitJob(c, j)
  BY <1>1 DEF ListRun, RereadJob, PatchJob, EndRollback, SkipJob, VisitJob, Located
<1>8. QED
  BY <1>2, <1>3, <1>4, <1>5, <1>6, <1>7, StepCases DEF Writes

(* An update, as what it leaves behind. *)
LEMMA WriteEffect ==
  ASSUME ManagerType, NEW c \in Caller, Writes(c)
  PROVE  /\ call[c].at = "write" /\ log' = log
         /\ call'[c].op = call[c].op /\ call'[c].ok = call[c].ok
         /\ \E j \in Job, next \in {"announce", "returned"} :
               /\ call'[c].at = next /\ call'[c].job = j
               /\ call'[c].seen = Patched(c, j) /\ Patched(c, j) \in JobRecord
               /\ jobs' = [jobs EXCEPT ![j] = Patched(c, j)]
               /\ call[c].op = "create" => ~Exists(j)
               /\ call[c].op # "create" => j = call[c].job
               /\ next = "announce" => call[c].op \in Announced
               /\ next = "returned" => call[c].op \in {"setRun", "cancel", "fail"}
<1>1. PICK j \in Job, next \in {"announce", "returned"} :
         /\ Store(c, j, Patched(c, j), next)
         /\ call[c].op = "create" => ~Exists(j)
         /\ call[c].op # "create" => j = call[c].job
         /\ next = "announce" => call[c].op \in Announced
         /\ next = "returned" => call[c].op \in {"setRun", "cancel", "fail"}
  BY WritesStore
<1>2. /\ call[c].at = "write" /\ Located(c) /\ TypeOK /\ next \in At
      /\ call \in [Caller -> Call] /\ call[c] \in Call
  BY WritesStore DEF ManagerType, AllLocated, At, TypeOK
<1>3. Patched(c, j) \in JobRecord
  BY <1>2, PatchedType DEF Located
<1>4. /\ call'[c].at = next /\ call'[c].op = call[c].op /\ call'[c].job = j
      /\ call'[c].seen = Patched(c, j) /\ log' = log
      /\ jobs' = [jobs EXCEPT ![j] = Patched(c, j)]
  BY <1>1, <1>2, <1>3, StoreType
<1>5. call'[c].ok = call[c].ok
  BY <1>1, <1>2 DEF Store, Call
<1>6. QED
  BY <1>1, <1>2, <1>3, <1>4, <1>5

-----------------------------------------------------------------------------
(* Who does what *)

LEMMA TurnKeepsRoles ==
  ASSUME DispatcherInv, NEW g \in Goroutine, NEW next \in PC, Turns(g, next)
  PROVE  Roles'
<1>1. pc' = [pc EXCEPT ![g] = next] /\ pc \in [Goroutine -> PC] /\ Doing(g)
  BY DEF Turns, DispatcherInv, DispatcherType, Roles
<1>2. Doing(g)'
  <2>1. CASE next = "done" /\ call'[g] = Idle
    BY <1>1, <2>1 DEF Doing, AtRest
  <2>2. CASE next = "running" /\ pc[g] = "starting" /\ call' = call /\ call[g].at = "returned" /\ call[g].ok
    BY <1>1, <2>2 DEF Doing, AtRest, OpAt
  <2>3. CASE next = "creating" /\ call'[g].op = "create" /\ call'[g].at = "write"
    BY <1>1, <2>3 DEF Doing, AtRest, OpAt
  <2>4. CASE /\ next \in {"starting", "failing", "completing", "backfilling"}
             /\ call'[g].op = OpAt(next) /\ call'[g].at = "read"
             /\ call'[g].job = call[g].job /\ call[g].job \in Job
    BY <1>1, <2>4 DEF Doing, AtRest
  <2>5. QED
    BY <2>1, <2>2, <2>3, <2>4 DEF Turns
<1>3. ASSUME NEW d \in Goroutine, d # g
      PROVE  Doing(d)'
  <2>1. Doing(d) /\ pc'[d] = pc[d] /\ call'[d] = call[d]
    BY <1>1, <1>3, Callers DEF Turns, DispatcherInv, Roles
  <2>2. QED
    BY <2>1 DEF Doing
<1>4. \A c \in Canceller \cup Roller : call'[c] = call[c]
  BY Callers DEF Turns
<1>5. QED
  BY <1>2, <1>3, <1>4 DEF Roles, DispatcherInv

LEMMA RequestKeepsRoles ==
  ASSUME DispatcherInv, NEW c \in Caller, Requests(c)
  PROVE  Roles'
<1>1. ASSUME NEW g \in Goroutine
      PROVE  Doing(g)'
  <2>1. Doing(g) /\ pc' = pc /\ call'[g] = call[g]
    BY Callers DEF Requests, DispatcherInv, Roles
  <2>2. QED
    BY <2>1 DEF Doing
<1>2. QED
  BY <1>1, Callers DEF Requests, Roles, DispatcherInv

LEMMA RestartKeepsRoles ==
  ASSUME DispatcherInv, Restart
  PROVE  Roles'
<1>1. \A c \in Caller : call'[c] = Idle
  BY DEF Restart
<1>2. \A g \in Goroutine : pc'[g] \in AtRest
  BY DEF Restart, AtRest
<1>3. \A g \in Goroutine : Doing(g)'
  BY <1>1, <1>2, Callers DEF Doing, AtRest
<1>4. \A c \in Canceller \cup Roller : call'[c].op = "none"
  BY <1>1, Callers DEF Idle
<1>5. QED
  BY <1>3, <1>4 DEF Roles

LEMMA ManagerKeepsRoles ==
  ASSUME DispatcherInv, NEW c \in Caller, Manager(c)
  PROVE  Roles'
<1>1. ManagerStep(c) /\ pc' = pc /\ ManagerType /\ Roles
  BY DEF Manager, DispatcherInv, DispatcherType
<1>2. /\ \A d \in Caller : d # c => call'[d] = call[d]
      /\ call'[c].op = call[c].op
  <2>1. CASE call[c].op # "rollback"
    <3>1. /\ \A d \in Caller : d # c => call'[d] = call[d]
          /\ Errs(c) \/ Reads(c) \/ Writes(c) \/ Carries(c) \/ Tells(c)
      BY <1>1, <2>1, PlainSteps
    <3>2. CASE Writes(c)
      BY <1>1, <3>2, WriteEffect, <3>1
    <3>3. CASE Errs(c) \/ Reads(c) \/ Carries(c) \/ Tells(c)
      BY <3>1, <3>3 DEF Errs, Reads, Carries, Tells, Onward
    <3>4. QED
      BY <3>1, <3>2, <3>3
  <2>2. CASE call[c].op = "rollback"
    <3>1. ASSUME Writes(c)
          PROVE  FALSE
      BY <2>2, <3>1
      DEF Writes, CreateJob, SetJobWorkflowRunID, StartJob, CompleteJob, FailJobRetrying,
          FailJobExhausted, CancelJob, Writing
    <3>2. CASE ReadNews(c)
      BY <1>1, <3>2, ReadNewsType
    <3>3. CASE Announce(c)
      BY <1>1, <3>3, AnnounceType
    <3>4. CASE ListRun(c)
      BY <1>1, <3>4, ListRunType
    <3>5. CASE PatchJob(c)
      BY <1>1, <3>5, PatchJobType
    <3>6. ASSUME NEW j \in Job, SkipJob(c, j) \/ VisitJob(c, j)
          PROVE  (\A d \in Caller : d # c => call'[d] = call[d]) /\ call'[c].op = call[c].op
      BY <1>1, <3>6, SkipJobType, VisitJobType
    <3>7. CASE Moves(c)
      BY <1>1, <3>7, MovesType
    <3>8. Moves(c) \/ Writes(c) \/ ReadNews(c) \/ Announce(c) \/ ListRun(c) \/ PatchJob(c)
          \/ \E j \in Job : SkipJob(c, j) \/ VisitJob(c, j)
      BY <1>1, StepCases DEF Writes, Moves
    <3>9. QED
      BY ONLY <3>1, <3>2, <3>3, <3>4, <3>5, <3>6, <3>7, <3>8
  <2>3. QED
    BY <2>1, <2>2
<1>3. ASSUME NEW g \in Goroutine
      PROVE  Doing(g)'
  <2>1. CASE g # c
    BY <1>1, <1>2, <2>1, Callers DEF Doing, Roles
  <2>2. CASE g = c
    <3>1. Doing(g) /\ call[g].at \notin {"idle", "returned"} /\ pc[g] \notin AtRest
      <4>1. Doing(g) /\ call[g].at \notin {"idle", "returned"}
        BY <1>1, <2>2 
        DEF Roles, ManagerStep, ReadAccepted, ReadRefused, StorageFails, CreateJob,
            SetJobWorkflowRunID, StartJob, CompleteJob, FailJobRetrying, FailJobExhausted, CancelJob,
            RollbackRefused, ListRun, SkipJob, VisitJob, RereadJob, PatchJob, EndRollback, ReadNews,
            Announce, AnnounceLost, Publishing, Writing
      <4>2. QED
        BY <4>1 DEF Doing, Idle
    <3>2. call[g].op # "rollback" /\ call[g].op # "none" /\ pc[g] # "running"
      BY <3>1, <1>1 DEF Doing, OpAt, AtRest, DispatcherInv, DispatcherType, PC
    <3>3. call'[g].at # "idle"
      BY <1>1, <2>2, <3>2, PlainSteps, WriteEffect DEF Errs, Reads, Carries, Tells, Onward
    <3>4. call[g].job \in Job => call'[g].job \in Job
      BY <1>1, <2>2, <3>2, PlainSteps, WriteEffect DEF Errs, Reads, Carries, Tells, Onward
    <3>5. call'[g].at = "returned" /\ call'[g].ok => call'[g].job \in Job
      BY <1>1, <2>2, <3>2, PlainSteps, WriteEffect DEF Errs, Reads, Carries, Tells, Onward
    <3>6. QED
      BY <1>1, <1>2, <2>2, <3>1, <3>2, <3>3, <3>4, <3>5 DEF Doing
  <2>3. QED
    BY <2>1, <2>2
<1>4. QED
  BY <1>1, <1>2, <1>3, Callers DEF Roles

-----------------------------------------------------------------------------
(* The steps of a rollback *)

(* Its news is out, or lost. *)
Leaves(c) ==
    /\ UNCHANGED <<jobs, sweep>> /\ call[c].at = "publish" /\ call[c].job \in Job
    /\ Onward(c, "loop") /\ call'[c].run = call[c].run
    /\ \/ log' = log
       \/ \E e \in Event : /\ e.topic \in {"cancelled", "rolled_back"}
                           /\ log' = [log EXCEPT ![call[c].job] = Append(@, e)]

Rereads(c) ==
    /\ UNCHANGED <<jobs, log, sweep>> /\ call[c].at = "reread" /\ call[c].job \in Job
    /\ Onward(c, "patch") /\ call'[c].run = call[c].run /\ call'[c].seen = jobs[call[c].job]

Ends(c) ==
    /\ UNCHANGED <<jobs, log, sweep>> /\ call[c].at = "loop" /\ sweep[c].todo = {}
    /\ Onward(c, "returned") /\ call'[c].run = call[c].run

LEMMA LeavesWithNews ==
  ASSUME ManagerType, NEW c \in Caller, call[c].op = "rollback", Announce(c) \/ AnnounceLost(c)
  PROVE  Leaves(c)
<1>1. /\ call \in [Caller -> Call] /\ call[c] \in Call /\ Located(c)
  BY DEF ManagerType, TypeOK, AllLocated
<1>2. /\ Publishing(c) /\ UNCHANGED <<jobs, sweep>> /\ call' = [call EXCEPT ![c].at = "loop"]
  BY DEF Announce, AnnounceLost, AfterNews, Goto, Publishing
<1>3. call[c].at = "publish" /\ call[c].job \in Job
  BY <1>1, <1>2 DEF Publishing, Located, Announced
<1>4. Onward(c, "loop") /\ call'[c].run = call[c].run
  BY <1>1, <1>2 DEF Onward, Call
<1>5. \/ log' = log
      \/ \E e \in Event : /\ e.topic \in {"cancelled", "rolled_back"}
                          /\ log' = [log EXCEPT ![call[c].job] = Append(@, e)]
  <2>1. CASE AnnounceLost(c)
    BY <2>1 DEF AnnounceLost
  <2>2. CASE Announce(c)
    <3>1. PICK e : e = [topic |-> News(c).topic, run |-> call[c].run, prev |-> News(c).prev]
      OBVIOUS
    <3>2. /\ e \in Event /\ e.topic = News(c).topic
          /\ log' = [log EXCEPT ![call[c].job] = Append(@, e)]
      BY <1>3, <2>2, <3>1, NewsType DEF Announce
    <3>3. News(c).topic = Target(c)
      BY DEF News
    <3>4. e.topic \in {"cancelled", "rolled_back"}
      BY <3>2, <3>3 DEF Target
    <3>5. QED
      BY <3>2, <3>4
  <2>3. QED
    BY <2>1, <2>2
<1>6. QED
  BY <1>2, <1>3, <1>4, <1>5 DEF Leaves

LEMMA RollbackSteps ==
  ASSUME ManagerType, NEW c \in Caller, ManagerStep(c), call[c].op = "rollback"
  PROVE  /\ \A d \in Caller : d # c => call'[d] = call[d] /\ sweep'[d] = sweep[d]
         /\ \/ Errs(c) /\ sweep' = sweep
            \/ ListRun(c) /\ call'[c].job = call[c].job
            \/ \E j \in Job : SkipJob(c, j) \/ VisitJob(c, j)
            \/ Rereads(c) \/ PatchJob(c) \/ Ends(c) \/ Leaves(c)
<1>1. /\ call \in [Caller -> Call] /\ call[c] \in Call /\ Located(c)
  BY DEF ManagerType, TypeOK, AllLocated
<1>2. /\ ~ReadAccepted(c) /\ ~ReadRefused(c) /\ ~ReadNews(c) /\ ~Writes(c)
  BY <1>1
  DEF ReadAccepted, ReadRefused, ReadNews, Writes, CreateJob, SetJobWorkflowRunID, StartJob,
      CompleteJob, FailJobRetrying, FailJobExhausted, CancelJob, Writing, Located, OneJob, Announced
<1>3. CASE StorageFails(c) \/ RollbackRefused(c)
  <2>1. /\ call' = [call EXCEPT ![c].at = "returned", ![c].seen = Absent, ![c].ok = FALSE]
        /\ UNCHANGED <<jobs, log, sweep>> /\ call[c].at \notin {"idle", "returned"}
    BY <1>3 DEF StorageFails, RollbackRefused, Fail
  <2>2. QED
    BY <1>1, <2>1 DEF Errs, Call
<1>4. CASE RereadJob(c)
  <2>1. /\ call' = [call EXCEPT ![c].at = "patch", ![c].seen = jobs[call[c].job]]
        /\ UNCHANGED <<jobs, log, sweep>> /\ call[c].at = "reread" /\ call[c].job \in Job
    BY <1>1, <1>4 DEF RereadJob, Located
  <2>2. Onward(c, "patch") /\ call'[c].run = call[c].run /\ call'[c].seen = jobs[call[c].job]
    BY <1>1, <2>1 DEF Onward, Call
  <2>3. QED
    BY <1>1, <2>1, <2>2 DEF Rereads
<1>5. CASE EndRollback(c)
  <2>1. /\ call' = [call EXCEPT ![c].at = "returned"] /\ UNCHANGED <<jobs, log, sweep>>
        /\ call[c].at = "loop" /\ sweep[c].todo = {}
    BY <1>5 DEF EndRollback, Return, Goto
  <2>2. Onward(c, "returned") /\ call'[c].run = call[c].run
    BY <1>1, <2>1 DEF Onward, Call
  <2>3. QED
    BY <1>1, <2>1, <2>2 DEF Ends
<1>6. CASE Announce(c) \/ AnnounceLost(c)
  <2>1. sweep' = sweep /\ call' = [call EXCEPT ![c].at = "loop"]
    BY <1>6 DEF Announce, AnnounceLost, AfterNews, Goto
  <2>2. QED
    BY <1>1, <1>6, <2>1, LeavesWithNews
<1>7. CASE ListRun(c)
  <2>1. call' = [call EXCEPT ![c].at = "loop"]
    BY <1>7 DEF ListRun, Goto
  <2>2. call'[c].job = call[c].job
    BY <1>1, <2>1 DEF Call
  <2>3. QED
    BY <1>7, <2>2, ListRunType
<1>8. QED
  BY <1>2, <1>3, <1>4, <1>5, <1>6, <1>7, StepCases, SkipJobType, VisitJobType, PatchJobType
  DEF Writes

-----------------------------------------------------------------------------
(* Jobs grow older *)

(* What a step of the service does to a Job that is there. *)
Ages(j) ==
    Exists(j) =>
        /\ jobs'[j].status # "absent"
        /\ jobs[j].run \in {NoRun, jobs'[j].run}
        /\ jobs[j].result => jobs'[j].result
        /\ jobs[j].stamp # "none" => jobs'[j].stamp # "none"
        /\ jobs[j].retries <= jobs'[j].retries
        /\ jobs'[j].status = "pending" => jobs[j].status = "pending"

(* Whoever creates, starts, completes, fails or re-anchors Jobs is Dispatch. *)
LEMMA Dispatches ==
  ASSUME DispatcherInv, NEW c \in Caller, call[c].op \notin {"none", "cancel", "rollback"}
  PROVE  /\ c \in Goroutine /\ Doing(c) /\ Fresh(c)
         /\ pc[c] \notin AtRest /\ call[c].op = OpAt(pc[c])
<1>1. c \in Goroutine
  BY Callers DEF DispatcherInv, Roles
<1>2. Doing(c) /\ Fresh(c)
  BY <1>1 DEF DispatcherInv, Roles
<1>3. QED
  BY <1>1, <1>2 DEF Doing, Idle

LEMMA WriteAges ==
  ASSUME DispatcherInv, NEW c \in Caller, Writes(c), NEW i \in Job
  PROVE  Ages(i)
<1>1. /\ jobs \in [Job -> JobRecord] /\ Located(c) /\ call[c].at = "write" /\ ManagerType
  BY WritesStore DEF DispatcherInv, DispatcherType, ManagerType, TypeOK, AllLocated
<1>2. PICK j \in Job : /\ jobs' = [jobs EXCEPT ![j] = Patched(c, j)]
                       /\ call[c].op = "create" => ~Exists(j)
                       /\ call[c].op # "create" => j = call[c].job
  BY <1>1, WriteEffect
<1>3. jobs[i] \in JobRecord
  BY <1>1
<1>4. CASE i # j
  BY <1>1, <1>2, <1>3, <1>4 DEF Ages, Exists, JobRecord
<1>5. CASE i = j
  <2>1. jobs'[i] = Patched(c, i) /\ (call[c].op = "create" => ~Exists(i))
    BY <1>1, <1>2, <1>5
  <2>2. CASE call[c].op = "create"
    BY <2>1, <2>2 DEF Ages
  <2>3. CASE call[c].op = "setRun"
    <3>1. jobs[i].run = NoRun
      <4>1. Fresh(c) /\ pc[c] = "backfilling"
        BY <2>3, Dispatches DEF OpAt
      <4>2. call[c].job = i /\ i \in Job /\ call[c].at = "write"
        BY <1>1, <1>2, <1>5, <2>3
      <4>3. QED
        BY ONLY <4>1, <4>2 DEF Fresh
    <3>2. jobs'[i] = [jobs[i] EXCEPT !.run = call[c].run]
      BY <2>1, <2>3 DEF Patched
    <3>3. QED
      BY <1>3, <3>1, <3>2 DEF Ages, Exists, JobRecord
  <2>4. CASE call[c].op = "fail"
    <3>1. call[c].seen.retries = jobs[i].retries
      <4>1. Fresh(c) /\ pc[c] = "failing"
        BY <2>4, Dispatches DEF OpAt
      <4>2. call[c].job = i /\ i \in Job /\ call[c].at = "write"
        BY <1>1, <1>2, <1>5, <2>4
      <4>3. QED
        BY ONLY <4>1, <4>2 DEF Fresh
    <3>2. PICK n \in Nat : n = NewCount(c) /\ jobs[i].retries <= n
      <4>1. jobs[i].retries \in Nat
        BY <1>3 DEF JobRecord
      <4>2. NewCount(c) = jobs[i].retries + 1
        BY <3>1 DEF NewCount
      <4>3. NewCount(c) \in Nat /\ jobs[i].retries <= NewCount(c)
        BY <4>1, <4>2
      <4>4. QED
        BY <4>3
    <3>3. \/ jobs'[i] = [jobs[i] EXCEPT !.status = "retrying", !.retries = n]
          \/ jobs'[i] = [jobs[i] EXCEPT !.status = "failed", !.retries = n, !.stamp = "fail"]
      BY <2>1, <2>4, <3>2 DEF Patched
    <3>4. /\ jobs'[i].run = jobs[i].run /\ jobs'[i].result = jobs[i].result
          /\ jobs'[i].retries = n
          /\ jobs'[i].status \in {"retrying", "failed"}
          /\ jobs'[i].stamp = jobs[i].stamp \/ jobs'[i].stamp = "fail"
      BY ONLY <1>3, <3>3 DEF JobRecord
    <3>5. QED
      BY <1>3, <3>2, <3>3, <3>4 DEF Ages, JobRecord
  <2>5. CASE call[c].op \in {"start", "complete", "cancel"}
    <3>1. \/ jobs'[i] = [jobs[i] EXCEPT !.status = "running"]
          \/ jobs'[i] = [jobs[i] EXCEPT !.status = "completed", !.result = TRUE, !.stamp = "complete"]
          \/ jobs'[i] = [jobs[i] EXCEPT !.status = "cancelled", !.stamp = "cancel"]
      BY <2>1, <2>5 DEF Patched
    <3>2. /\ jobs'[i].status \in {"running", "completed", "cancelled"}
          /\ jobs'[i].run = jobs[i].run /\ jobs'[i].retries = jobs[i].retries
      BY ONLY <1>3, <3>1 DEF JobRecord
    <3>3. /\ jobs'[i].result = TRUE \/ jobs'[i].result = jobs[i].result
          /\ jobs'[i].stamp \in {"complete", "cancel"} \/ jobs'[i].stamp = jobs[i].stamp
      BY ONLY <1>3, <3>1 DEF JobRecord
    <3>4. jobs[i].retries \in Nat
      BY ONLY <1>3 DEF JobRecord
    <3>5. QED
      BY ONLY <3>2, <3>3, <3>4 DEF Ages
  <2>6. QED
    BY <1>1, <2>2, <2>3, <2>4, <2>5 DEF Located, OneJob
<1>6. QED
  BY <1>4, <1>5

LEMMA PatchAges ==
  ASSUME DispatcherInv, NEW c \in Caller, PatchJob(c), NEW i \in Job
  PROVE  Ages(i)
<1>1. /\ jobs \in [Job -> JobRecord] /\ jobs[i] \in JobRecord /\ call[c].job \in Job
      /\ jobs' = [jobs EXCEPT ![call[c].job] = Undo(c)]
  BY PatchJobType DEF DispatcherInv, DispatcherType, ManagerType, TypeOK
<1>2. CASE i # call[c].job
  BY <1>1, <1>2 DEF Ages, Exists, JobRecord
<1>3. CASE i = call[c].job
  <2>1. jobs'[i] = [jobs[i] EXCEPT !.status = Target(c),
                                   !.stamp = IF call[c].seen.stamp = "none"
                                             THEN "rollback" ELSE @]
    BY <1>1, <1>3 DEF Undo
  <2>2. Target(c) \in {"cancelled", "rolled_back"}
    BY DEF Target
  <2>3. /\ jobs'[i].status \in {"cancelled", "rolled_back"}
        /\ jobs'[i].run = jobs[i].run /\ jobs'[i].retries = jobs[i].retries
        /\ jobs'[i].result = jobs[i].result
        /\ jobs'[i].stamp \in {"rollback", jobs[i].stamp}
    BY ONLY <1>1, <2>1, <2>2 DEF JobRecord
  <2>4. jobs[i].retries \in Nat
    BY <1>1 DEF JobRecord
  <2>5. QED
    BY ONLY <2>3, <2>4 DEF Ages
<1>4. QED
  BY <1>2, <1>3

(* Only the updates of a call change the Jobs. *)
LEMMA ManagerAges ==
  ASSUME DispatcherInv, NEW c \in Caller, ManagerStep(c), NEW i \in Job
  PROVE  Ages(i)
<1>1. jobs[i] \in JobRecord /\ ManagerType
  BY DEF DispatcherInv, DispatcherType, ManagerType, TypeOK
<1>2. CASE jobs' = jobs
  BY <1>1, <1>2 DEF Ages, Exists, JobRecord
<1>3. jobs' = jobs \/ Writes(c) \/ PatchJob(c)
  <2>1. CASE call[c].op = "rollback"
    BY <1>1, <2>1, RollbackSteps, ListRunType, SkipJobType, VisitJobType
    DEF Errs, Rereads, Ends, Leaves
  <2>2. CASE call[c].op # "rollback"
    BY <1>1, <2>2, PlainSteps DEF Errs, Reads, Carries, Tells
  <2>3. QED
    BY <2>1, <2>2
<1>4. QED
  BY <1>2, <1>3, WriteAges, PatchAges

-----------------------------------------------------------------------------
(* What a call knows stays true *)

LEMMA KnownElsewhere ==
  ASSUME DispatcherInv, NEW d \in Caller, call'[d] = call[d], sweep'[d] = sweep[d],
         \A i \in Job : Ages(i)
  PROVE  Known(d)'
<1>1. Known(d) /\ Located(d)
  BY DEF DispatcherInv, DispatcherType, ManagerType, AllLocated
<1>2. \A i \in Job : Exists(i) => Exists(i)'
  BY DEF Ages, Exists
<1>3. /\ (call[d].job \in Job => Exists(call[d].job))'
      /\ (\A j \in Job : sweep[d].listed[j].status # "absent" => Exists(j))'
  BY <1>1, <1>2 DEF Known
<1>4. (call[d].at = "patch" /\ call[d].seen.stamp # "none" => jobs[call[d].job].stamp # "none")'
  BY <1>1 DEF Known, Located, Ages
<1>5. (Publishing(d) /\ call[d].op = "complete" => jobs[call[d].job].result)'
  BY <1>1 DEF Known, Located, Publishing, Ages
<1>6. QED
  BY <1>3, <1>4, <1>5 DEF Known

LEMMA NothingAges == ASSUME DispatcherInv, jobs' = jobs
                     PROVE  \A i \in Job : Ages(i)
<1>1. \A i \in Job : jobs[i] \in JobRecord
  BY DEF DispatcherInv, DispatcherType, ManagerType, TypeOK
<1>2. QED
  BY <1>1 DEF Ages, Exists, JobRecord

LEMMA TurnKeepsKnown ==
  ASSUME DispatcherInv, NEW g \in Goroutine, NEW next \in PC, Turns(g, next),
         NEW d \in Caller
  PROVE  Known(d)'
<1>1. jobs' = jobs /\ sweep' = sweep /\ \A i \in Job : Ages(i)
  BY NothingAges DEF Turns
<1>2. CASE call'[d] = call[d]
  BY <1>1, <1>2, KnownElsewhere
<1>3. CASE call'[d] # call[d]
  <2>1. Known(d) /\ d = g
    BY <1>3 DEF Turns, DispatcherInv
  <2>2. /\ call'[d].job = NoJob \/ call'[d].job = call[d].job
        /\ call'[d].at \in {"idle", "read", "write"}
    BY <1>3, <2>1 DEF Turns, Idle
  <2>3. QED
    BY <1>1, <2>1, <2>2, JobManagerAssumption DEF Known, Exists, Publishing
<1>4. QED
  BY <1>2, <1>3

LEMMA RequestKeepsKnown ==
  ASSUME DispatcherInv, NEW c \in Caller, Requests(c), NEW d \in Caller
  PROVE  Known(d)'
<1>1. jobs' = jobs /\ \A i \in Job : Ages(i)
  BY NothingAges DEF Requests
<1>2. CASE d # c
  BY <1>1, <1>2, KnownElsewhere DEF Requests
<1>3. CASE d = c
  <2>1. Known(c)
    BY DEF DispatcherInv
  <2>2. QED
    BY <1>1, <1>3, <2>1, JobManagerAssumption DEF Requests, Known, Exists, Publishing, NoSweep, Absent
<1>4. QED
  BY <1>2, <1>3

LEMMA RestartKeepsKnown ==
  ASSUME DispatcherInv, Restart, NEW d \in Caller
  PROVE  Known(d)'
<1>1. call'[d] = Idle /\ sweep'[d] = NoSweep
  BY DEF Restart
<1>2. QED
  BY <1>1, JobManagerAssumption DEF Known, Idle, NoSweep, Absent, Publishing

LEMMA PlainKeepsKnown ==
  ASSUME DispatcherInv, NEW c \in Caller, ManagerStep(c), call[c].op # "rollback"
  PROVE  Known(c)'
<1>1. /\ Known(c) /\ Located(c) /\ ManagerType /\ jobs \in [Job -> JobRecord]
      /\ sweep' = sweep
  BY PlainSteps DEF DispatcherInv, DispatcherType, ManagerType, AllLocated, TypeOK
<1>2. \A i \in Job : Exists(i) => Exists(i)'
  BY ManagerAges DEF Ages, Exists
<1>3. (\A j \in Job : sweep[c].listed[j].status # "absent" => Exists(j))'
  BY <1>1, <1>2 DEF Known
<1>4. CASE Errs(c) \/ Reads(c) \/ Tells(c)
  BY <1>1, <1>2, <1>3, <1>4 DEF Errs, Reads, Tells, Onward, Known, Publishing
<1>5. CASE Carries(c)
  BY <1>1, <1>2, <1>3, <1>5 DEF Carries, Onward, Known, Publishing
<1>6. CASE Writes(c)
  <2>1. PICK j \in Job, next \in {"announce", "returned"} :
           /\ call'[c].at = next /\ call'[c].job = j /\ call'[c].op = call[c].op
           /\ Patched(c, j) \in JobRecord
           /\ jobs' = [jobs EXCEPT ![j] = Patched(c, j)]
           /\ call[c].op # "create" => j = call[c].job
    BY <1>1, <1>6, WriteEffect
  <2>2. jobs'[j] = Patched(c, j) /\ jobs[j] \in JobRecord
    BY <1>1, <2>1
  <2>3. jobs'[j].status # "absent"
    <3>1. CASE call[c].op = "create"
      BY <2>2, <3>1 DEF Patched, NewJob, Absent
    <3>2. CASE call[c].op # "create"
      <4>1. Exists(j)
        BY <1>1, <2>1, <3>2 DEF Known
      <4>2. QED
        BY <1>2, <4>1 DEF Exists
    <3>3. QED
      BY <3>1, <3>2
  <2>4. call[c].op = "complete" => jobs'[j].result = TRUE
    <3>1. ASSUME call[c].op = "complete"
          PROVE  jobs'[j] = [jobs[j] EXCEPT !.status = "completed", !.result = TRUE,
                                            !.stamp = "complete"]
      BY <2>2, <3>1 DEF Patched
    <3>2. QED
      BY <2>2, <3>1 DEF JobRecord
  <2>5. QED
    BY <1>3, <2>1, <2>3, <2>4 DEF Known, Exists, Publishing
<1>7. QED
  BY <1>1, <1>4, <1>5, <1>6, PlainSteps

LEMMA RollbackKeepsKnown ==
  ASSUME DispatcherInv, NEW c \in Caller, ManagerStep(c), call[c].op = "rollback"
  PROVE  Known(c)'
<1>1. Known(c) /\ Located(c) /\ ManagerType /\ jobs \in [Job -> JobRecord]
  BY DEF DispatcherInv, DispatcherType, ManagerType, AllLocated, TypeOK
<1>2. \A i \in Job : Exists(i) => Exists(i)'
  BY ManagerAges DEF Ages, Exists
<1>3. CASE Errs(c) /\ sweep' = sweep
  BY <1>1, <1>2, <1>3 DEF Errs, Known, Publishing
<1>4. CASE Ends(c) \/ Leaves(c)
  BY <1>1, <1>2, <1>4 DEF Ends, Leaves, Onward, Known, Publishing
<1>5. CASE Rereads(c)
  BY <1>1, <1>2, <1>5 DEF Rereads, Onward, Known, Publishing
<1>6. CASE ListRun(c) /\ call'[c].job = call[c].job
  <2>1. /\ jobs' = jobs /\ call'[c].at = "loop" /\ sweep'[c].listed = jobs
    BY <1>1, <1>6, ListRunType DEF NoSweep
  <2>2. QED
    BY <1>1, <1>6, <2>1 DEF Known, Exists, Publishing
<1>7. ASSUME NEW j \in Job, SkipJob(c, j)
      PROVE  Known(c)'
  BY <1>1, <1>2, <1>7, SkipJobType DEF Known, Publishing
<1>8. ASSUME NEW j \in Job, VisitJob(c, j)
      PROVE  Known(c)'
  <2>1. Exists(j)
    BY <1>1, <1>8, VisitJobType DEF Known, Located
  <2>2. QED
    BY <1>1, <1>2, <1>8, <2>1, VisitJobType DEF Known, Publishing
<1>9. CASE PatchJob(c)
  <2>1. /\ call'[c].at = "publish" /\ call'[c].op = call[c].op /\ call'[c].job = call[c].job
        /\ sweep'[c].listed = sweep[c].listed
    BY <1>1, <1>9, PatchJobType
  <2>2. QED
    BY <1>1, <1>2, <2>1 DEF Known, Publishing
<1>10. QED
  BY <1>1, <1>3, <1>4, <1>5, <1>6, <1>7, <1>8, <1>9, RollbackSteps

LEMMA ManagerKeepsKnown ==
  ASSUME DispatcherInv, NEW c \in Caller, Manager(c), NEW d \in Caller
  PROVE  Known(d)'
<1>1. ManagerStep(c) /\ ManagerType /\ \A i \in Job : Ages(i)
  BY ManagerAges DEF Manager, DispatcherInv, DispatcherType
<1>2. CASE d = c
  BY <1>1, <1>2, PlainKeepsKnown, RollbackKeepsKnown
<1>3. CASE d # c
  <2>1. call'[d] = call[d] /\ sweep'[d] = sweep[d]
    BY <1>1, <1>3, PlainSteps, RollbackSteps
  <2>2. QED
    BY <1>1, <2>1, KnownElsewhere
<1>4. QED
  BY <1>2, <1>3

-----------------------------------------------------------------------------
(* Every goroutine has a Job of its own *)

(* A step that leaves call g its Job, or takes it. *)
LEMMA OwnedByLess ==
  ASSUME DispatcherInv, \A g \in Goroutine : call'[g].job = call[g].job \/ call'[g].job \notin Job
  PROVE  Owned'
  BY DEF DispatcherInv, Owned

LEMMA TurnKeepsOwned ==
  ASSUME DispatcherInv, NEW g \in Goroutine, NEW next \in PC, Turns(g, next)
  PROVE  Owned'
<1>1. call'[g].job = call[g].job \/ call'[g].job \notin Job
  BY JobManagerAssumption DEF Turns, Idle
<1>2. QED
  BY <1>1, OwnedByLess, Callers DEF Turns

LEMMA RequestKeepsOwned ==
  ASSUME DispatcherInv, NEW c \in Caller, Requests(c)
  PROVE  Owned'
  BY OwnedByLess, Callers DEF Requests

LEMMA RestartKeepsOwned ==
  ASSUME DispatcherInv, Restart
  PROVE  Owned'
  BY OwnedByLess, Callers, JobManagerAssumption DEF Restart, Idle

LEMMA ManagerKeepsOwned ==
  ASSUME DispatcherInv, NEW c \in Caller, Manager(c)
  PROVE  Owned'
<1>1. ManagerStep(c) /\ ManagerType /\ \A d \in Caller : Known(d)
  BY DEF Manager, DispatcherInv, DispatcherType
<1>2. \A d \in Caller : d # c => call'[d] = call[d]
  BY <1>1, PlainSteps, RollbackSteps
<1>3. CASE c \notin Goroutine \/ call'[c].job = call[c].job
  BY <1>2, <1>3, OwnedByLess, Callers
<1>4. CASE c \in Goroutine /\ call'[c].job # call[c].job
  <2>1. call[c].op # "rollback" /\ Writes(c)
    <3>1. call[c].op # "rollback"
      BY <1>4 DEF DispatcherInv, Roles, Doing, OpAt, Idle
    <3>2. QED
      BY <1>1, <1>4, <3>1, PlainSteps DEF Errs, Reads, Carries, Tells, Onward
  <2>2. PICK j \in Job : call'[c].job = j /\ ~Exists(j)
    BY <1>1, <1>4, <2>1, WriteEffect
  <2>3. \A g \in Goroutine : g # c => call'[g] = call[g] /\ call[g].job # j
    BY <1>1, <1>2, <2>2, Callers DEF Known
  <2>4. QED
    BY <2>2, <2>3 DEF DispatcherInv, Owned
<1>5. QED
  BY <1>3, <1>4

-----------------------------------------------------------------------------
(* What Dispatch relies on in its Job *)

(* A step of somebody else, as the goroutine that has the Job sees it. *)
Untouched(j) ==
    /\ jobs'[j].run = jobs[j].run /\ jobs'[j].retries = jobs[j].retries
    /\ \/ log'[j] = log[j]
       \/ \E e \in Event : /\ e.topic \in {"cancelled", "rolled_back"}
                           /\ log'[j] = Append(log[j], e)

(* Another goroutine works on another Job. *)
LEMMA OthersElsewhere ==
  ASSUME DispatcherInv, NEW g \in Goroutine, call[g].job \in Job, NEW c \in Goroutine, c # g,
         ManagerStep(c)
  PROVE  jobs'[call[g].job] = jobs[call[g].job] /\ log'[call[g].job] = log[call[g].job]
<1>1. /\ ManagerType /\ jobs \in [Job -> JobRecord] /\ log \in [Job -> Seq(Event)]
      /\ c \in Caller /\ g \in Caller /\ call[c].job # call[g].job /\ Exists(call[g].job)
  BY Callers DEF DispatcherInv, DispatcherType, ManagerType, TypeOK, Owned, Known
<1>2. call[c].op # "rollback"
  BY DEF DispatcherInv, Roles, Doing, OpAt, Idle
<1>3. CASE Writes(c)
  BY <1>1, <1>3, WriteEffect
<1>4. CASE Tells(c)
  BY <1>1, <1>4 DEF Tells
<1>5. QED
  BY <1>1, <1>2, <1>3, <1>4, PlainSteps DEF Errs, Reads, Carries

(* A cancellation writes neither the run nor the count. *)
LEMMA CancelUntouched ==
  ASSUME DispatcherInv, NEW c \in Canceller, ManagerStep(c), NEW j \in Job
  PROVE  Untouched(j)
<1>1. /\ ManagerType /\ jobs \in [Job -> JobRecord] /\ jobs[j] \in JobRecord
      /\ c \in Caller /\ call[c].op \in {"none", "cancel"}
  BY Callers DEF DispatcherInv, DispatcherType, ManagerType, TypeOK, Roles
<1>2. CASE Writes(c)
  <2>1. PICK k \in Job : jobs' = [jobs EXCEPT ![k] = Patched(c, k)] /\ log' = log
    BY <1>1, <1>2, WriteEffect
  <2>2. call[c].op = "cancel"
    BY <1>1, <1>2 
    DEF Writes, CreateJob, SetJobWorkflowRunID, StartJob, CompleteJob, FailJobRetrying,
        FailJobExhausted, CancelJob, Writing
  <2>3. Patched(c, k) = [jobs[k] EXCEPT !.status = "cancelled", !.stamp = "cancel"]
    BY <2>2 DEF Patched
  <2>4. CASE k = j
    <3>1. jobs'[j] = [jobs[j] EXCEPT !.status = "cancelled", !.stamp = "cancel"]
      BY <1>1, <2>1, <2>3, <2>4
    <3>2. jobs'[j].run = jobs[j].run /\ jobs'[j].retries = jobs[j].retries
      BY ONLY <1>1, <3>1 DEF JobRecord
    <3>3. QED
      BY <2>1, <3>2 DEF Untouched
  <2>5. CASE k # j
    BY <1>1, <2>1, <2>5 DEF Untouched
  <2>6. QED
    BY <2>4, <2>5
<1>3. ~Tells(c)
  BY <1>1 DEF Tells, Announced
<1>4. QED
  BY <1>1, <1>2, <1>3, PlainSteps DEF Errs, Reads, Carries, Untouched

(* A rollback neither, and its news is of its own kind. *)
LEMMA RollbackUntouched ==
  ASSUME DispatcherInv, NEW c \in Roller, ManagerStep(c), NEW j \in Job
  PROVE  Untouched(j)
<1>1. /\ ManagerType /\ jobs \in [Job -> JobRecord] /\ jobs[j] \in JobRecord
      /\ log \in [Job -> Seq(Event)] /\ c \in Caller /\ call[c].op \in {"none", "rollback"}
  BY Callers DEF DispatcherInv, DispatcherType, ManagerType, TypeOK, Roles
<1>2. CASE UNCHANGED <<jobs, log>>
  BY <1>2 DEF Untouched
<1>3. CASE PatchJob(c)
  <2>1. jobs' = [jobs EXCEPT ![call[c].job] = Undo(c)] /\ log' = log /\ call[c].job \in Job
    BY <1>1, <1>3, PatchJobType
  <2>2. CASE call[c].job = j
    <3>1. jobs'[j] = [jobs[j] EXCEPT !.status = Target(c),
                                     !.stamp = IF call[c].seen.stamp = "none"
                                               THEN "rollback" ELSE @]
      BY <1>1, <2>1, <2>2 DEF Undo
    <3>2. jobs'[j].run = jobs[j].run /\ jobs'[j].retries = jobs[j].retries
      BY ONLY <1>1, <3>1 DEF JobRecord
    <3>3. QED
      BY <2>1, <3>2 DEF Untouched
  <2>3. CASE call[c].job # j
    BY <1>1, <2>1, <2>3 DEF Untouched
  <2>4. QED
    BY <2>2, <2>3
<1>4. CASE Leaves(c)
  <2>1. jobs' = jobs
    BY <1>4 DEF Leaves
  <2>2. \/ log'[j] = log[j]
        \/ \E e \in Event : /\ e.topic \in {"cancelled", "rolled_back"}
                            /\ log'[j] = Append(log[j], e)
    BY <1>1, <1>4 DEF Leaves
  <2>3. QED
    BY <2>1, <2>2 DEF Untouched
<1>5. CASE call[c].op = "none"
  <2>1. ~Writes(c) /\ ~Tells(c)
    BY <1>1, <1>5
    DEF Writes, CreateJob, SetJobWorkflowRunID, StartJob, CompleteJob, FailJobRetrying,
        FailJobExhausted, CancelJob, Writing, Tells, Announced
  <2>2. call[c].op # "rollback"
    BY <1>5
  <2>3. Errs(c) \/ Reads(c) \/ Carries(c)
    BY <1>1, <2>1, <2>2, PlainSteps
  <2>4. QED
    BY <1>2, <2>3 DEF Errs, Reads, Carries
<1>6. QED
  BY <1>1, <1>2, <1>3, <1>4, <1>5, RollbackSteps, ListRunType, SkipJobType, VisitJobType
  DEF Errs, Rereads, Ends

LEMMA AheadTopics ==
  \A g : /\ Ahead(g) \subseteq {"created", "started", "completed"}
         /\ "cancelled" \notin Ahead(g) /\ "rolled_back" \notin Ahead(g) /\ "failed" \notin Ahead(g)
  BY DEF Ahead

(* No topic of a longer log is new to g unless the last event's is. *)
LEMMA LaterNews ==
  ASSUME NEW s \in Seq(Event), NEW e \in Event, NEW T, NEW U, U \subseteq T,
         \A i \in DOMAIN s : s[i].topic \notin T, e.topic \notin U
  PROVE  \A i \in DOMAIN Append(s, e) : Append(s, e)[i].topic \notin U
<1>1. \A i \in DOMAIN Append(s, e) :
         \/ i \in DOMAIN s /\ Append(s, e)[i] = s[i]
         \/ Append(s, e)[i] = e
  OBVIOUS
<1>2. QED
  BY <1>1

LEMMA FreshElsewhere ==
  ASSUME DispatcherInv, NEW g \in Goroutine, call'[g] = call[g], pc'[g] = pc[g],
         call[g].job \in Job => Untouched(call[g].job)
  PROVE  Fresh(g)'
<1> SUFFICES ASSUME call[g].job \in Job
             PROVE  Fresh(g)'
  BY DEF Fresh
<1>1. /\ Fresh(g) /\ log[call[g].job] \in Seq(Event) /\ jobs[call[g].job] \in JobRecord
      /\ Untouched(call[g].job)
  BY DEF DispatcherInv, DispatcherType, ManagerType, TypeOK
<1>2. Ahead(g)' = Ahead(g) /\ (HasStarted(g)' <=> HasStarted(g))
  BY DEF Ahead, HasStarted
<1>3. \A i \in DOMAIN log[call[g].job] : log[call[g].job][i].topic \notin Ahead(g)
  BY <1>1 DEF Fresh
<1>4. \A i \in DOMAIN log'[call[g].job] : log'[call[g].job][i].topic \notin Ahead(g)
  <2>1. CASE log'[call[g].job] = log[call[g].job]
    BY <1>3, <2>1
  <2>2. CASE \E e \in Event : /\ e.topic \in {"cancelled", "rolled_back"}
                              /\ log'[call[g].job] = Append(log[call[g].job], e)
    <3>1. PICK e \in Event : /\ e.topic \in {"cancelled", "rolled_back"}
                             /\ log'[call[g].job] = Append(log[call[g].job], e)
      BY <2>2
    <3>2. e.topic \notin Ahead(g)
      BY <3>1, AheadTopics
    <3>3. QED
      BY <1>1, <1>3, <3>1, <3>2, LaterNews
  <2>3. QED
    BY <1>1, <2>1, <2>2 DEF Untouched
<1>5. /\ HasStarted(g)' => call'[g].seen.run = jobs'[call[g].job].run
      /\ pc'[g] = "backfilling" /\ call'[g].at \in {"read", "write"} =>
            jobs'[call[g].job].run = NoRun
      /\ pc'[g] = "failing" /\ call'[g].at = "write" =>
            call'[g].seen.retries = jobs'[call[g].job].retries
  BY <1>1, <1>2 DEF Fresh, Untouched
<1>6. QED
  BY <1>2, <1>4, <1>5 DEF Fresh

LEMMA TurnKeepsFresh ==
  ASSUME DispatcherInv, NEW g \in Goroutine, NEW next \in PC, Turns(g, next),
         NEW h \in Goroutine
  PROVE  Fresh(h)'
<1>1. /\ pc' = [pc EXCEPT ![g] = next] /\ pc \in [Goroutine -> PC] /\ UNCHANGED <<jobs, log>>
      /\ Fresh(g) /\ Doing(g)
  BY DEF Turns, DispatcherInv, DispatcherType, Roles
<1>2. CASE h # g
  <2>1. call'[h] = call[h] /\ pc'[h] = pc[h]
    BY <1>1, <1>2, Callers DEF Turns
  <2>2. \A j \in Job : Untouched(j)
    BY <1>1 DEF Untouched
  <2>3. QED
    BY <2>1, <2>2, FreshElsewhere
<1>3. CASE h = g /\ call'[g].job \notin Job
  BY <1>3 DEF Fresh
<1>4. CASE h = g /\ call'[g].job \in Job
  <2>1. pc'[g] = next
    BY <1>1
  <2>2. CASE next = "running" /\ pc[g] = "starting" /\ call' = call /\ call[g].at = "returned" /\ call[g].ok
    <3>1. Ahead(g)' = Ahead(g) /\ HasStarted(g)
      BY <2>1, <2>2 DEF Ahead, HasStarted
    <3>2. QED
      BY <1>1, <1>4, <2>1, <2>2, <3>1 DEF Fresh
  <2>3. CASE /\ next \in {"starting", "failing", "completing", "backfilling"}
             /\ call'[g].at = "read" /\ call'[g].job = call[g].job
             /\ next = "starting" => pc[g] = "creating" /\ call[g].at = "returned"
             /\ next \in {"failing", "completing"} => pc[g] \in {"running", "backfilling"}
             /\ next = "backfilling" => /\ pc[g] = "running" /\ HasStarted(g)
                                        /\ call[g].seen.run = NoRun
    <3>1. Ahead(g)' = Ahead(g) /\ ~HasStarted(g)'
      BY <2>1, <2>3 DEF Ahead, HasStarted
    <3>2. next = "backfilling" => jobs[call[g].job].run = NoRun
      BY <1>4, <2>3, <1>1 DEF Fresh
    <3>3. QED
      BY <1>1, <1>4, <2>1, <2>3, <3>1, <3>2 DEF Fresh
  <2>4. QED
    BY <1>4, <2>2, <2>3, JobManagerAssumption DEF Turns, Idle
<1>5. QED
  BY <1>2, <1>3, <1>4

LEMMA RequestKeepsFresh ==
  ASSUME DispatcherInv, NEW c \in Caller, Requests(c), NEW g \in Goroutine
  PROVE  Fresh(g)'
<1>1. call'[g] = call[g] /\ pc'[g] = pc[g]
  BY Callers DEF Requests
<1>2. \A j \in Job : Untouched(j)
  BY DEF Requests, Untouched
<1>3. QED
  BY <1>1, <1>2, FreshElsewhere

LEMMA RestartKeepsFresh ==
  ASSUME DispatcherInv, Restart, NEW g \in Goroutine
  PROVE  Fresh(g)'
  BY Callers, JobManagerAssumption DEF Restart, Fresh, Idle

(* What g relies on through a step of its own call. *)
LEMMA OwnStepKeepsFresh ==
  ASSUME DispatcherInv, NEW g \in Goroutine, ManagerStep(g), pc' = pc
  PROVE  Fresh(g)'
<1>1. /\ ManagerType /\ g \in Caller /\ jobs \in [Job -> JobRecord] /\ log \in [Job -> Seq(Event)]
      /\ Fresh(g) /\ Doing(g) /\ call[g] \in Call /\ Located(g)
  BY Callers
  DEF DispatcherInv, DispatcherType, ManagerType, TypeOK, AllLocated, Roles
<1>2. call[g].op # "rollback"
  BY <1>1 DEF Doing, OpAt, Idle
<1>3. CASE Errs(g)
  <2>1. Ahead(g)' \subseteq Ahead(g) /\ ~HasStarted(g)'
    BY <1>3 DEF Errs, Ahead, HasStarted
  <2>2. QED
    BY <1>1, <1>3, <2>1 DEF Errs, Fresh
<1>4. CASE Reads(g)
  <2>1. Ahead(g)' = Ahead(g) /\ ~HasStarted(g)'
    BY <1>4 DEF Reads, Onward, Ahead, HasStarted
  <2>2. QED
    BY <1>1, <1>4, <2>1 DEF Reads, Onward, Fresh
<1>5. CASE Carries(g)
  <2>1. Ahead(g)' = Ahead(g) /\ (HasStarted(g)' => HasStarted(g))
    BY <1>5 DEF Carries, Onward, Ahead, HasStarted
  <2>2. QED
    BY <1>1, <1>5, <2>1 DEF Carries, Onward, Fresh
<1>6. CASE Writes(g)
  <2>1. PICK j \in Job, next \in {"announce", "returned"} :
           /\ call'[g].at = next /\ call'[g].job = j
           /\ call'[g].seen = Patched(g, j)
           /\ jobs' = [jobs EXCEPT ![j] = Patched(g, j)]
           /\ call[g].op = "create" => ~Exists(j)
           /\ call[g].op # "create" => j = call[g].job
    BY <1>1, <1>6, WriteEffect
  <2>2. log' = log /\ call[g].at = "write" /\ call'[g].seen = jobs'[j]
    BY <1>1, <1>6, <2>1, WriteEffect
  <2>3. \A i \in DOMAIN log[j] : log[j][i].topic \notin Ahead(g)
    <3>1. CASE call[g].op = "create"
      <4>1. log[j] = <<>>
        BY <2>1, <3>1 DEF DispatcherInv, Consistent
      <4>2. QED
        BY <4>1
    <3>2. CASE call[g].op # "create"
      BY <1>1, <2>1, <3>2 DEF Fresh
    <3>3. QED
      BY <3>1, <3>2
  <2>4. Ahead(g)' \subseteq Ahead(g)
    BY <2>1, <2>2 DEF Ahead
  <2>5. QED
    BY <2>1, <2>2, <2>3, <2>4 DEF Fresh
<1>7. CASE Tells(g)
  <2>1. /\ jobs' = jobs /\ call'[g].at = "returned" /\ call'[g].job = call[g].job
        /\ call'[g].seen = call[g].seen /\ call'[g].op = call[g].op
        /\ call[g].at \in {"announce", "publish"} /\ call[g].job \in Job
        /\ call[g].op \in Announced
    BY <1>7 DEF Tells, Onward, Publishing
  <2>2. Ahead(g)' \subseteq Ahead(g) /\ (HasStarted(g)' => HasStarted(g))
    <3>1. call[g].op = OpAt(pc[g]) /\ pc[g] # "running"
      BY <1>1, <2>1 DEF Doing, Idle
    <3>2. QED
      BY <2>1, <3>1 DEF Ahead, HasStarted
  <2>3. News(g).topic \notin Ahead(g)'
    <3>1. call[g].op = OpAt(pc[g]) /\ pc[g] # "running"
      BY <1>1, <2>1 DEF Doing, Idle
    <3>2. CASE pc[g] = "creating"
      BY <2>1, <3>1, <3>2 DEF Ahead, News, OpAt
    <3>3. CASE pc[g] = "starting"
      BY <2>1, <3>1, <3>3 DEF Ahead, News, OpAt
    <3>4. CASE pc[g] = "completing"
      BY <2>1, <3>1, <3>4 DEF Ahead, News, OpAt
    <3>5. CASE pc[g] = "failing"
      BY <2>1, <3>1, <3>5 DEF Ahead, News, OpAt
    <3>6. QED
      BY <2>1, <3>1, <3>2, <3>3, <3>4, <3>5 DEF OpAt, Announced
  <2>4. \A i \in DOMAIN log[call[g].job] : log[call[g].job][i].topic \notin Ahead(g)
    BY <1>1, <2>1 DEF Fresh
  <2>5. \A i \in DOMAIN log'[call[g].job] : log'[call[g].job][i].topic \notin Ahead(g)'
    <3>1. CASE log' = log
      BY <2>2, <2>4, <3>1
    <3>2. CASE \E e \in Event : /\ e.topic = News(g).topic
                                /\ log' = [log EXCEPT ![call[g].job] = Append(@, e)]
      <4>1. PICK e \in Event : /\ e.topic = News(g).topic
                               /\ log' = [log EXCEPT ![call[g].job] = Append(@, e)]
        BY <3>2
      <4>2. log'[call[g].job] = Append(log[call[g].job], e) /\ log[call[g].job] \in Seq(Event)
        BY <1>1, <2>1, <4>1
      <4>3. PICK T, U : T = Ahead(g) /\ U = Ahead(g)'
        OBVIOUS
      <4>4. \A i \in DOMAIN Append(log[call[g].job], e) :
               Append(log[call[g].job], e)[i].topic \notin U
        BY <2>2, <2>3, <2>4, <4>1, <4>2, <4>3, LaterNews
      <4>5. QED
        BY <4>2, <4>3, <4>4
    <3>3. QED
      BY <1>7, <3>1, <3>2 DEF Tells
  <2>6. QED
    BY <1>1, <2>1, <2>2, <2>5 DEF Fresh
<1>8. QED
  BY <1>1, <1>2, <1>3, <1>4, <1>5, <1>6, <1>7, PlainSteps

LEMMA ManagerKeepsFresh ==
  ASSUME DispatcherInv, NEW c \in Caller, Manager(c), NEW g \in Goroutine
  PROVE  Fresh(g)'
<1>1. ManagerStep(c) /\ pc' = pc /\ ManagerType
  BY DEF Manager, DispatcherInv, DispatcherType
<1>2. CASE c = g
  BY <1>1, <1>2, OwnStepKeepsFresh
<1>3. CASE c # g
  <2>1. call'[g] = call[g] /\ pc'[g] = pc[g]
    BY <1>1, <1>3, PlainSteps, RollbackSteps, Callers
  <2>2. ASSUME call[g].job \in Job
        PROVE  Untouched(call[g].job)
    BY <1>1, <1>3, <2>2, OthersElsewhere, CancelUntouched, RollbackUntouched, Callers
    DEF Untouched
  <2>3. QED
    BY <2>1, <2>2, FreshElsewhere
<1>4. QED
  BY <1>2, <1>3

-----------------------------------------------------------------------------
(* The news of a Job, and its result and timestamp *)

(* The topics that must not have been heard before t is. *)
After(t) ==
    CASE t = "created" -> {"created", "started", "completed"}
      [] t = "started" -> {"started", "completed"}
      [] t = "completed" -> {"completed"}
      [] OTHER -> {}

LEMMA AppendPrecedes ==
  ASSUME NEW s \in Seq(Event), NEW e \in Event, NEW t, NEW u, t # u, Precedes(s, t, u),
         e.topic = t => \A i \in DOMAIN s : s[i].topic # u
  PROVE  Precedes(Append(s, e), t, u)
<1>1. /\ Len(s) \in Nat /\ DOMAIN s = 1..Len(s) /\ DOMAIN Append(s, e) = 1..(Len(s) + 1)
      /\ \A i \in 1..Len(s) : Append(s, e)[i] = s[i]
      /\ Append(s, e)[Len(s) + 1] = e
  OBVIOUS
<1>2. PICK r : r = Append(s, e)
  OBVIOUS
<1>3. SUFFICES ASSUME NEW i \in 1..(Len(s) + 1), NEW k \in 1..(Len(s) + 1),
                      r[i].topic = t, r[k].topic = u
               PROVE  i < k
  BY <1>1, <1>2 DEF Precedes
<1>4. CASE i \in 1..Len(s) /\ k \in 1..Len(s)
  BY <1>1, <1>2, <1>3, <1>4 DEF Precedes
<1>5. CASE i = Len(s) + 1 /\ k \in 1..Len(s)
  BY <1>1, <1>2, <1>3, <1>5
<1>6. CASE i \in 1..Len(s) /\ k = Len(s) + 1
  BY <1>1, <1>6
<1>7. CASE i = Len(s) + 1 /\ k = Len(s) + 1
  BY <1>1, <1>2, <1>3, <1>7
<1>8. QED
  BY <1>1, <1>4, <1>5, <1>6, <1>7

LEMMA AppendInOrder ==
  ASSUME NEW s \in Seq(Event), NEW e \in Event, InOrder(s),
         \A i \in DOMAIN s : s[i].topic \notin After(e.topic)
  PROVE  InOrder(Append(s, e))
<1>1. /\ Precedes(Append(s, e), "created", "started")
      /\ Precedes(Append(s, e), "created", "completed")
      /\ Precedes(Append(s, e), "started", "completed")
  BY AppendPrecedes DEF InOrder, After
<1>2. ASSUME NEW t \in {"created", "started", "completed"},
             NEW i \in DOMAIN Append(s, e), NEW k \in DOMAIN Append(s, e),
             Append(s, e)[i].topic = t, Append(s, e)[k].topic = t
      PROVE  i = k
  <2>1. /\ Len(s) \in Nat /\ DOMAIN s = 1..Len(s) /\ DOMAIN Append(s, e) = 1..(Len(s) + 1)
        /\ \A n \in 1..Len(s) : Append(s, e)[n] = s[n]
        /\ Append(s, e)[Len(s) + 1] = e
    OBVIOUS
  <2>2. e.topic = t => \A n \in 1..Len(s) : s[n].topic # t
    BY <2>1 DEF After
  <2>3. CASE i \in 1..Len(s) /\ k \in 1..Len(s)
    <3>1. s[i].topic = t /\ s[k].topic = t
      BY <1>2, <2>1, <2>3
    <3>2. QED
      BY <2>1, <2>3, <3>1 DEF InOrder
  <2>4. CASE i = Len(s) + 1 /\ k \in 1..Len(s)
    BY <1>2, <2>1, <2>2, <2>4
  <2>5. CASE i \in 1..Len(s) /\ k = Len(s) + 1
    BY <1>2, <2>1, <2>2, <2>5
  <2>6. CASE i = Len(s) + 1 /\ k = Len(s) + 1
    BY <2>6
  <2>7. QED
    BY <2>1, <2>3, <2>4, <2>5, <2>6
<1>3. QED
  BY <1>1, <1>2 DEF InOrder

(* Nothing that g announces has been announced, nor what comes after it. *)
LEMMA NewsIsDue ==
  ASSUME DispatcherInv, NEW c \in Caller, Tells(c)
  PROVE  \A i \in DOMAIN log[call[c].job] : log[call[c].job][i].topic \notin After(News(c).topic)
<1>1. /\ call[c].at \in {"announce", "publish"} /\ call[c].job \in Job /\ call[c].op \in Announced
  BY DEF Tells, Publishing
<1>2. Fresh(c) /\ call[c].op = OpAt(pc[c]) /\ pc[c] # "running"
  <2>1. call[c].op \notin {"none", "cancel", "rollback"}
    BY <1>1 DEF Announced
  <2>2. Doing(c) /\ Fresh(c) /\ call[c].op = OpAt(pc[c])
    BY <2>1, Dispatches
  <2>3. QED
    BY <1>1, <2>2 DEF Doing
<1>3. After(News(c).topic) \subseteq Ahead(c)
  <2>1. CASE pc[c] = "creating"
    BY <1>1, <1>2, <2>1 DEF Ahead, News, OpAt, After
  <2>2. CASE pc[c] = "starting"
    BY <1>1, <1>2, <2>2 DEF Ahead, News, OpAt, After
  <2>3. CASE pc[c] = "completing"
    BY <1>1, <1>2, <2>3 DEF Ahead, News, OpAt, After
  <2>4. CASE pc[c] = "failing"
    BY <1>1, <1>2, <2>4 DEF Ahead, News, OpAt, After
  <2>5. QED
    BY <1>1, <1>2, <2>1, <2>2, <2>3, <2>4 DEF OpAt, Announced
<1>4. QED
  BY <1>1, <1>2, <1>3 DEF Fresh

(* What an update leaves consistent. *)
LEMMA PatchedConsistent ==
  ASSUME DispatcherInv, NEW c \in Caller, NEW j \in Job, jobs[j] \in JobRecord,
         call[c].op \in OneJob \cup {"create"}, Consistent(j)
  PROVE  Patched(c, j).status \in Closed => Patched(c, j).stamp # "none"
<1>1. jobs[j].status \in Closed => jobs[j].stamp # "none"
  BY DEF Consistent
<1>2. CASE call[c].op = "create"
  BY <1>2 DEF Patched, NewJob, Absent, Closed, Finished, Undone
<1>3. CASE call[c].op = "setRun"
  BY <1>1, <1>3 DEF Patched, JobRecord
<1>4. CASE call[c].op = "start"
  BY <1>4 DEF Patched, JobRecord, Closed, Finished, Undone
<1>5. CASE call[c].op = "complete"
  BY <1>5 DEF Patched, JobRecord
<1>6. CASE call[c].op = "fail"
  BY <1>6 DEF Patched, JobRecord, Closed, Finished, Undone
<1>7. CASE call[c].op = "cancel"
  BY <1>7 DEF Patched, JobRecord
<1>8. QED
  BY <1>2, <1>3, <1>4, <1>5, <1>6, <1>7 DEF OneJob

(* The Jobs after a step, with the news as they were. *)
LEMMA UpdateConsistent ==
  ASSUME DispatcherInv, NEW j \in Job, log'[j] = log[j], Ages(j),
         (jobs[j].status \in Closed => jobs[j].stamp # "none")'
  PROVE  Consistent(j)'
<1>1. Consistent(j)
  BY DEF DispatcherInv
<1>2. (\A i \in DOMAIN log[j] : log[j][i].topic = "completed" => jobs[j].result)'
  <2>1. CASE Exists(j)
    BY <1>1, <2>1 DEF Consistent, Ages
  <2>2. CASE ~Exists(j)
    <3>1. log[j] = <<>>
      BY <1>1, <2>2 DEF Consistent
    <3>2. QED
      BY <3>1
  <2>3. QED
    BY <2>1, <2>2
<1>3. (~Exists(j) => log[j] = <<>>)'
  BY <1>1 DEF Consistent, Ages, Exists
<1>4. InOrder(log[j])'
  BY <1>1 DEF Consistent
<1>5. QED
  BY <1>2, <1>3, <1>4 DEF Consistent

(* The news after a step, with the Jobs as they were. *)
LEMMA NewsConsistent ==
  ASSUME DispatcherInv, jobs' = jobs, NEW k \in Job, Exists(k), NEW e \in Event,
         log' = [log EXCEPT ![k] = Append(@, e)],
         \A i \in DOMAIN log[k] : log[k][i].topic \notin After(e.topic),
         e.topic = "completed" => jobs[k].result, NEW j \in Job
  PROVE  Consistent(j)'
<1>1. Consistent(j) /\ log[j] \in Seq(Event) /\ log \in [Job -> Seq(Event)]
  BY DEF DispatcherInv, DispatcherType, ManagerType, TypeOK
<1>2. CASE j # k
  <2>1. log'[j] = log[j]
    BY <1>1, <1>2
  <2>2. QED
    BY <1>1, <2>1 DEF Consistent, Exists
<1>3. CASE j = k
  <2>1. log'[j] = Append(log[j], e)
    BY <1>1, <1>3
  <2>2. InOrder(Append(log[j], e))
    BY <1>1, <1>3, AppendInOrder DEF Consistent
  <2>3. \A i \in DOMAIN Append(log[j], e) :
           Append(log[j], e)[i].topic = "completed" => jobs[j].result
    <3>1. \A i \in DOMAIN Append(log[j], e) :
             \/ i \in DOMAIN log[j] /\ Append(log[j], e)[i] = log[j][i]
             \/ Append(log[j], e)[i] = e
      BY <1>1
    <3>2. QED
      BY <1>1, <1>3, <3>1 DEF Consistent
  <2>4. QED
    BY <1>1, <1>3, <2>1, <2>2, <2>3 DEF Consistent, Exists
<1>4. QED
  BY <1>2, <1>3

LEMMA SameConsistent ==
  ASSUME DispatcherInv, UNCHANGED <<jobs, log>>, NEW j \in Job
  PROVE  Consistent(j)'
<1>1. Consistent(j)
  BY DEF DispatcherInv
<1>2. QED
  BY <1>1 DEF Consistent, Exists

LEMMA WriteKeepsConsistent ==
  ASSUME DispatcherInv, NEW c \in Caller, Writes(c), NEW i \in Job
  PROVE  Consistent(i)'
<1>1. /\ ManagerType /\ jobs \in [Job -> JobRecord] /\ jobs[i] \in JobRecord /\ Consistent(i)
      /\ Located(c) /\ Ages(i)
  BY WriteAges DEF DispatcherInv, DispatcherType, ManagerType, TypeOK, AllLocated
<1>2. PICK j \in Job : jobs' = [jobs EXCEPT ![j] = Patched(c, j)]
  BY <1>1, WriteEffect
<1>3. log' = log /\ call[c].op \in OneJob \cup {"create"}
  BY <1>1, WriteEffect DEF Located
<1>4. (jobs[i].status \in Closed => jobs[i].stamp # "none")'
  <2>1. CASE i = j
    BY <1>1, <1>2, <1>3, <2>1, PatchedConsistent
  <2>2. CASE i # j
    BY <1>1, <1>2, <2>2 DEF Consistent
  <2>3. QED
    BY <2>1, <2>2
<1>5. QED
  BY <1>1, <1>3, <1>4, UpdateConsistent DEF Consistent

LEMMA PatchKeepsConsistent ==
  ASSUME DispatcherInv, NEW c \in Caller, PatchJob(c), NEW i \in Job
  PROVE  Consistent(i)'
<1>1. /\ ManagerType /\ jobs \in [Job -> JobRecord] /\ jobs[i] \in JobRecord /\ Consistent(i)
      /\ Known(c) /\ Ages(i)
  BY PatchAges DEF DispatcherInv, DispatcherType, ManagerType, TypeOK
<1>2. /\ jobs' = [jobs EXCEPT ![call[c].job] = Undo(c)] /\ log' = log /\ call[c].at = "patch"
      /\ call[c].job \in Job
  BY <1>1, PatchJobType
<1>3. (jobs[i].status \in Closed => jobs[i].stamp # "none")'
  <2>1. CASE i = call[c].job
    <3>1. jobs'[i] = [jobs[i] EXCEPT !.status = Target(c),
                                     !.stamp = IF call[c].seen.stamp = "none"
                                               THEN "rollback" ELSE @]
      BY <1>1, <1>2, <2>1 DEF Undo
    <3>2. jobs'[i].stamp \in {"rollback", jobs[i].stamp}
          /\ (call[c].seen.stamp = "none" => jobs'[i].stamp = "rollback")
      BY ONLY <1>1, <3>1 DEF JobRecord
    <3>3. QED
      BY <1>1, <1>2, <2>1, <3>2 DEF Known
  <2>2. CASE i # call[c].job
    BY <1>1, <1>2, <2>2 DEF Consistent
  <2>3. QED
    BY <2>1, <2>2
<1>4. QED
  BY <1>1, <1>2, <1>3, UpdateConsistent DEF Consistent

LEMMA TellsKeepsConsistent ==
  ASSUME DispatcherInv, NEW c \in Caller, Tells(c), NEW i \in Job
  PROVE  Consistent(i)'
<1>1. CASE log' = log
  BY <1>1, SameConsistent DEF Tells
<1>2. CASE log' # log
  <2>1. PICK e \in Event : /\ e.topic = News(c).topic
                           /\ log' = [log EXCEPT ![call[c].job] = Append(@, e)]
    BY <1>2 DEF Tells
  <2>2. /\ call[c].job \in Job /\ Known(c) /\ Exists(call[c].job) /\ jobs' = jobs
        /\ Publishing(c) /\ call[c].op \in Announced
    BY DEF Tells, DispatcherInv, Known
  <2>3. e.topic = "completed" => jobs[call[c].job].result
    BY <2>1, <2>2 DEF News, Announced, Known
  <2>4. \A n \in DOMAIN log[call[c].job] : log[call[c].job][n].topic \notin After(e.topic)
    BY <2>1, NewsIsDue
  <2>5. QED
    BY <2>1, <2>2, <2>3, <2>4, NewsConsistent
<1>3. QED
  BY <1>1, <1>2

LEMMA LeavesKeepsConsistent ==
  ASSUME DispatcherInv, NEW c \in Caller, Leaves(c), NEW i \in Job
  PROVE  Consistent(i)'
<1>1. CASE log' = log
  BY <1>1, SameConsistent DEF Leaves
<1>2. CASE log' # log
  <2>1. PICK e \in Event : /\ e.topic \in {"cancelled", "rolled_back"}
                           /\ log' = [log EXCEPT ![call[c].job] = Append(@, e)]
    BY <1>2 DEF Leaves
  <2>2. /\ call[c].job \in Job /\ Exists(call[c].job) /\ jobs' = jobs
    BY DEF Leaves, DispatcherInv, Known
  <2>3. After(e.topic) = {} /\ e.topic # "completed"
    BY <2>1 DEF After
  <2>4. QED
    BY <2>1, <2>2, <2>3, NewsConsistent
<1>3. QED
  BY <1>1, <1>2

LEMMA ManagerKeepsConsistent ==
  ASSUME DispatcherInv, NEW c \in Caller, Manager(c), NEW i \in Job
  PROVE  Consistent(i)'
<1>1. ManagerStep(c) /\ ManagerType
  BY DEF Manager, DispatcherInv, DispatcherType
<1>2. UNCHANGED <<jobs, log>> \/ Writes(c) \/ PatchJob(c) \/ Tells(c) \/ Leaves(c)
  <2>1. CASE call[c].op = "rollback"
    BY <1>1, <2>1, RollbackSteps, ListRunType, SkipJobType, VisitJobType
    DEF Errs, Rereads, Ends
  <2>2. CASE call[c].op # "rollback"
    BY <1>1, <2>2, PlainSteps DEF Errs, Reads, Carries
  <2>3. QED
    BY <2>1, <2>2
<1>3. QED
  BY <1>2, SameConsistent, WriteKeepsConsistent, PatchKeepsConsistent, TellsKeepsConsistent,
     LeavesKeepsConsistent

-----------------------------------------------------------------------------
(* A rollback accounts for what it has listed *)

LEMMA AccountedElsewhere ==
  ASSUME DispatcherInv, NEW c \in Roller, call'[c] = call[c], sweep'[c] = sweep[c]
  PROVE  Accounted(c)'
<1>1. Accounted(c)
  BY DEF DispatcherInv
<1>2. /\ InHand(c)' = InHand(c) /\ Listing(c)' = Listing(c) /\ Sorted(c)' = Sorted(c)
      /\ (Sweeping(c)' <=> Sweeping(c))
  BY DEF InHand, Listing, Sorted, Sweeping
<1>3. QED
  BY <1>1, <1>2 DEF Accounted

(* From the list to the loop: everything is still to do. *)
LEMMA ListAccounts ==
  ASSUME DispatcherInv, NEW c \in Roller, c \in Caller, ListRun(c)
  PROVE  Accounted(c)'
<1>1. /\ call'[c].at = "loop" /\ call'[c].run = call[c].run
      /\ sweep'[c].listed = jobs
      /\ sweep'[c].todo = {j \in Job : Exists(j) /\ jobs[j].run = call[c].run}
      /\ sweep'[c].cancelled = {} /\ sweep'[c].rolledBack = {} /\ sweep'[c].skipped = {}
  BY ListRunType DEF DispatcherInv, DispatcherType, NoSweep
<1>2. InHand(c)' = {} /\ Sorted(c)' = {} /\ Listing(c)' = sweep'[c].todo
  BY <1>1 DEF InHand, Sorted, Listing, Exists
<1>3. QED
  BY <1>1, <1>2 DEF Accounted

LEMMA SkipAccounts ==
  ASSUME DispatcherInv, NEW c \in Roller, c \in Caller, NEW j \in Job, SkipJob(c, j)
  PROVE  Accounted(c)'
<1>1. /\ call' = call /\ call[c].at = "loop" /\ j \in sweep[c].todo
      /\ sweep'[c].listed = sweep[c].listed /\ sweep'[c].todo = sweep[c].todo \ {j}
      /\ sweep'[c].cancelled = sweep[c].cancelled /\ sweep'[c].rolledBack = sweep[c].rolledBack
      /\ sweep'[c].skipped = sweep[c].skipped \cup {j}
  BY SkipJobType DEF DispatcherInv, DispatcherType
<1>2. Accounted(c) /\ Sweeping(c)
  BY <1>1 DEF DispatcherInv, Sweeping
<1>3. /\ InHand(c)' = {} /\ InHand(c) = {} /\ Listing(c)' = Listing(c)
      /\ Sorted(c)' = Sorted(c) \cup {j}
  BY <1>1 DEF InHand, Sorted, Listing
<1>4. j \notin Sorted(c) \/ call[c].op # "rollback"
  BY <1>1, <1>2 DEF Accounted
<1>5. QED
  BY <1>1, <1>2, <1>3, <1>4 DEF Accounted, Sorted

LEMMA VisitAccounts ==
  ASSUME DispatcherInv, NEW c \in Roller, c \in Caller, NEW j \in Job, VisitJob(c, j)
  PROVE  Accounted(c)'
<1>1. /\ call[c].at = "loop" /\ j \in sweep[c].todo
      /\ call'[c].at = "reread" /\ call'[c].job = j
      /\ call'[c].op = call[c].op /\ call'[c].run = call[c].run
      /\ sweep'[c].listed = sweep[c].listed /\ sweep'[c].todo = sweep[c].todo \ {j}
      /\ sweep'[c].cancelled = sweep[c].cancelled /\ sweep'[c].rolledBack = sweep[c].rolledBack
      /\ sweep'[c].skipped = sweep[c].skipped
  BY VisitJobType DEF DispatcherInv, DispatcherType
<1>2. Accounted(c) /\ Sweeping(c)
  BY <1>1 DEF DispatcherInv, Sweeping
<1>3. /\ InHand(c)' = {j} /\ InHand(c) = {} /\ Listing(c)' = Listing(c) /\ Sorted(c)' = Sorted(c)
  BY <1>1 DEF InHand, Sorted, Listing
<1>4. QED
  BY <1>1, <1>2, <1>3 DEF Accounted

LEMMA PatchAccounts ==
  ASSUME DispatcherInv, NEW c \in Roller, c \in Caller, PatchJob(c)
  PROVE  Accounted(c)'
<1>1. /\ call[c].at = "patch" /\ call'[c].at = "publish"
      /\ call'[c].op = call[c].op /\ call'[c].run = call[c].run
      /\ sweep'[c].listed = sweep[c].listed /\ sweep'[c].todo = sweep[c].todo
      /\ sweep'[c].skipped = sweep[c].skipped
      /\ \/ /\ sweep'[c].cancelled = sweep[c].cancelled \cup {call[c].job}
            /\ sweep'[c].rolledBack = sweep[c].rolledBack
         \/ /\ sweep'[c].cancelled = sweep[c].cancelled
            /\ sweep'[c].rolledBack = sweep[c].rolledBack \cup {call[c].job}
  BY PatchJobType DEF DispatcherInv, DispatcherType
<1>2. Accounted(c) /\ Sweeping(c)
  BY <1>1 DEF DispatcherInv, Sweeping
<1>3. /\ InHand(c)' = {} /\ InHand(c) = {call[c].job} /\ Listing(c)' = Listing(c)
      /\ Sorted(c)' = Sorted(c) \cup {call[c].job}
  BY <1>1 DEF InHand, Sorted, Listing
<1>4. /\ call[c].op = "rollback" => call[c].job \notin Sorted(c) /\ call[c].job \notin sweep[c].todo
  BY <1>2, <1>3 DEF Accounted
<1>5. QED
  BY <1>1, <1>2, <1>3, <1>4 DEF Accounted, Sorted

(* The other steps sort nothing. *)
LEMMA RestAccounts ==
  ASSUME DispatcherInv, NEW c \in Roller, c \in Caller,
         \/ Errs(c) /\ sweep' = sweep
         \/ Rereads(c) \/ Ends(c) \/ Leaves(c)
  PROVE  Accounted(c)'
<1>1. Accounted(c) /\ sweep' = sweep
  BY DEF DispatcherInv, Rereads, Ends, Leaves
<1>2. CASE Errs(c)
  BY <1>2 DEF Errs, Accounted, Sweeping
<1>3. CASE Rereads(c) \/ Ends(c) \/ Leaves(c)
  <2>1. /\ InHand(c)' = InHand(c) /\ Listing(c)' = Listing(c) /\ Sorted(c)' = Sorted(c)
        /\ Sweeping(c) /\ call'[c].op = call[c].op
        /\ call'[c].at = "returned" => sweep[c].todo = {}
    BY <1>1, <1>3 DEF Rereads, Ends, Leaves, Onward, InHand, Listing, Sorted, Sweeping
  <2>2. QED
    BY <1>1, <2>1 DEF Accounted
<1>4. QED
  BY <1>2, <1>3

LEMMA ManagerKeepsAccounted ==
  ASSUME DispatcherInv, NEW c \in Caller, Manager(c), NEW d \in Roller
  PROVE  Accounted(d)'
<1>1. ManagerStep(c) /\ ManagerType /\ d \in Caller
  BY Callers DEF Manager, DispatcherInv, DispatcherType
<1>2. CASE d # c
  BY <1>1, <1>2, PlainSteps, RollbackSteps, AccountedElsewhere
<1>3. CASE d = c /\ call[c].op = "rollback"
  BY <1>1, <1>3, RollbackSteps, ListAccounts, SkipAccounts, VisitAccounts, PatchAccounts,
     RestAccounts
<1>4. CASE d = c /\ call[c].op # "rollback"
  <2>1. call'[c].op # "rollback"
    BY <1>1, <1>4, PlainSteps, WriteEffect DEF Errs, Reads, Carries, Tells, Onward
  <2>2. QED
    BY <1>4, <2>1 DEF Accounted
<1>5. QED
  BY <1>2, <1>3, <1>4

LEMMA RequestKeepsAccounted ==
  ASSUME DispatcherInv, NEW c \in Caller, Requests(c), NEW d \in Roller
  PROVE  Accounted(d)'
<1>1. CASE d # c
  BY <1>1, Callers, AccountedElsewhere DEF Requests
<1>2. CASE d = c
  BY <1>2, Callers DEF Requests, Accounted, Sweeping
<1>3. QED
  BY <1>1, <1>2

-----------------------------------------------------------------------------
(* The invariant *)

LEMMA DispatcherInvInit == DispatcherInit => DispatcherInv
<1> SUFFICES ASSUME DispatcherInit
             PROVE  DispatcherInv
  OBVIOUS
<1>1. /\ jobs = [j \in Job |-> Absent] /\ log = [j \in Job |-> <<>>]
      /\ call = [c \in Caller |-> Idle] /\ sweep = [c \in Caller |-> NoSweep]
      /\ pc = [g \in Goroutine |-> "waiting"]
  BY DEF DispatcherInit, Init
<1>2. DispatcherType
  BY ManagerTypeInit, DispatcherAssumption DEF DispatcherInit, DispatcherType, PC
<1>3. \A c \in Caller : call[c] = Idle /\ sweep[c] = NoSweep
  BY <1>1
<1>4. Roles
  BY <1>1, <1>3, Callers DEF Roles, Doing, Idle, AtRest
<1>5. \A c \in Caller : Known(c)
  BY <1>3, JobManagerAssumption DEF Known, Idle, NoSweep, Absent, Publishing
<1>6. Owned /\ \A g \in Goroutine : Fresh(g)
  BY <1>3, Callers, JobManagerAssumption DEF Owned, Fresh, Idle
<1>7. ASSUME NEW j \in Job
      PROVE  Consistent(j)
  <2>1. jobs[j] = Absent /\ log[j] = <<>>
    BY <1>1
  <2>2. QED
    BY <2>1 DEF Consistent, InOrder, Precedes, Absent, Closed, Finished, Undone
<1>8. \A c \in Roller : Accounted(c)
  BY <1>3, Callers DEF Accounted, Idle
<1>9. QED
  BY <1>2, <1>4, <1>5, <1>6, <1>7, <1>8 DEF DispatcherInv

LEMMA DispatcherInvStep == DispatcherInv /\ [DispatcherNext]_vars => DispatcherInv'
<1> SUFFICES ASSUME DispatcherInv, [DispatcherNext]_vars
             PROVE  DispatcherInv'
  OBVIOUS
<1>1. ASSUME NEW g \in Goroutine, NEW next \in PC, Turns(g, next)
      PROVE  DispatcherInv'
  <2>1. \A c \in Roller : Accounted(c)'
    BY <1>1, Callers, AccountedElsewhere DEF Turns
  <2>2. \A j \in Job : Consistent(j)'
    BY <1>1, SameConsistent DEF Turns
  <2>3. QED
    BY <1>1, <2>1, <2>2, TurnKeepsType, TurnKeepsRoles, TurnKeepsKnown, TurnKeepsOwned,
       TurnKeepsFresh DEF DispatcherInv
<1>2. ASSUME NEW c \in Caller, Requests(c)
      PROVE  DispatcherInv'
  <2>1. \A j \in Job : Consistent(j)'
    BY <1>2, SameConsistent DEF Requests
  <2>2. QED
    BY <1>2, <2>1, RequestKeepsType, RequestKeepsRoles, RequestKeepsKnown, RequestKeepsOwned,
       RequestKeepsFresh, RequestKeepsAccounted DEF DispatcherInv
<1>3. ASSUME NEW c \in Caller, Manager(c)
      PROVE  DispatcherInv'
  BY <1>3, ManagerKeepsDispatcherType, ManagerKeepsRoles, ManagerKeepsKnown, ManagerKeepsOwned,
     ManagerKeepsFresh, ManagerKeepsConsistent, ManagerKeepsAccounted DEF DispatcherInv
<1>4. ASSUME Restart
      PROVE  DispatcherInv'
  <2>1. \A j \in Job : Consistent(j)'
    BY <1>4, SameConsistent DEF Restart
  <2>2. \A c \in Roller : Accounted(c)'
    BY <1>4, Callers DEF Restart, Accounted, Idle
  <2>3. QED
    BY <1>4, <2>1, <2>2, RestartKeepsType, RestartKeepsRoles, RestartKeepsKnown,
       RestartKeepsOwned, RestartKeepsFresh DEF DispatcherInv
<1>5. ASSUME UNCHANGED vars
      PROVE  DispatcherInv'
  <2>1. /\ UNCHANGED <<jobs, log, call, sweep, pc, restarts>>
    BY <1>5 DEF vars
  <2>2. DispatcherType'
    BY <2>1 DEF DispatcherInv, DispatcherType, ManagerType, TypeOK, AllLocated, Located, ListedStatus
  <2>3. Roles'
    BY <2>1 DEF DispatcherInv, Roles, Doing
  <2>4. \A c \in Caller : Known(c)'
    BY <2>1, KnownElsewhere, NothingAges
  <2>5. Owned'
    BY <2>1, OwnedByLess
  <2>6. \A g \in Goroutine : Fresh(g)'
    BY <2>1, FreshElsewhere DEF Untouched
  <2>7. (\A j \in Job : Consistent(j)') /\ \A c \in Roller : Accounted(c)'
    BY <2>1, SameConsistent, AccountedElsewhere
  <2>8. QED
    BY <2>2, <2>3, <2>4, <2>5, <2>6, <2>7 DEF DispatcherInv
<1>6. QED
  BY <1>1, <1>2, <1>3, <1>4, <1>5, DispatcherCases

LEMMA DispatcherInvariant == DispatcherSpec => []DispatcherInv
  BY DispatcherInvInit, DispatcherInvStep, PTL DEF DispatcherSpec

-----------------------------------------------------------------------------
(***************************************************************************)
(* Every reachable state of the running service has its type: wherever the *)
(* goroutines of dispatcher.go and the gRPC clients are in their calls,    *)
(* and whenever the process dies.                                          *)
(***************************************************************************)
THEOREM DispatcherTypeCorrect == DispatcherSpec => []DispatcherTypeOK
<1>1. DispatcherInv => DispatcherTypeOK
  BY DEF DispatcherInv, DispatcherType, ManagerType, DispatcherTypeOK
<1>2. QED
  BY <1>1, DispatcherInvariant, PTL

(***************************************************************************)
(* However dispatches, cancellations, rollbacks and deaths of the process  *)
(* interleave, a Job of which functions.job.completed has been published   *)
(* has the result: CompleteJob's patch writes both, and no patch of any    *)
(* other caller takes a result back.                                       *)
(***************************************************************************)
THEOREM CompletionHasItsResult == DispatcherSpec => []CompletionHasResult
<1>1. DispatcherInv => CompletionHasResult
  BY DEF DispatcherInv, Consistent, CompletionHasResult
<1>2. QED
  BY <1>1, DispatcherInvariant, PTL

(***************************************************************************)
(* The news of a Job's creation, start and completion is published in this *)
(* order and once: Dispatch makes its calls in order, never repeats one,   *)
(* and is alone with its Job.                                              *)
(***************************************************************************)
THEOREM NewsOrdered == DispatcherSpec => []NewsInOrder
<1>1. DispatcherInv => NewsInOrder
  BY DEF DispatcherInv, Consistent, InOrder, Precedes, NewsInOrder, Before
<1>2. QED
  BY <1>1, DispatcherInvariant, PTL

(***************************************************************************)
(* A Job in a terminal state has its completed_at, although                *)
(* applyRollbackStatus leaves it out on the strength of an earlier read:   *)
(* what it has read as written stays written.                              *)
(***************************************************************************)
THEOREM ClosedStamped == DispatcherSpec => []ClosedHasTimestamp
<1>1. DispatcherInv => ClosedHasTimestamp
  BY DEF DispatcherInv, Consistent, ClosedHasTimestamp
<1>2. QED
  BY <1>1, DispatcherInvariant, PTL

(***************************************************************************)
(* A rollback that succeeds returns every Job that it listed under its run *)
(* in exactly one slice, whatever the other callers do to the Jobs and to  *)
(* their runs meanwhile.                                                   *)
(***************************************************************************)
THEOREM ListAccounted == DispatcherSpec => []ListIsAccountedFor
<1>1. ASSUME DispatcherInv, NEW c \in Roller, call[c].op = "rollback", Returned(c), call[c].ok
      PROVE  /\ Sorted(c) = Listing(c)
             /\ sweep[c].cancelled \cap sweep[c].rolledBack = {}
             /\ sweep[c].skipped \cap (sweep[c].cancelled \cup sweep[c].rolledBack) = {}
  <2>1. Accounted(c) /\ Sweeping(c) /\ InHand(c) = {}
    BY <1>1 DEF DispatcherInv, Returned, Sweeping, InHand
  <2>2. QED
    BY <1>1, <2>1 DEF Accounted, Returned
<1>2. DispatcherInv => ListIsAccountedFor
  BY <1>1 DEF ListIsAccountedFor, Sorted, Listing
<1>3. QED
  BY <1>2, DispatcherInvariant, PTL

(* A client's view of a Job that ages. *)
LEMMA ViewGrows ==
  ASSUME DispatcherInv, NEW j \in Job, Ages(j), Exists(j)
  PROVE  Exists(j)' /\ Grown(jobToProto(j), jobToProto(j)')
  BY DEF Ages, Exists, Grown, jobToProto

LEMMA DispatcherAges ==
  ASSUME DispatcherInv, [DispatcherNext]_vars, NEW j \in Job
  PROVE  Ages(j)
<1>1. CASE jobs' = jobs
  BY <1>1, NothingAges
<1>2. ASSUME NEW c \in Caller, Manager(c)
      PROVE  Ages(j)
  BY <1>2, ManagerAges DEF Manager
<1>3. QED
  BY <1>1, <1>2, DispatcherCases DEF vars, Turns, Requests, Restart

(***************************************************************************)
(* Nothing a client has seen of a Job is erased, for any number of writers *)
(* that patch it between each other's reads and writes: the Job is found   *)
(* again by its ID and by its run, keeps the run and the result, and has a *)
(* completed_at if it had one, though not always the same.                 *)
(***************************************************************************)
THEOREM ViewsGrow == DispatcherSpec => ViewOnlyGrows
<1>1. ASSUME DispatcherInv, [DispatcherNext]_vars
      PROVE  /\ \A j \in Job : \A was \in GetJob(j) : \E is \in GetJob(j)' : Grown(was, is)
             /\ \A r \in Run : \A was \in ListRunJobs(r) :
                   \E is \in ListRunJobs(r)' : is.id = was.id
  <2>1. \A j \in Job : Exists(j) => Exists(j)' /\ Grown(jobToProto(j), jobToProto(j)')
    BY <1>1, DispatcherAges, ViewGrows
  <2>2. ASSUME NEW j \in Job, NEW was \in GetJob(j)
        PROVE  \E is \in GetJob(j)' : Grown(was, is)
    BY <2>1, <2>2 DEF GetJob
  <2>3. ASSUME NEW r \in Run, NEW was \in ListRunJobs(r)
        PROVE  \E is \in ListRunJobs(r)' : is.id = was.id
    <3>1. PICK j \in ListJobs([status |-> NoStatus, run |-> r]) : was = jobToProto(j)
      BY <2>3 DEF ListRunJobs
    <3>2. j \in Job /\ Exists(j) /\ jobs[j].run = r
      BY <2>3, <3>1, JobModelAssumption DEF ListJobs
    <3>3. Exists(j)' /\ jobs'[j].run = r
      BY <1>1, <2>3, <3>2, DispatcherAges, JobModelAssumption DEF Ages, Exists
    <3>4. j \in ListJobs([status |-> NoStatus, run |-> r])'
      BY <3>2, <3>3 DEF ListJobs
    <3>5. jobToProto(j)' \in ListRunJobs(r)' /\ jobToProto(j)'.id = j /\ was.id = j
      BY <3>1, <3>4 DEF ListRunJobs, jobToProto
    <3>6. QED
      BY <3>5
  <2>4. QED
    BY <2>2, <2>3
<1>2. QED
  BY <1>1, DispatcherInvariant, PTL DEF DispatcherSpec, ViewOnlyGrows
================================================================================
