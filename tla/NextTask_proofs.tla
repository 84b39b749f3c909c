---------------------------- MODULE NextTask_proofs ----------------------------
(***************************************************************************)
(* start-pipeline and next-task together, for any processes, runs, tasks,  *)
(* budgets and dependencies: first that the steps of start-pipeline keep   *)
(* its invariant, then those of next-task beside them.                     *)
(***************************************************************************)
EXTENDS NextTask, WellFoundedInduction, TLAPS

-----------------------------------------------------------------------------
(* start-pipeline *)

(* What is known of a budget that was resolved: a pinned one counts, and a 0 comes from
   the payload or the environment. *)
Resolved(s) ==
    /\ starter[s].pinned \in Nat => starter[s].budget = starter[s].pinned
    /\ starter[s].budget = 0 => 0 \in {starter[s].pinned, config.env}

(* What a process has done so far, by where it is: no run before "create", the
   budget it was told by then, a run that is known and its own after it. *)
Progress(s) ==
    /\ starter[s].at \in {"idle", "budget", "create"} => starter[s].minted = NoRun
    /\ starter[s].at = "create" => Resolved(s)
    /\ starter[s].minted # NoRun => starter[s].minted \in DOMAIN runs
    /\ starter[s].at \in {"started", "next", "ok"} =>
          starter[s].run = starter[s].minted /\ starter[s].run # NoRun
    /\ starter[s].at = "next" => starter[s].run \in started

StartInv ==
    /\ StartTypeOK
    /\ HandoverIsAnnounced
    /\ NoSilentOrphan
    /\ ZeroLeavesBudgetToWork
    /\ \A s \in Starter : Progress(s)

LEMMA FaultType ==
  ASSUME StartTypeOK, Fault
  PROVE  faults' \in 0..MaxFaults
  BY StartAssumption DEF StartTypeOK, Fault

(* The four budgets a run may be given, none of them negative. *)
LEMMA ResolvedBudget ==
  ASSUME StartTypeOK, NEW pinned \in PayloadBudgets, NEW agency \in AgencyBudgets \cup {Unset}
  PROVE  /\ resolve_failure_pipeline_budget(pinned, agency) \in Nat
         /\ pinned \in Nat => resolve_failure_pipeline_budget(pinned, agency) = pinned
         /\ resolve_failure_pipeline_budget(pinned, agency) = 0 => 0 \in {pinned, config.env}
<1>1. pinned \in Nat \cup {-1} /\ agency \in Nat \cup {-1} /\ config.env \in Nat \cup {-1}
  BY StartAssumption DEF StartTypeOK, Unset
<1>2. QED
  BY <1>1 DEF resolve_failure_pipeline_budget, BuiltIn

(* One process moves on: what that takes to keep the invariant. *)
LEMMA Moved ==
  ASSUME NEW s \in Starter, NEW p \in Process, StartTypeOK, starter' = [starter EXCEPT ![s] = p]
  PROVE  /\ starter' \in [Starter -> Process]
         /\ starter'[s] = p
         /\ \A q \in Starter \ {s} : starter'[q] = starter[q]
  BY DEF StartTypeOK

LEMMA GotoProcess ==
  ASSUME NEW s \in Starter, NEW at \in At, StartTypeOK, Goto(s, at)
  PROVE  /\ starter' \in [Starter -> Process]
         /\ starter'[s].at = at
         /\ starter'[s].pinned = starter[s].pinned
         /\ starter'[s].budget = starter[s].budget
         /\ starter'[s].run = starter[s].run
         /\ starter'[s].minted = starter[s].minted
         /\ \A q \in Starter \ {s} : starter'[q] = starter[q]
<1>1. starter[s] \in Process
  BY DEF StartTypeOK
<1>2. [starter[s] EXCEPT !.at = at] \in Process
  BY <1>1 DEF Process
<1>3. starter' = [starter EXCEPT ![s] = [starter[s] EXCEPT !.at = at]]
  BY DEF Goto
<1>4. starter'[s] = [starter[s] EXCEPT !.at = at]
  BY <1>2, <1>3, Moved
<1>5. QED
  BY <1>1, <1>2, <1>3, <1>4, Moved DEF Process

(* A process that moves on without a call's effect, and not into a state that
   claims more than was done. *)
LEMMA GotoKeeps ==
  ASSUME StartInv, NEW s \in Starter, NEW at \in At, Goto(s, at),
         UNCHANGED <<config, runs, started, requested>>, faults' \in 0..MaxFaults,
         \/ starter[s].at = "idle" /\ at = "budget"
         \/ starter[s].at \notin {"idle", "ok"} /\ at \in {"error", "died"}
  PROVE  StartInv'
<1> USE DEF StartInv
<1>1. /\ starter' \in [Starter -> Process]
      /\ starter'[s].at = at
      /\ starter'[s].pinned = starter[s].pinned
      /\ starter'[s].budget = starter[s].budget
      /\ starter'[s].run = starter[s].run
      /\ starter'[s].minted = starter[s].minted
      /\ \A q \in Starter \ {s} : starter'[q] = starter[q]
  BY GotoProcess
<1>2. StartTypeOK'
  BY <1>1 DEF StartTypeOK
<1>3. HandoverIsAnnounced'
  BY DEF HandoverIsAnnounced
<1>4. NoSilentOrphan'
  <2>1. \A q \in Starter : starter'[q].minted = starter[q].minted
    BY <1>1
  <2>2. \A q \in Starter : starter[q].at \notin {"idle", "ok"} => starter'[q].at \notin {"idle", "ok"}
    BY <1>1
  <2>3. \A q \in Starter : starter'[q].at = "ok" => starter[q].at = "ok" /\ starter'[q].run = starter[q].run
    BY <1>1
  <2>4. QED
    BY <2>1, <2>2, <2>3 DEF NoSilentOrphan
<1>5. ZeroLeavesBudgetToWork'
  BY <1>1 DEF ZeroLeavesBudgetToWork
<1>6. \A q \in Starter : Progress(q)'
  BY <1>1 DEF Progress, Resolved
<1>7. QED
  BY <1>2, <1>3, <1>4, <1>5, <1>6

LEMMA ResolveBudgetKeeps ==
  ASSUME StartInv, NEW s \in Starter, ResolveBudget(s)
  PROVE  StartInv'
<1> USE DEF StartInv
<1>1. PICK agency \in AgencyBudgets \cup {Unset} :
         starter' = [starter EXCEPT ![s].at = "create",
            ![s].budget = resolve_failure_pipeline_budget(starter[s].pinned, agency)]
  BY DEF ResolveBudget, StartTypeOK
<1> DEFINE b == resolve_failure_pipeline_budget(starter[s].pinned, agency)
           p == [starter[s] EXCEPT !.at = "create", !.budget = b]
<1>2. starter[s] \in Process /\ starter[s].at = "budget"
  BY DEF StartTypeOK, ResolveBudget
<1>3. /\ b \in Nat /\ (starter[s].pinned \in Nat => b = starter[s].pinned)
      /\ b = 0 => 0 \in {starter[s].pinned, config.env}
  BY <1>2, ResolvedBudget DEF Process
<1>4. starter' = [starter EXCEPT ![s] = p]
  BY <1>1
<1> HIDE DEF b
<1>5. /\ p \in Process /\ p.at = "create" /\ p.budget = b
      /\ p.pinned = starter[s].pinned /\ p.run = starter[s].run /\ p.minted = starter[s].minted
  BY <1>2, <1>3 DEF Process, At
<1> HIDE DEF p
<1>6. /\ starter' \in [Starter -> Process] /\ starter'[s] = p
      /\ \A q \in Starter \ {s} : starter'[q] = starter[q]
  BY <1>4, <1>5, Moved
<1>7. UNCHANGED <<config, runs, started, requested>> /\ faults' \in 0..MaxFaults
  BY FaultType DEF ResolveBudget, StartTypeOK
<1>8. StartTypeOK'
  BY <1>6, <1>7 DEF StartTypeOK
<1>9. HandoverIsAnnounced'
  BY <1>7 DEF HandoverIsAnnounced
<1>10. NoSilentOrphan'
  <2>1. \A q \in Starter : starter'[q].minted = starter[q].minted
    BY <1>5, <1>6
  <2>2. \A q \in Starter : starter'[q].at \in {"idle", "ok"} => starter'[q] = starter[q]
    BY <1>5, <1>6
  <2>3. QED
    BY <1>7, <2>1, <2>2 DEF NoSilentOrphan
<1>11. ZeroLeavesBudgetToWork'
  BY <1>5, <1>6, <1>7 DEF ZeroLeavesBudgetToWork
<1>12. \A q \in Starter : Progress(q)'
  BY <1>2, <1>3, <1>5, <1>6, <1>7 DEF Progress, Resolved
<1>13. QED
  BY <1>8, <1>9, <1>10, <1>11, <1>12

(* Work makes a run that nobody had, with the budget of the process. *)
LEMMA CreateKeeps ==
  ASSUME StartInv, NEW s \in Starter, NEW r \in Run, create_workflow_run(s, r)
  PROVE  StartInv'
<1> USE DEF StartInv
<1>1. starter[s] \in Process /\ starter[s].at = "create" /\ r \notin DOMAIN runs /\ r # NoRun
  BY StartAssumption DEF StartTypeOK, create_workflow_run
<1>2. /\ DOMAIN runs' = DOMAIN runs \cup {r}
      /\ runs'[r] = SentBudget(s)
      /\ \A q \in DOMAIN runs : runs'[q] = runs[q]
  BY <1>1 DEF create_workflow_run
<1>3. /\ SentBudget(s) \in Nat \cup {ServerDefault}
      /\ starter[s].pinned > 0 => SentBudget(s) = starter[s].pinned
      /\ starter[s].pinned = 0 => SentBudget(s) = ServerDefault
      /\ SentBudget(s) = ServerDefault => 0 \in {starter[s].pinned, config.env}
  <2>1. /\ starter[s].budget \in Nat /\ starter[s].pinned \in Nat \cup {-1} /\ Resolved(s)
    BY <1>1, StartAssumption DEF Process, Progress, Unset
  <2>2. QED
    BY <2>1 DEF SentBudget, ServerDefault, Resolved
<1>4. PICK p \in Process :
         /\ starter' = [starter EXCEPT ![s] = p]
         /\ p.minted = r /\ p.pinned = starter[s].pinned
         /\ (p.at = "started" /\ p.run = r) \/ p.at = "error"
  <2>1. CASE starter' = [starter EXCEPT ![s].at = "started", ![s].run = r, ![s].minted = r]
    <3> DEFINE p == [starter[s] EXCEPT !.at = "started", !.run = r, !.minted = r]
    <3>1. p \in Process /\ starter' = [starter EXCEPT ![s] = p]
      BY <1>1, <2>1 DEF Process, At
    <3>2. p.minted = r /\ p.pinned = starter[s].pinned /\ p.at = "started" /\ p.run = r
      BY <1>1 DEF Process
    <3> HIDE DEF p
    <3>3. QED
      BY <3>1, <3>2
  <2>2. CASE starter' = [starter EXCEPT ![s].at = "error", ![s].minted = r]
    <3> DEFINE p == [starter[s] EXCEPT !.at = "error", !.minted = r]
    <3>1. p \in Process /\ starter' = [starter EXCEPT ![s] = p]
      BY <1>1, <2>2 DEF Process, At
    <3>2. p.minted = r /\ p.pinned = starter[s].pinned /\ p.at = "error"
      BY <1>1 DEF Process
    <3> HIDE DEF p
    <3>3. QED
      BY <3>1, <3>2
  <2>3. QED
    BY <2>1, <2>2 DEF create_workflow_run
<1>5. /\ starter' \in [Starter -> Process] /\ starter'[s] = p
      /\ \A q \in Starter \ {s} : starter'[q] = starter[q]
  BY <1>4, Moved
<1>6. UNCHANGED <<config, started, requested>> /\ faults' \in 0..MaxFaults
  BY FaultType DEF create_workflow_run, StartTypeOK
<1>7. StartTypeOK'
  BY <1>2, <1>3, <1>5, <1>6 DEF StartTypeOK
<1>8. HandoverIsAnnounced'
  BY <1>2, <1>6 DEF HandoverIsAnnounced
<1>9. starter[s].minted = NoRun
  BY <1>1 DEF Progress
<1>10. NoSilentOrphan'
  <2>1. ASSUME NEW n \in DOMAIN runs'
        PROVE  \E q \in Starter : /\ starter'[q].minted = n
                                  /\ n \in requested' \/ starter'[q].at \notin {"idle", "ok"}
    <3>1. CASE n = r
      BY <1>4, <1>5, <3>1
    <3>2. CASE n # r
      <4>1. n \in DOMAIN runs /\ n # NoRun
        BY <1>2, <3>2, <2>1, StartAssumption DEF StartTypeOK
      <4>2. PICK q \in Starter : /\ starter[q].minted = n
                                 /\ n \in requested \/ starter[q].at \notin {"idle", "ok"}
        BY <4>1 DEF NoSilentOrphan
      <4>3. q # s
        BY <1>9, <4>1, <4>2
      <4>4. starter'[q] = starter[q] /\ requested' = requested
        BY <1>5, <1>6, <4>3
      <4>5. starter'[q].minted = n /\ (n \in requested' \/ starter'[q].at \notin {"idle", "ok"})
        BY <4>2, <4>4
      <4>6. QED
        BY <4>5, Zenon
    <3>3. QED
      BY <3>1, <3>2
  <2>2. \A q \in Starter : starter'[q].at = "ok" => starter'[q].run \in requested'
    BY <1>4, <1>5, <1>6 DEF NoSilentOrphan
  <2>3. QED
    BY <2>1, <2>2 DEF NoSilentOrphan
<1>11. ZeroLeavesBudgetToWork'
  <2> SUFFICES ASSUME NEW q \in Starter, starter'[q].minted # NoRun
               PROVE  LET budget == runs'[starter'[q].minted]
                      IN  /\ starter'[q].pinned > 0 => budget = starter'[q].pinned
                          /\ starter'[q].pinned = 0 => budget = ServerDefault
                          /\ budget = ServerDefault => 0 \in {starter'[q].pinned, config'.env}
    BY DEF ZeroLeavesBudgetToWork
  <2>1. CASE q = s
    BY <1>2, <1>3, <1>4, <1>5, <1>6, <2>1
  <2>2. CASE q # s
    <3>1. starter'[q] = starter[q] /\ starter[q].minted \in DOMAIN runs
      BY <1>5, <2>2 DEF Progress
    <3>2. QED
      BY <1>2, <1>6, <3>1 DEF ZeroLeavesBudgetToWork
  <2>3. QED
    BY <2>1, <2>2
<1>12. \A q \in Starter : Progress(q)'
  <2>1. Progress(s)'
    BY <1>1, <1>2, <1>4, <1>5 DEF Progress
  <2>2. ASSUME NEW q \in Starter \ {s}
        PROVE  Progress(q)'
    <3>1. /\ starter'[q] = starter[q] /\ started' = started /\ config' = config
          /\ DOMAIN runs \subseteq DOMAIN runs'
      BY <1>2, <1>5, <1>6
    <3>2. QED
      BY <3>1 DEF Progress, Resolved
  <2>3. QED
    BY <2>1, <2>2
<1>13. QED
  BY <1>7, <1>8, <1>10, <1>11, <1>12

(* work.pipeline.started is out, known to the function or not. *)
LEMMA PublishStartedKeeps ==
  ASSUME StartInv, NEW s \in Starter, publish_started(s)
  PROVE  StartInv'
<1> USE DEF StartInv
<1>1. PICK at \in {"next", "error"} : Goto(s, at)
  BY DEF publish_started
<1>2. /\ starter[s].at = "started" /\ started' = started \cup {starter[s].run}
      /\ UNCHANGED <<config, runs, requested>> /\ faults' \in 0..MaxFaults
  BY FaultType DEF publish_started, StartTypeOK
<1>3. at \in At
  BY DEF At
<1>4. /\ starter' \in [Starter -> Process]
      /\ starter'[s].at = at
      /\ starter'[s].pinned = starter[s].pinned
      /\ starter'[s].budget = starter[s].budget
      /\ starter'[s].run = starter[s].run
      /\ starter'[s].minted = starter[s].minted
      /\ \A q \in Starter \ {s} : starter'[q] = starter[q]
  BY <1>1, <1>3, GotoProcess
<1>5. starter[s].run = starter[s].minted /\ starter[s].run # NoRun /\ starter[s].run \in DOMAIN runs
  BY <1>2 DEF Progress
<1>6. StartTypeOK'
  BY <1>2, <1>4, <1>5 DEF StartTypeOK
<1>7. HandoverIsAnnounced'
  BY <1>2, <1>5 DEF HandoverIsAnnounced
<1>8. NoSilentOrphan'
  <2>1. \A q \in Starter : starter'[q].minted = starter[q].minted
    BY <1>4
  <2>2. \A q \in Starter : starter'[q].at \in {"idle", "ok"} => starter'[q] = starter[q]
    BY <1>4
  <2>3. QED
    BY <1>2, <2>1, <2>2 DEF NoSilentOrphan
<1>9. ZeroLeavesBudgetToWork'
  BY <1>2, <1>4 DEF ZeroLeavesBudgetToWork
<1>10. \A q \in Starter : Progress(q)'
  BY <1>2, <1>4, <1>5 DEF Progress, Resolved
<1>11. QED
  BY <1>6, <1>7, <1>8, <1>9, <1>10

(* work.next.requested is out, known to the function or not. *)
LEMMA PublishNextKeeps ==
  ASSUME StartInv, NEW s \in Starter, publish_next(s)
  PROVE  StartInv'
<1> USE DEF StartInv
<1>1. PICK at \in {"ok", "error"} : Goto(s, at)
  BY DEF publish_next
<1>2. /\ starter[s].at = "next" /\ requested' = requested \cup {starter[s].run}
      /\ UNCHANGED <<config, runs, started>> /\ faults' \in 0..MaxFaults
  BY FaultType DEF publish_next, StartTypeOK
<1>3. at \in At
  BY DEF At
<1>4. /\ starter' \in [Starter -> Process]
      /\ starter'[s].at = at
      /\ starter'[s].pinned = starter[s].pinned
      /\ starter'[s].budget = starter[s].budget
      /\ starter'[s].run = starter[s].run
      /\ starter'[s].minted = starter[s].minted
      /\ \A q \in Starter \ {s} : starter'[q] = starter[q]
  BY <1>1, <1>3, GotoProcess
<1>5. /\ starter[s].run = starter[s].minted /\ starter[s].run # NoRun
      /\ starter[s].run \in started
  BY <1>2 DEF Progress
<1>6. StartTypeOK'
  BY <1>2, <1>4, <1>5 DEF StartTypeOK
<1>7. HandoverIsAnnounced'
  BY <1>2, <1>5 DEF HandoverIsAnnounced
<1>8. NoSilentOrphan'
  <2>1. ASSUME NEW n \in DOMAIN runs
        PROVE  \E q \in Starter : /\ starter'[q].minted = n
                                  /\ n \in requested' \/ starter'[q].at \notin {"idle", "ok"}
    <3>1. PICK q \in Starter : /\ starter[q].minted = n
                               /\ n \in requested \/ starter[q].at \notin {"idle", "ok"}
      BY DEF NoSilentOrphan
    <3>2. CASE q = s
      <4>1. starter'[q].minted = n /\ n \in requested'
        BY <1>2, <1>4, <1>5, <3>1, <3>2
      <4>2. QED
        BY <4>1
    <3>3. CASE q # s
      <4>1. starter'[q].minted = n /\ (n \in requested' \/ starter'[q].at \notin {"idle", "ok"})
        BY <1>2, <1>4, <3>1, <3>3
      <4>2. QED
        BY <4>1, Zenon
    <3>4. QED
      BY <3>2, <3>3
  <2>2. \A q \in Starter : starter'[q].at = "ok" => starter'[q].run \in requested'
    BY <1>2, <1>4 DEF NoSilentOrphan
  <2>3. QED
    BY <1>2, <2>1, <2>2 DEF NoSilentOrphan
<1>9. ZeroLeavesBudgetToWork'
  BY <1>2, <1>4 DEF ZeroLeavesBudgetToWork
<1>10. \A q \in Starter : Progress(q)'
  BY <1>2, <1>4, <1>5 DEF Progress, Resolved
<1>11. QED
  BY <1>6, <1>7, <1>8, <1>9, <1>10

(***************************************************************************)
(* start-pipeline keeps its invariant, call by call: with every run made   *)
(* and announced in this order, no start of another pipeline and no call   *)
(* that fails, loses its answer or is not made can break it.               *)
(***************************************************************************)
THEOREM StartPipelineKeeps == StartInv /\ StartNext => StartInv'
<1> SUFFICES ASSUME StartInv, StartNext
             PROVE  StartInv'
  OBVIOUS
<1>1. PICK s \in Starter : StarterStep(s)
  BY DEF StartNext
<1>2. CASE BeginStart(s)
  BY <1>2, GotoKeeps DEF BeginStart, At, StartInv, StartTypeOK
<1>3. CASE CallFails(s)
  <2>1. faults' \in 0..MaxFaults
    BY <1>3, FaultType DEF CallFails, StartInv
  <2>2. QED
    BY <1>3, <2>1, GotoKeeps DEF CallFails, At
<1>4. CASE Die(s)
  <2>1. faults' \in 0..MaxFaults
    BY <1>4, FaultType DEF Die, StartInv
  <2>2. QED
    BY <1>4, <2>1, GotoKeeps DEF Die, At
<1>5. QED
  BY <1>1, <1>2, <1>3, <1>4, ResolveBudgetKeeps, CreateKeeps, PublishStartedKeeps, PublishNextKeeps
  DEF StarterStep

LEMMA StartInvInit == StartInit => StartInv
<1> SUFFICES ASSUME StartInit
             PROVE  StartInv
  OBVIOUS
<1>1. \A s \in Starter : /\ starter[s] \in Process /\ starter[s].at = "idle"
                         /\ starter[s].minted = NoRun
  BY DEF StartInit, Process, At
<1>2. StartTypeOK
  BY <1>1, StartAssumption DEF StartInit, StartTypeOK, Process
<1>3. HandoverIsAnnounced /\ ZeroLeavesBudgetToWork /\ NoSilentOrphan
  BY <1>1 DEF StartInit, HandoverIsAnnounced, ZeroLeavesBudgetToWork, NoSilentOrphan
<1>4. \A s \in Starter : Progress(s)
  BY <1>1 DEF Progress
<1>5. QED
  BY <1>2, <1>3, <1>4 DEF StartInv

(* The other components only use up faults. *)
LEMMA OthersKeep ==
  ASSUME StartInv, UNCHANGED <<config, runs, started, requested, starter>>,
         faults' \in 0..MaxFaults
  PROVE  StartInv'
  BY DEF StartInv, StartTypeOK, HandoverIsAnnounced, NoSilentOrphan, ZeroLeavesBudgetToWork,
     Progress, Resolved

-----------------------------------------------------------------------------
(* start-pipeline and next-task *)

LEMMA StepCases ==
  ASSUME Next
  PROVE  \/ Start
         \/ \E t \in Task : Work(t)
         \/ \E k \in Selector :
               \/ \E r \in Run \cup {NoRun} : BeginSelection(k, r)
               \/ list_tasks(k) \/ Pick(k) \/ PassOver(k) \/ CheckFails(k) \/ NothingToDo(k)
               \/ pick_developer_agent(k) \/ assign(k) \/ SelectionFails(k)
  BY DEF Next, SelectorStep

(* Least is the first of a set of tasks. *)
LEMMA LeastTask ==
  ASSUME NEW S \in SUBSET Task, S # {}
  PROVE  Least(S) \in S /\ \A t \in S : Least(S) <= t
<1>1. \E t \in S : \A u \in S : ~(<<u, t>> \in OpToRel(<, Nat))
  <2>1. S \subseteq Nat
    BY SelectAssumption DEF Task
  <2>2. IsWellFoundedOn(OpToRel(<, Nat), Nat)
    BY NatLessThanWellFounded
  <2> HIDE DEF Task
  <2>3. QED
    BY <2>1, <2>2, WFMin
<1>2. \E t \in S : \A u \in S : t <= u
  <2>1. PICK t \in S : \A u \in S : ~(<<u, t>> \in OpToRel(<, Nat))
    BY <1>1
  <2>2. ASSUME NEW u \in S
        PROVE  t <= u
    <3>1. t \in Nat /\ u \in Nat
      BY SelectAssumption DEF Task
    <3>2. ~(u < t)
      BY <2>1, <3>1 DEF OpToRel
    <3>3. QED
      BY <3>1, <3>2
  <2>3. QED
    BY <2>2
<1>3. QED
  BY <1>2 DEF Least

(* The tasks that the local variables p of a selection say can be worked on *)
Satisfied(p, t) == plan[t] \subseteq Task /\ \A u \in plan[t] : p.listed[u] \in TERMINAL
Choices(p) == {t \in Task : p.listed[t] \in INCOMPLETE /\ Satisfied(p, t)} \ p.unread

(* What a selection with the local variables p may rely on: its list is out of date in
   one direction only, its run, if it has one, was handed over and not made after a task
   of its list was done with, what it has not tried yet holds all of its choices, and what
   it picked is the first of them. *)
Sound(p) ==
    /\ \A t \in Task : p.listed[t] \in TERMINAL => status[t] \in TERMINAL
    /\ p.at \in {"list", "check", "agent", "assign"} => p.run \in requested \cup {NoRun}
    /\ p.at = "check" /\ p.run # NoRun => p.todo \cap finished[p.run] = {}
    /\ p.at \in {"agent", "assign"} /\ p.run # NoRun => p.picked \notin finished[p.run]
    /\ p.at = "list" => p.unread = {}
    /\ p.at = "check" => /\ Choices(p) \subseteq p.todo
                         /\ p.todo \cap p.unread = {}
                         /\ \A t \in p.todo : p.listed[t] \in INCOMPLETE
    /\ p.at = "none" => Choices(p) = {}
    /\ p.at \in {"agent", "assign", "selected"} =>
          p.picked \in Choices(p) /\ \A t \in Choices(p) : p.picked <= t

(* What was done with when a run was made still is, and only runs that were handed over
   are assigned tasks. *)
Past ==
    /\ \A r \in DOMAIN runs : \A t \in finished[r] : status[t] \in TERMINAL
    /\ \A t \in Task : assigned[t] \subseteq requested \cup {NoRun}

SelectInv ==
    /\ TypeOK
    /\ StartInv
    /\ \A k \in Selector : Sound(selector[k])
    /\ Past
    /\ AssignedIsUnblocked
    /\ RunTakesOpenTasks

(* Tasks finish and runs are handed over: neither makes a selection less sound. *)
LEMMA SoundStays ==
  ASSUME NEW p, Sound(p), plan' = plan, requested \subseteq requested',
         \A r \in requested : finished'[r] = finished[r],
         \A t \in Task : status[t] \in TERMINAL => status'[t] \in TERMINAL
  PROVE  Sound(p)'
<1>1. Choices(p)' = Choices(p)
  BY DEF Choices, Satisfied
<1>2. QED
  BY <1>1 DEF Sound

(* The invariant of next-task, for a step of one selection that assigns nothing. *)
LEMMA StepKeeps ==
  ASSUME SelectInv, NEW k \in Selector, NEW p \in Selection, Sound(p), Step(k, p),
         UNCHANGED <<assigned>>, UnchangedButSelector,
         faults' \in 0..MaxFaults, selections' \in 0..MaxSelections
  PROVE  SelectInv'
<1> USE DEF SelectInv
<1>1. /\ UNCHANGED <<config, runs, started, requested, starter>>
      /\ UNCHANGED <<plan, status, assigned, finished>>
  BY DEF UnchangedButSelector
<1>2. StartInv'
  BY <1>1, OthersKeep
<1>3. /\ selector' \in [Selector -> Selection] /\ selector'[k] = p
      /\ \A j \in Selector \ {k} : selector'[j] = selector[j]
  BY DEF Step, TypeOK
<1>4. TypeOK'
  BY <1>1, <1>2, <1>3 DEF TypeOK, StartInv
<1>5. \A j \in Selector : Sound(selector[j])'
  <2> SUFFICES ASSUME NEW j \in Selector
               PROVE  Sound(selector[j])'
    OBVIOUS
  <2>1. PICK q : q = selector'[j]
    OBVIOUS
  <2>2. Sound(q)
    BY <1>3, <2>1
  <2>3. Sound(q)'
    BY <1>1, <2>2, SoundStays
  <2>4. QED
    BY <2>1, <2>3 DEF Sound, Choices, Satisfied
<1>6. Past' /\ AssignedIsUnblocked' /\ RunTakesOpenTasks'
  BY <1>1 DEF Past, AssignedIsUnblocked, RunTakesOpenTasks
<1>7. QED
  BY <1>2, <1>4, <1>5, <1>6

(* The local variables of a selection *)
LEMMA SelectionFields ==
  ASSUME SelectInv, NEW k \in Selector
  PROVE  /\ selector[k] \in Selection /\ Sound(selector[k])
         /\ selector[k].listed \in [Task -> Status] /\ selector[k].run \in Run \cup {NoRun}
         /\ selector[k].todo \subseteq Task /\ selector[k].unread \subseteq Task
         /\ selector[k].picked \in Task \cup {NoTask}
  BY DEF SelectInv, TypeOK, Selection

LEMMA BoundsType ==
  ASSUME SelectInv
  PROVE  /\ faults \in 0..MaxFaults /\ (Fault => faults' \in 0..MaxFaults)
         /\ selections \in 0..MaxSelections
  BY FaultType DEF SelectInv, TypeOK, StartTypeOK

LEMMA BeginSelectionKeeps ==
  ASSUME SelectInv, NEW k \in Selector, NEW r \in Run \cup {NoRun}, BeginSelection(k, r)
  PROVE  SelectInv'
<1> DEFINE p == [NoSelection EXCEPT !.at = "list", !.run = r]
<1>1. /\ p \in Selection /\ p.at = "list" /\ p.run = r /\ p.unread = {}
      /\ \A t \in Task : p.listed[t] = "failed"
  BY DEF NoSelection, Selection, Status, INCOMPLETE, TERMINAL
<1>2. Step(k, p) /\ r \in requested \cup {NoRun}
  BY DEF BeginSelection
<1> HIDE DEF p
<1>3. Sound(p)
  BY <1>1, <1>2 DEF Sound, TERMINAL
<1>4. selections' \in 0..MaxSelections
  BY SelectAssumption, BoundsType DEF BeginSelection
<1>5. QED
  BY <1>1, <1>2, <1>3, <1>4, BoundsType, StepKeeps DEF BeginSelection

LEMMA ListKeeps ==
  ASSUME SelectInv, NEW k \in Selector, list_tasks(k)
  PROVE  SelectInv'
<1> DEFINE p == [selector[k] EXCEPT !.at = "check", !.listed = status,
                   !.todo = {t \in Task : status[t] \in INCOMPLETE}]
<1>1. selector[k] \in Selection /\ status \in [Task -> Status] /\ selector[k].at = "list"
  BY DEF SelectInv, TypeOK, list_tasks
<1>2. /\ p \in Selection /\ p.at = "check" /\ p.listed = status /\ p.run = selector[k].run
      /\ p.todo = {t \in Task : status[t] \in INCOMPLETE} /\ p.unread = selector[k].unread
  BY <1>1 DEF Selection
<1>3. Step(k, p)
  BY DEF list_tasks
<1> HIDE DEF p
<1>4. selector[k].unread = {} /\ selector[k].run \in requested \cup {NoRun}
  BY <1>1, SelectionFields DEF Sound
<1>5. Choices(p) \subseteq p.todo
  BY <1>2 DEF Choices
<1>6. ASSUME p.run # NoRun
      PROVE  p.todo \cap finished[p.run] = {}
  <2>1. p.run \in DOMAIN runs
    BY <1>2, <1>4, <1>6 DEF SelectInv, StartInv, HandoverIsAnnounced
  <2>2. \A t \in finished[p.run] : status[t] \notin INCOMPLETE
    BY <2>1 DEF SelectInv, Past, TERMINAL, INCOMPLETE
  <2>3. QED
    BY <1>2, <2>2
<1>7. Sound(p)
  BY <1>2, <1>4, <1>5, <1>6 DEF Sound
<1>8. QED
  BY <1>2, <1>3, <1>7, BoundsType, StepKeeps DEF list_tasks

LEMMA PickKeeps ==
  ASSUME SelectInv, NEW k \in Selector, Pick(k)
  PROVE  SelectInv'
<1> DEFINE first == Candidate(k)
           p == [selector[k] EXCEPT !.at = "agent", !.picked = first]
<1>1. /\ selector[k].at = "check" /\ selector[k].todo # {} /\ Step(k, p)
      /\ deps_satisfied(k, first)
  BY DEF Pick, Checking
<1>2. first \in selector[k].todo /\ \A t \in selector[k].todo : first <= t
  BY <1>1, SelectionFields, LeastTask DEF Candidate
<1>3. first \in Task
  BY <1>2, SelectionFields
<1> HIDE DEF first
<1>4. /\ p \in Selection /\ p.at = "agent" /\ p.picked = first /\ p.listed = selector[k].listed
      /\ p.run = selector[k].run /\ p.unread = selector[k].unread
  BY <1>3, SelectionFields DEF Selection
<1> HIDE DEF p
<1>5. /\ Choices(selector[k]) \subseteq selector[k].todo
      /\ selector[k].todo \cap selector[k].unread = {}
      /\ selector[k].listed[first] \in INCOMPLETE
      /\ selector[k].run \in requested \cup {NoRun}
      /\ selector[k].run # NoRun => first \notin finished[selector[k].run]
  BY <1>1, <1>2, SelectionFields DEF Sound
<1>6. Choices(p) = Choices(selector[k])
  BY <1>4 DEF Choices, Satisfied
<1>7. first \in Choices(p)
  BY <1>1, <1>2, <1>3, <1>4, <1>5 DEF Choices, Satisfied, deps_satisfied
<1>8. \A t \in Choices(p) : first <= t
  BY <1>2, <1>5, <1>6
<1>9. \A t \in Task : p.listed[t] \in TERMINAL => status[t] \in TERMINAL
  BY <1>4, SelectionFields DEF Sound
<1>10. Sound(p)
  BY <1>4, <1>5, <1>7, <1>8, <1>9 DEF Sound
<1>11. QED
  BY <1>1, <1>4, <1>10, BoundsType, StepKeeps DEF Pick

(* A candidate is passed over: because it cannot be worked on, or because that could
   not be found out. *)
LEMMA PassedOverKeeps ==
  ASSUME SelectInv, NEW k \in Selector, PassOver(k) \/ CheckFails(k)
  PROVE  SelectInv'
<1> DEFINE first == Candidate(k)
           unread == IF PassOver(k) THEN selector[k].unread ELSE selector[k].unread \cup {first}
           p == [selector[k] EXCEPT !.todo = @ \ {first}, !.unread = unread]
<1>1. selector[k].at = "check" /\ selector[k].todo # {}
  BY DEF PassOver, CheckFails, Checking
<1>2. first \in Task
  BY <1>1, SelectionFields, LeastTask DEF Candidate
<1>3. Step(k, p)
  <2>1. selector[k] = [selector[k] EXCEPT !.unread = selector[k].unread]
    BY SelectionFields DEF Selection
  <2>2. CASE PassOver(k)
    <3>1. p = [selector[k] EXCEPT !.todo = @ \ {first}]
      BY <2>2, SelectionFields DEF Selection
    <3>2. QED
      BY <2>2, <3>1 DEF PassOver
  <2>3. CASE ~PassOver(k)
    BY <2>3 DEF CheckFails
  <2>4. QED
    BY <2>2, <2>3
<1>4. /\ PassOver(k) => ~deps_satisfied(k, first) /\ unread = selector[k].unread
      /\ ~PassOver(k) => unread = selector[k].unread \cup {first}
  BY DEF PassOver
<1>5. unread \subseteq Task
  BY <1>2, SelectionFields
<1> HIDE DEF first, unread
<1>6. /\ p \in Selection /\ p.at = "check" /\ p.run = selector[k].run
      /\ p.listed = selector[k].listed /\ p.todo = selector[k].todo \ {first} /\ p.unread = unread
  BY <1>1, <1>5, SelectionFields DEF Selection
<1> HIDE DEF p
<1>7. /\ Choices(selector[k]) \subseteq selector[k].todo
      /\ selector[k].todo \cap selector[k].unread = {}
      /\ \A t \in selector[k].todo : selector[k].listed[t] \in INCOMPLETE
      /\ selector[k].run \in requested \cup {NoRun}
      /\ selector[k].run # NoRun => selector[k].todo \cap finished[selector[k].run] = {}
      /\ \A t \in Task : selector[k].listed[t] \in TERMINAL => status[t] \in TERMINAL
  BY <1>1, SelectionFields DEF Sound
<1>8. Choices(p) \subseteq Choices(selector[k]) \ {first}
  BY <1>4, <1>6 DEF Choices, Satisfied, deps_satisfied
<1>9. Sound(p)
  BY <1>4, <1>6, <1>7, <1>8 DEF Sound
<1>10. QED
  BY <1>3, <1>6, <1>9, BoundsType, StepKeeps DEF PassOver, CheckFails

(* A selection moves on with what it has. *)
LEMMA GotoKeepsSelection ==
  ASSUME SelectInv, NEW k \in Selector,
         NEW at \in {"none", "assign", "error"}, Step(k, [selector[k] EXCEPT !.at = at]),
         at = "none" => selector[k].at = "check" /\ selector[k].todo = {},
         at = "assign" => selector[k].at = "agent",
         UNCHANGED <<assigned>>, UnchangedButSelector,
         faults' \in 0..MaxFaults, selections' \in 0..MaxSelections
  PROVE  SelectInv'
<1> DEFINE p == [selector[k] EXCEPT !.at = at]
<1>1. /\ p \in Selection /\ p.at = at /\ p.listed = selector[k].listed
      /\ p.picked = selector[k].picked /\ p.run = selector[k].run
      /\ p.unread = selector[k].unread
  BY SelectionFields DEF Selection
<1> HIDE DEF p
<1>2. Choices(p) = Choices(selector[k])
  BY <1>1 DEF Choices, Satisfied
<1>3. Sound(p)
  BY <1>1, <1>2, SelectionFields DEF Sound
<1>4. Step(k, p)
  BY DEF p
<1>5. QED
  BY <1>1, <1>3, <1>4, StepKeeps

(* The task picked is assigned: what it depends on was done with when it was listed,
   and a task that is done with stays so. *)
LEMMA AssignKeeps ==
  ASSUME SelectInv, NEW k \in Selector, assign(k)
  PROVE  SelectInv'
<1> DEFINE p == [selector[k] EXCEPT !.at = "selected"]
<1>1. /\ p \in Selection /\ p.at = "selected" /\ p.listed = selector[k].listed
      /\ p.picked = selector[k].picked /\ p.run = selector[k].run
      /\ p.unread = selector[k].unread
  BY SelectionFields DEF Selection
<1>2. selector[k].at = "assign" /\ Step(k, p)
  BY DEF assign
<1> HIDE DEF p
<1>3. Choices(p) = Choices(selector[k])
  BY <1>1 DEF Choices, Satisfied
<1>4. Sound(p)
  BY <1>1, <1>2, <1>3, SelectionFields DEF Sound
<1>5. /\ UNCHANGED <<config, runs, started, requested, starter, plan, status, finished, faults,
                       selections>>
      /\ assigned' = [assigned EXCEPT ![selector[k].picked] = @ \cup {selector[k].run}]
  BY DEF assign, UnchangedButSelector
<1>6. /\ selector[k].picked \in Task /\ selector[k].run \in requested \cup {NoRun}
      /\ selector[k].run # NoRun => selector[k].picked \notin finished[selector[k].run]
      /\ plan[selector[k].picked] \subseteq Task
      /\ \A u \in plan[selector[k].picked] : status[u] \in TERMINAL
  BY <1>2, SelectionFields DEF Sound, Choices, Satisfied
<1>7. Past'
  BY <1>5, <1>6 DEF Past, SelectInv, TypeOK
<1>8. AssignedIsUnblocked'
  BY <1>5, <1>6 DEF AssignedIsUnblocked, SelectInv, TypeOK
<1>9. RunTakesOpenTasks'
  BY <1>5, <1>6 DEF RunTakesOpenTasks, SelectInv, TypeOK
<1>10. StartInv'
  <2>1. UNCHANGED <<config, runs, started, requested, starter>> /\ faults' \in 0..MaxFaults
    BY <1>5, BoundsType
  <2>2. QED
    BY <2>1, OthersKeep DEF SelectInv
<1>11. /\ selector' \in [Selector -> Selection] /\ selector'[k] = p
       /\ \A j \in Selector \ {k} : selector'[j] = selector[j]
  BY <1>1, <1>2 DEF Step, SelectInv, TypeOK
<1>12. TypeOK'
  <2>1. assigned' \in [Task -> SUBSET (Run \cup {NoRun})]
    BY <1>5, SelectionFields DEF SelectInv, TypeOK
  <2>2. StartTypeOK'
    BY <1>10 DEF StartInv
  <2>3. QED
    BY <1>5, <1>11, <2>1, <2>2 DEF SelectInv, TypeOK
<1>13. \A j \in Selector : Sound(selector[j])'
  <2> SUFFICES ASSUME NEW j \in Selector
               PROVE  Sound(selector[j])'
    OBVIOUS
  <2>1. PICK q : q = selector'[j]
    OBVIOUS
  <2>2. Sound(q)
    BY <1>4, <1>11, <2>1 DEF SelectInv
  <2>3. Sound(q)'
    BY <1>5, <2>2, SoundStays
  <2>4. QED
    BY <2>1, <2>3 DEF Sound, Choices, Satisfied
<1>14. QED
  BY <1>7, <1>8, <1>9, <1>10, <1>12, <1>13 DEF SelectInv

(* An agent works on a task, or somebody cancels it: a task that is done with stays so. *)
LEMMA WorkKeeps ==
  ASSUME SelectInv, NEW t \in Task, Work(t)
  PROVE  SelectInv'
<1> USE DEF SelectInv
<1>1. UNCHANGED <<config, runs, started, requested, starter, faults, plan, assigned, finished,
                  selector, selections>>
  BY DEF Work, startVars
<1>2. PICK new \in Status : status' = [status EXCEPT ![t] = new]
  BY DEF Work, Status, INCOMPLETE, TERMINAL
<1>3. status[t] \notin TERMINAL
  BY DEF Work, INCOMPLETE, TERMINAL
<1>4. \A u \in Task : status[u] \in TERMINAL => status'[u] \in TERMINAL
  BY <1>2, <1>3 DEF TypeOK
<1>5. StartInv'
  BY <1>1, BoundsType, OthersKeep
<1>6. TypeOK'
  BY <1>1, <1>2, <1>5 DEF TypeOK, StartInv
<1>7. AssignedIsUnblocked'
  BY <1>1, <1>4 DEF AssignedIsUnblocked
<1>8. Past' /\ RunTakesOpenTasks'
  <2>1. \A r \in DOMAIN runs : finished[r] \subseteq Task
    BY <1>1 DEF TypeOK, StartTypeOK
  <2>2. QED
    BY <1>1, <1>4, <2>1 DEF Past, RunTakesOpenTasks
<1>9. \A j \in Selector : Sound(selector[j])'
  <2> SUFFICES ASSUME NEW j \in Selector
               PROVE  Sound(selector[j])'
    OBVIOUS
  <2>1. PICK q : q = selector[j]
    OBVIOUS
  <2>2. Sound(q)'
    BY <1>1, <1>4, <2>1, SoundStays
  <2>3. QED
    BY <1>1, <2>1, <2>2 DEF Sound, Choices, Satisfied
<1>10. QED
  BY <1>5, <1>6, <1>7, <1>8, <1>9

(* start-pipeline makes and hands over runs, and takes none back. *)
LEMMA RunsGrow ==
  ASSUME StartNext
  PROVE  requested \subseteq requested' /\ DOMAIN runs \subseteq DOMAIN runs'
<1>1. PICK s \in Starter : StarterStep(s)
  BY DEF StartNext
<1>2. ASSUME NEW r \in Run, create_workflow_run(s, r)
      PROVE  requested' = requested /\ DOMAIN runs \subseteq DOMAIN runs'
  BY <1>2 DEF create_workflow_run
<1>3. CASE BeginStart(s) \/ ResolveBudget(s) \/ CallFails(s) \/ Die(s)
  BY <1>3 DEF BeginStart, ResolveBudget, CallFails, Die
<1>4. CASE publish_started(s) \/ publish_next(s)
  BY <1>4 DEF publish_started, publish_next
<1>5. QED
  BY <1>1, <1>2, <1>3, <1>4 DEF StarterStep

LEMMA StartKeeps ==
  ASSUME SelectInv, Start
  PROVE  SelectInv'
<1> USE DEF SelectInv
<1>1. StartInv' /\ UNCHANGED <<plan, status, assigned, selector, selections>>
  BY StartPipelineKeeps DEF Start
<1>2. TypeOK'
  <2>1. finished' \in [Run -> SUBSET Task]
    BY DEF Start, Finished, TypeOK
  <2>2. QED
    BY <1>1, <2>1 DEF TypeOK, StartInv
<1>3. AssignedIsUnblocked'
  BY <1>1 DEF AssignedIsUnblocked
<1>4. /\ requested \subseteq requested' /\ DOMAIN runs \subseteq DOMAIN runs'
      /\ requested \subseteq DOMAIN runs /\ DOMAIN runs' \subseteq Run
      /\ \A r \in DOMAIN runs : finished'[r] = finished[r]
      /\ \A r \in DOMAIN runs' \ DOMAIN runs : finished'[r] = Finished
  BY <1>1, RunsGrow DEF Start, StartInv, HandoverIsAnnounced, TypeOK, StartTypeOK
<1>5. Past' /\ RunTakesOpenTasks'
  BY <1>1, <1>4 DEF Past, RunTakesOpenTasks, Finished
<1>6. \A j \in Selector : Sound(selector[j])'
  <2> SUFFICES ASSUME NEW j \in Selector
               PROVE  Sound(selector[j])'
    OBVIOUS
  <2>1. PICK q : q = selector[j]
    OBVIOUS
  <2>2. Sound(q)'
    BY <1>1, <1>4, <2>1, SoundStays
  <2>3. QED
    BY <1>1, <2>1, <2>2 DEF Sound, Choices, Satisfied
<1>7. QED
  BY <1>1, <1>2, <1>3, <1>5, <1>6

LEMMA SelectInvInit == Init => SelectInv
<1> SUFFICES ASSUME Init
             PROVE  SelectInv
  OBVIOUS
<1>1. StartInv
  BY StartInvInit DEF Init
<1>2. NoSelection \in Selection
  BY DEF NoSelection, Selection, Status
<1>3. TypeOK
  BY <1>1, <1>2, SelectAssumption DEF Init, TypeOK, StartInv, Status, INCOMPLETE
<1>4. \A k \in Selector : Sound(selector[k])
  BY DEF Init, Sound, NoSelection, TERMINAL
<1>5. Past /\ AssignedIsUnblocked /\ RunTakesOpenTasks
  BY DEF Init, StartInit, Past, AssignedIsUnblocked, RunTakesOpenTasks
<1>6. QED
  BY <1>1, <1>3, <1>4, <1>5 DEF SelectInv

LEMMA SelectInvStep == SelectInv /\ [Next]_vars => SelectInv'
<1> SUFFICES ASSUME SelectInv, [Next]_vars
             PROVE  SelectInv'
  OBVIOUS
<1>1. CASE \E k \in Selector : NothingToDo(k) \/ pick_developer_agent(k)
  BY <1>1, BoundsType, GotoKeepsSelection DEF NothingToDo, pick_developer_agent
<1>2. CASE \E k \in Selector : SelectionFails(k)
  <2>1. PICK k \in Selector : SelectionFails(k)
    BY <1>2
  <2>2. QED
    BY <2>1, BoundsType, GotoKeepsSelection DEF SelectionFails
<1>3. CASE UNCHANGED vars
  BY <1>3 DEF vars, startVars, SelectInv, TypeOK, StartTypeOK, StartInv, HandoverIsAnnounced,
       NoSilentOrphan, ZeroLeavesBudgetToWork, Progress, Resolved, Sound, Choices, Satisfied,
       Past, AssignedIsUnblocked, RunTakesOpenTasks
<1>4. QED
  BY StepCases, <1>1, <1>2, <1>3, StartKeeps, WorkKeeps, BeginSelectionKeeps, ListKeeps,
     PickKeeps, PassedOverKeeps, AssignKeeps

(***************************************************************************)
(* Everything below follows from SelectInv, which joins the invariants of  *)
(* start-pipeline to what each next-task process may rely on.              *)
(***************************************************************************)
THEOREM SelectInvariant == Spec => []SelectInv
  BY SelectInvInit, SelectInvStep, PTL DEF Spec

(***************************************************************************)
(* Type correctness of start-pipeline, next-task and the store of Work.    *)
(***************************************************************************)
THEOREM TypeCorrect == Spec => []TypeOK
<1>1. SelectInv => TypeOK
  BY DEF SelectInv
<1>2. QED
  BY <1>1, SelectInvariant, PTL

(***************************************************************************)
(* main of start-pipeline makes a run, announces it and hands it over in   *)
(* this order, in every process, whichever call fails.                     *)
(***************************************************************************)
THEOREM HandoverAnnounced == Spec => []HandoverIsAnnounced
<1>1. SelectInv => HandoverIsAnnounced
  BY DEF SelectInv, StartInv
<1>2. QED
  BY <1>1, SelectInvariant, PTL

(***************************************************************************)
(* start-pipeline leaves no run behind without an error or a death: every  *)
(* return "ok" comes after the hand-over.                                  *)
(***************************************************************************)
THEOREM NoOrphan == Spec => []NoSilentOrphan
<1>1. SelectInv => NoSilentOrphan
  BY DEF SelectInv, StartInv
<1>2. QED
  BY <1>1, SelectInvariant, PTL

(***************************************************************************)
(* resolve_failure_pipeline_budget and what create_workflow_run makes of   *)
(* it: a positive pinned budget counts, a 0 leaves the budget to Work and  *)
(* nothing else does.                                                      *)
(***************************************************************************)
THEOREM ZeroBudget == Spec => []ZeroLeavesBudgetToWork
<1>1. SelectInv => ZeroLeavesBudgetToWork
  BY DEF SelectInv, StartInv
<1>2. QED
  BY <1>1, SelectInvariant, PTL

(***************************************************************************)
(* next-task assigns no task before what it depends on is done with, for   *)
(* any number of selections and agents at work at once: what the list says *)
(* is done with is done with still when the assignment is made.            *)
(***************************************************************************)
THEOREM AssignedUnblocked == Spec => []AssignedIsUnblocked
<1>1. SelectInv => AssignedIsUnblocked
  BY DEF SelectInv
<1>2. QED
  BY <1>1, SelectInvariant, PTL

(***************************************************************************)
(* next-task assigns no task under a run that was made after the task was  *)
(* completed or cancelled: the run is handed over, and the tasks listed,   *)
(* after the run was made.                                                 *)
(***************************************************************************)
THEOREM TakesOpenTasks == Spec => []RunTakesOpenTasks
<1>1. SelectInv => RunTakesOpenTasks
  BY DEF SelectInv
<1>2. QED
  BY <1>1, SelectInvariant, PTL

(***************************************************************************)
(* next-task picks the first runnable task of its list and reports "none"  *)
(* only if there is none, reads that failed aside.                         *)
(***************************************************************************)
THEOREM FirstRunnable == Spec => []FirstRunnableIsSelected
<1>1. SelectInv => FirstRunnableIsSelected
  <2> SUFFICES ASSUME SelectInv, NEW k \in Selector
               PROVE  LET choices == Runnable(k) \ selector[k].unread
                      IN  /\ selector[k].at = "none" => choices = {}
                          /\ selector[k].at \in {"agent", "assign", "selected"} =>
                                choices # {} /\ selector[k].picked = Least(choices)
    BY DEF FirstRunnableIsSelected
  <2> DEFINE choices == Runnable(k) \ selector[k].unread
  <2>1. choices = Choices(selector[k])
    BY DEF Runnable, deps_satisfied, Choices, Satisfied
  <2>2. choices \in SUBSET Task
    BY DEF Runnable
  <2> HIDE DEF choices
  <2>3. selector[k].at = "none" => choices = {}
    BY <2>1, SelectionFields DEF Sound
  <2>4. ASSUME selector[k].at \in {"agent", "assign", "selected"}
        PROVE  choices # {} /\ selector[k].picked = Least(choices)
    <3>1. selector[k].picked \in choices /\ \A t \in choices : selector[k].picked <= t
      BY <2>1, <2>4, SelectionFields DEF Sound
    <3>2. Least(choices) \in choices /\ \A t \in choices : Least(choices) <= t
      BY <2>2, <3>1, LeastTask
    <3>3. \A t \in choices : t \in Nat
      BY <2>2, SelectAssumption DEF Task
    <3>4. QED
      BY <3>1, <3>2, <3>3
  <2>5. QED
    BY <2>3, <2>4 DEF choices
<1>2. QED
  BY <1>1, SelectInvariant, PTL
===============================================================================
