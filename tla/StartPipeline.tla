----------------------------- MODULE StartPipeline -----------------------------
(***************************************************************************)
(* start-pipeline: the function that heads a pipeline.  It mints a         *)
(* WorkflowRun, announces it (work.pipeline.started), hands over to        *)
(* next-task (work.next.requested) and reports the run in its result.      *)
(*                                                                         *)
(* CodeValdWork, the agency service and the event bus are external.  A     *)
(* call that fails may have had its effect nevertheless, when it is the    *)
(* answer that was lost; the function does not repeat it.                  *)
(***************************************************************************)
EXTENDS Integers, FiniteSets

CONSTANTS Starter,    \* the start-pipeline processes, one per event
          Run,        \* the WorkflowRun IDs
          NoRun,      \* no run
          PayloadBudgets, AgencyBudgets, EnvBudgets, \* budgets that may be configured
          MaxFaults   \* bound on the calls that fail

\* Not configured, or nothing a budget can be read from
Unset == -1
\* DEFAULT_FAILURE_PIPELINE_BUDGET
BuiltIn == 5
\* No budget in the request: Work chooses one.
ServerDefault == -2

ASSUME StartAssumption == /\ NoRun \notin Run
                          /\ UNION {PayloadBudgets, AgencyBudgets, EnvBudgets} \subseteq
                                Nat \cup {Unset}
                          /\ MaxFaults \in Nat

VARIABLES config,    \* the budgets configured for the agency and the environment
          runs,      \* the runs Work has created, with their budgets
          started,   \* the runs of which work.pipeline.started was published
          requested, \* the runs of which work.next.requested was published
          starter,   \* starter[s]: the local variables of s
          faults     \* the number of calls that have failed

startVars == <<config, runs, started, requested, starter, faults>>
-----------------------------------------------------------------------------
At == {"idle", "budget", "create", "started", "next", "ok", "error", "died"}

\* pinned is the budget of the event's payload; minted, which the function does
\* not know if the answer was lost, is the run Work made for it.
Process == [at : At, pinned : PayloadBudgets, budget : Nat, run : Run \cup {NoRun},
            minted : Run \cup {NoRun}]

StartInit ==
    /\ config \in [agency : AgencyBudgets, env : EnvBudgets]
    /\ runs = [r \in {} |-> ServerDefault]
    /\ started = {}
    /\ requested = {}
    /\ starter \in [Starter -> [at : {"idle"}, pinned : PayloadBudgets, budget : {0},
                                run : {NoRun}, minted : {NoRun}]]
    /\ faults = 0

Fault == faults < MaxFaults /\ faults' = faults + 1
Goto(s, at) == starter' = [starter EXCEPT ![s].at = at]

BeginStart(s) ==
    /\ starter[s].at = "idle"
    /\ Goto(s, "budget")
    /\ UNCHANGED <<config, runs, started, requested, faults>>

\* An agency without a budget counts as well.
resolve_failure_pipeline_budgetUnset(pinned, agency) ==
    IF pinned >= 0 THEN pinned ELSE agency

\* Payload, agency, environment, built-in default: the first that is set counts,
\* and of the agency's only a positive one.
resolve_failure_pipeline_budget(pinned, agency) ==
    CASE pinned >= 0 -> pinned
      [] pinned < 0 /\ agency > 0 -> agency
      [] pinned < 0 /\ agency <= 0 /\ config.env >= 0 -> config.env
      [] OTHER -> BuiltIn

\* An agency that cannot be asked has no budget; it is not asked if the payload
\* pins one.
ResolveBudget(s) ==
    /\ starter[s].at = "budget"
    /\ LET pinned == starter[s].pinned
           Resolved(agency) == starter' = [starter EXCEPT ![s].at = "create",
                                  ![s].budget = resolve_failure_pipeline_budget(pinned, agency)]
       IN  \/ Resolved(config.agency) /\ UNCHANGED faults
           \/ pinned < 0 /\ Fault /\ Resolved(Unset)
    /\ UNCHANGED <<config, runs, started, requested>>

\* A budget of 0 is sent like any other.
SentBudgetEvenZero(s) == starter[s].budget

\* A budget of 0 is not sent.
SentBudget(s) == IF starter[s].budget > 0 THEN starter[s].budget ELSE ServerDefault

\* Work makes a run r; the function learns of it unless the answer is lost.
create_workflow_run(s, r) ==
    /\ starter[s].at = "create"
    /\ r \notin DOMAIN runs
    /\ runs' = [q \in DOMAIN runs \cup {r} |-> IF q = r THEN SentBudget(s) ELSE runs[q]]
    /\ \/ /\ starter' = [starter EXCEPT ![s].at = "started", ![s].run = r, ![s].minted = r]
          /\ UNCHANGED faults
       \/ /\ starter' = [starter EXCEPT ![s].at = "error", ![s].minted = r]
          /\ Fault
    /\ UNCHANGED <<config, started, requested>>

publish_started(s) ==
    /\ starter[s].at = "started"
    /\ started' = started \cup {starter[s].run}
    /\ \/ Goto(s, "next") /\ UNCHANGED faults
       \/ Goto(s, "error") /\ Fault
    /\ UNCHANGED <<config, runs, requested>>

publish_next(s) ==
    /\ starter[s].at = "next"
    /\ requested' = requested \cup {starter[s].run}
    /\ \/ Goto(s, "ok") /\ UNCHANGED faults
       \/ Goto(s, "error") /\ Fault
    /\ UNCHANGED <<config, runs, started>>

\* Publishing is best effort.
CallFailsUnnoticed(s) ==
    /\ starter[s].at \in {"create", "started", "next"}
    /\ Fault
    /\ Goto(s, CASE starter[s].at = "create" -> "error"
                 [] starter[s].at = "started" -> "next"
                 [] starter[s].at = "next" -> "ok")
    /\ UNCHANGED <<config, runs, started, requested>>

\* A call fails without effect: status "error", and nothing is undone.
CallFails(s) ==
    /\ starter[s].at \in {"create", "started", "next"}
    /\ Fault
    /\ Goto(s, "error")
    /\ UNCHANGED <<config, runs, started, requested>>

\* The process is killed.
Die(s) ==
    /\ starter[s].at \in {"budget", "create", "started", "next"}
    /\ Fault
    /\ Goto(s, "died")
    /\ UNCHANGED <<config, runs, started, requested>>

StarterStep(s) ==
    \/ BeginStart(s) \/ ResolveBudget(s) \/ \E r \in Run : create_workflow_run(s, r)
    \/ publish_started(s) \/ publish_next(s) \/ CallFails(s) \/ Die(s)

StartNext == \E s \in Starter : StarterStep(s)
-----------------------------------------------------------------------------
StartTypeOK ==
    /\ config \in [agency : AgencyBudgets, env : EnvBudgets]
    /\ DOMAIN runs \subseteq Run
    /\ \A r \in DOMAIN runs : runs[r] \in Nat \cup {ServerDefault}
    /\ started \subseteq Run
    /\ requested \subseteq Run
    /\ starter \in [Starter -> Process]
    /\ faults \in 0..MaxFaults

(***************************************************************************)
(* Nothing is handed over that was not announced: next-task is asked for   *)
(* tasks of a run only after the run was created and announced, whichever  *)
(* of the calls before it failed or lost its answer.                       *)
(***************************************************************************)
HandoverIsAnnounced == requested \subseteq started /\ started \subseteq DOMAIN runs

(***************************************************************************)
(* No run is left behind in silence: every run is handed over, or still    *)
(* being started, or its start-pipeline has reported an error or died; and *)
(* what is reported "ok" is handed over.                                   *)
(***************************************************************************)
NoSilentOrphan ==
    /\ \A r \in DOMAIN runs : \E s \in Starter :
          /\ starter[s].minted = r
          /\ r \in requested \/ starter[s].at \notin {"idle", "ok"}
    /\ \A s \in Starter : starter[s].at = "ok" => starter[s].run \in requested

(***************************************************************************)
(* The budget of a run is what its operator pinned, if that is positive.   *)
(* A 0 disables nothing: a run for which 0 was pinned has the budget that  *)
(* Work chooses, and Work chooses in no other case but that of a 0 in the  *)
(* environment; also if the agency cannot be asked.  (The code drops the 0 *)
(* that resolve_failure_pipeline_budget says it returns to disable the     *)
(* gate, and takes the 0 of the environment, which it says falls through.) *)
(***************************************************************************)
ZeroLeavesBudgetToWork ==
    \A s \in Starter : starter[s].minted # NoRun =>
        LET budget == runs[starter[s].minted]
        IN  /\ starter[s].pinned > 0 => budget = starter[s].pinned
            /\ starter[s].pinned = 0 => budget = ServerDefault
            /\ budget = ServerDefault => 0 \in {starter[s].pinned, config.env}
===============================================================================
