-------------------------------- MODULE NextTask -------------------------------
(***************************************************************************)
(* next-task: the function that picks the first task that can be worked on *)
(* and assigns it to a developer.  It is started for work.next.requested,  *)
(* for the runs that start-pipeline hands over and for none, and reads the *)
(* tasks, then the dependencies of one task after the other, while the     *)
(* agents work and other next-task processes read the same tasks.          *)
(*                                                                         *)
(* CodeValdWork is external.  Tasks are numbered in the order of their     *)
(* names.  A task that is completed or cancelled stays so.                 *)
(***************************************************************************)
EXTENDS StartPipeline

CONSTANTS T,           \* the number of tasks
          Elsewhere,   \* the ID of a task that is not among the agency's
          Plans,       \* the depends_on relations there may be
          Selector,    \* the next-task processes that can run at once
          MaxSelections \* bound on the number of next-task runs

Task == 1..T
NoTask == 0
INCOMPLETE == {"pending", "in_progress"}
TERMINAL == {"completed", "cancelled"}
Status == INCOMPLETE \cup TERMINAL \cup {"failed"}

ASSUME SelectAssumption == /\ T \in Nat
                           /\ Plans \subseteq [Task -> SUBSET (Task \cup {Elsewhere})]
                           /\ MaxSelections \in Nat

VARIABLES plan,       \* plan[t]: the tasks t depends on
          status,     \* status[t]: the status of t
          assigned,   \* assigned[t]: the runs under which t was assigned
          finished,   \* finished[r]: the tasks done with when r was made (for a property)
          selector,   \* selector[k]: the local variables of k
          selections  \* the number of next-task runs

vars == <<startVars, plan, status, assigned, finished, selector, selections>>
-----------------------------------------------------------------------------
\* listed is what list_tasks returned, todo the tasks not yet tried; unread are the
\* tasks whose dependencies could not be read.
Selection == [at : {"idle", "list", "check", "agent", "assign", "selected", "none", "error"},
              run : Run \cup {NoRun}, listed : [Task -> Status], todo : SUBSET Task,
              picked : Task \cup {NoTask}, unread : SUBSET Task]
NoSelection == [at |-> "idle", run |-> NoRun, listed |-> [t \in Task |-> "failed"],
                todo |-> {}, picked |-> NoTask, unread |-> {}]

Init ==
    /\ StartInit
    /\ plan \in Plans
    /\ status = [t \in Task |-> "pending"]
    /\ assigned = [t \in Task |-> {}]
    /\ finished = [r \in Run |-> {}]
    /\ selector = [k \in Selector |-> NoSelection]
    /\ selections = 0

Least(S) == CHOOSE t \in S : \A u \in S : t <= u
-----------------------------------------------------------------------------
(* CodeValdWork *)

\* An agent takes up the task it was assigned, and finishes or gives up; anyone may
\* cancel a task.
Work(t) ==
    /\ \/ status[t] = "pending" /\ assigned[t] # {} /\ status' = [status EXCEPT ![t] = "in_progress"]
       \/ status[t] = "in_progress" /\ \E new \in {"completed", "failed"} :
                                          status' = [status EXCEPT ![t] = new]
       \/ status[t] \in INCOMPLETE /\ status' = [status EXCEPT ![t] = "cancelled"]
    /\ UNCHANGED <<startVars, plan, assigned, finished, selector, selections>>
-----------------------------------------------------------------------------
(* next-task *)

UnchangedButSelector ==
    UNCHANGED <<config, runs, started, requested, starter, plan, status, finished>>
Step(k, local) == selector' = [selector EXCEPT ![k] = local]

\* A work.next.requested is dispatched, the first time or again: that of run r, or one
\* without a workflow_run_id.
BeginSelection(k, r) ==
    /\ selector[k].at \in {"idle", "selected", "none", "error"}
    /\ selections < MaxSelections
    /\ selections' = selections + 1
    /\ r \in requested \cup {NoRun}
    /\ Step(k, [NoSelection EXCEPT !.at = "list", !.run = r])
    /\ UNCHANGED <<assigned, faults>>
    /\ UnchangedButSelector

\* Whatever the status, the first task is the one to work on.
list_tasksUnfiltered(k) ==
    /\ selector[k].at = "list"
    /\ Step(k, [selector[k] EXCEPT !.at = "check", !.listed = status, !.todo = Task])
    /\ UNCHANGED <<assigned, faults, selections>>
    /\ UnchangedButSelector

list_tasks(k) ==
    /\ selector[k].at = "list"
    /\ Step(k, [selector[k] EXCEPT !.at = "check", !.listed = status,
                   !.todo = {t \in Task : status[t] \in INCOMPLETE}])
    /\ UNCHANGED <<assigned, faults, selections>>
    /\ UnchangedButSelector

\* The task at hand: the first of those not yet tried
Candidate(k) == Least(selector[k].todo)
Checking(k) == selector[k].at = "check" /\ selector[k].todo # {}

\* A dependency on a task that is not listed is taken for satisfied.
deps_satisfiedUnlessListed(k, t) ==
    \A u \in plan[t] \cap Task : selector[k].listed[u] \in TERMINAL

\* Every task it depends on is listed, with a terminal status.
deps_satisfied(k, t) ==
    plan[t] \subseteq Task /\ \A u \in plan[t] : selector[k].listed[u] \in TERMINAL

Pick(k) ==
    /\ Checking(k)
    /\ deps_satisfied(k, Candidate(k))
    /\ Step(k, [selector[k] EXCEPT !.at = "agent", !.picked = Candidate(k)])
    /\ UNCHANGED <<assigned, faults, selections>>
    /\ UnchangedButSelector

PassOver(k) ==
    /\ Checking(k)
    /\ ~deps_satisfied(k, Candidate(k))
    /\ Step(k, [selector[k] EXCEPT !.todo = @ \ {Candidate(k)}])
    /\ UNCHANGED <<assigned, faults, selections>>
    /\ UnchangedButSelector

\* The first check that fails ends the search.
CheckFailsForGood(k) ==
    /\ Checking(k)
    /\ Fault
    /\ Step(k, [selector[k] EXCEPT !.todo = {}, !.unread = @ \cup {Candidate(k)}])
    /\ UNCHANGED <<assigned, selections>>
    /\ UnchangedButSelector

\* Its dependencies cannot be read: the task is passed over.
CheckFails(k) ==
    /\ Checking(k)
    /\ Fault
    /\ Step(k, [selector[k] EXCEPT !.todo = @ \ {Candidate(k)},
                                   !.unread = @ \cup {Candidate(k)}])
    /\ UNCHANGED <<assigned, selections>>
    /\ UnchangedButSelector

NothingToDo(k) ==
    /\ selector[k].at = "check"
    /\ selector[k].todo = {}
    /\ Step(k, [selector[k] EXCEPT !.at = "none"])
    /\ UNCHANGED <<assigned, faults, selections>>
    /\ UnchangedButSelector

pick_developer_agent(k) ==
    /\ selector[k].at = "agent"
    /\ Step(k, [selector[k] EXCEPT !.at = "assign"])
    /\ UNCHANGED <<assigned, faults, selections>>
    /\ UnchangedButSelector

\* The task may have an assignee, and may have moved on since it was listed; it is
\* assigned all the same.  (Without a run, Work leaves the run of the task alone.)
assign(k) ==
    /\ selector[k].at = "assign"
    /\ assigned' = [assigned EXCEPT ![selector[k].picked] = @ \cup {selector[k].run}]
    /\ Step(k, [selector[k] EXCEPT !.at = "selected"])
    /\ UNCHANGED <<faults, selections>>
    /\ UnchangedButSelector

\* The tasks cannot be listed, there is no developer, the assignment is refused.
SelectionFails(k) ==
    /\ selector[k].at \in {"list", "agent", "assign"}
    /\ Fault
    /\ Step(k, [selector[k] EXCEPT !.at = "error"])
    /\ UNCHANGED <<assigned, selections>>
    /\ UnchangedButSelector

SelectorStep(k) ==
    \/ list_tasks(k) \/ Pick(k) \/ PassOver(k) \/ CheckFails(k) \/ NothingToDo(k)
    \/ pick_developer_agent(k) \/ assign(k) \/ SelectionFails(k)

Finished == {t \in Task : status[t] \in TERMINAL}

Start ==
    /\ StartNext
    /\ finished' = [r \in Run |-> IF r \in DOMAIN runs' \ DOMAIN runs THEN Finished
                                                                   ELSE finished[r]]
    /\ UNCHANGED <<plan, status, assigned, selector, selections>>

Next ==
    \/ Start
    \/ \E t \in Task : Work(t)
    \/ \E k \in Selector : SelectorStep(k) \/ \E r \in Run \cup {NoRun} : BeginSelection(k, r)

Spec == Init /\ [][Next]_vars
-----------------------------------------------------------------------------
TypeOK ==
    /\ StartTypeOK
    /\ plan \in Plans
    /\ status \in [Task -> Status]
    /\ assigned \in [Task -> SUBSET (Run \cup {NoRun})]
    /\ finished \in [Run -> SUBSET Task]
    /\ selector \in [Selector -> Selection]
    /\ selections \in 0..MaxSelections

(***************************************************************************)
(* No task is assigned before what it depends on is completed or           *)
(* cancelled, although the dependencies are checked against a list of      *)
(* statuses read earlier and several selections run at once.               *)
(***************************************************************************)
AssignedIsUnblocked ==
    \A t \in Task : assigned[t] # {} =>
        plan[t] \subseteq Task /\ \A u \in plan[t] : status[u] \in TERMINAL

(***************************************************************************)
(* The choice is the right one for the tasks as listed: the first, by      *)
(* name, of the incomplete tasks whose dependencies are met; "none" only   *)
(* if there is no such task, but for those whose dependencies could not be *)
(* read.                                                                   *)
(***************************************************************************)
Runnable(k) ==
    {t \in Task : selector[k].listed[t] \in INCOMPLETE /\ deps_satisfied(k, t)}
FirstRunnableIsSelected ==
    \A k \in Selector :
        LET choices == Runnable(k) \ selector[k].unread
        IN  /\ selector[k].at = "none" => choices = {}
            /\ selector[k].at \in {"agent", "assign", "selected"} =>
                  choices # {} /\ selector[k].picked = Least(choices)

(***************************************************************************)
(* The runs are worked off on open tasks: a run is given no task that was  *)
(* completed or cancelled before the run was made, however long its events *)
(* wait, however old the list of tasks is and however often a task is      *)
(* assigned.  (Only the list is looked at: a task that has an assignee, or *)
(* that was finished since it was listed, is assigned again.)              *)
(***************************************************************************)
RunTakesOpenTasks ==
    \A t \in Task : \A r \in assigned[t] \ {NoRun} : t \notin finished[r]
===============================================================================
