---------------------------- MODULE CompileFlutter -----------------------------
(***************************************************************************)
(* compile-flutter: the function that finds the branch of a completed      *)
(* task, clones it, checks the clone against the files that the event log  *)
(* tells of, and analyses it.                                              *)
(*                                                                         *)
(* The git service is external.  A tree of a branch is the number of its   *)
(* commits; git serves a branch with a delay, so a clone may be behind the *)
(* git.file.written events.  The event log is external too, and tells less *)
(* than was written: see pubsub_expected_paths.  The function is one       *)
(* goroutine's child process: compilations share nothing but git, and one  *)
(* at a time shows all they do.                                            *)
(***************************************************************************)
EXTENDS Naturals, Sequences, FiniteSets, SequencesExt

CONSTANTS Feature,     \* the branches beside main
          Main,        \* main
          NoBranch,    \* the empty branch name
          Listings,    \* what git may list: branches, in some order
          Tasks,       \* the tasks that may have been completed
          MaxCommits,  \* bound on the commits per branch
          MaxCompiles, \* bound on the compilations
          MaxFaults    \* bound on the calls that fail

Branch == Feature \cup {Main}

\* What there is to know of a task: its branchName, the branches whose names
\* contain its task code, and the branch called task/{task_id}.
TaskRecord == [branchName : Branch \cup {NoBranch}, mentioned : SUBSET Feature,
               own : Feature \cup {NoBranch}]

ASSUME CompileAssumption == /\ {Main, NoBranch} \cap Feature = {}
                            /\ Main # NoBranch
                            /\ Listings \subseteq Seq(Branch)
                            /\ Tasks \subseteq TaskRecord
                            /\ MaxCommits \in Nat \ {0}
                            /\ {MaxCompiles, MaxFaults} \subseteq Nat

VARIABLES task,     \* the task that was completed
          listing,  \* the branches as git lists them
          written,  \* written[b]: the commits on b
          served,   \* served[b]: the commits in a clone of b
          clean,    \* the trees <<b, n>> that compile
          compile,  \* the local variables of the compilation under way
          results,  \* the results of the Jobs completed by compile-flutter
          compiles, \* the number of compilations begun
          faults    \* the number of calls that have failed

gitVars == <<written, served, clean>>
compileVars == <<task, listing, gitVars, compile, results, compiles, faults>>
-----------------------------------------------------------------------------
\* declared: the files the event log has told of, each by the commit it came with.
Compile == [at : {"idle", "task", "branches", "clone", "events", "reclone", "analyse"},
            known : TaskRecord, branch : Branch \cup {NoBranch}, tree : Nat,
            declared : SUBSET Nat]

\* A result names the branch and not the tree; that, and what the tree was checked
\* against, is kept for the properties.
Result == [branch : Branch, status : {"ok", "issues-found", "infrastructure-error"},
           tree : Nat, declared : SUBSET Nat]

Unknown == [branchName |-> NoBranch, mentioned |-> {}, own |-> NoBranch]
NoCompile == [at |-> "idle", known |-> Unknown, branch |-> NoBranch, tree |-> 0,
              declared |-> {}]

CompileInit ==
    /\ task \in Tasks
    /\ listing \in Listings
    /\ written = [b \in Branch |-> 1]
    /\ served = [b \in Branch |-> 1]
    /\ clean \in SUBSET {<<b, 1>> : b \in Feature}
    /\ compile = NoCompile
    /\ results = {}
    /\ compiles = 0
    /\ faults = 0

Fault == faults < MaxFaults /\ faults' = faults + 1
-----------------------------------------------------------------------------
(* Git *)

\* A commit on a feature branch, with files that compile or do not.
Push(b) ==
    /\ b \in Feature /\ Contains(listing, b)
    /\ written[b] < MaxCommits
    /\ written' = [written EXCEPT ![b] = @ + 1]
    /\ \E fine \in BOOLEAN :
          clean' = IF fine THEN clean \cup {<<b, written'[b]>>} ELSE clean
    /\ UNCHANGED <<task, listing, served, compile, results, compiles, faults>>

\* The commits that have been announced are served.
Flush(b) ==
    /\ served[b] < written[b]
    /\ served' = [served EXCEPT ![b] = written[b]]
    /\ UNCHANGED <<task, listing, written, clean, compile, results, compiles, faults>>
-----------------------------------------------------------------------------
(* compile-flutter *)

UnchangedButCompile == UNCHANGED <<task, listing, gitVars, results, compiles>>

BeginCompile ==
    /\ compile.at = "idle"
    /\ compiles < MaxCompiles
    /\ compiles' = compiles + 1
    /\ compile' = [NoCompile EXCEPT !.at = "task"]
    /\ UNCHANGED <<task, listing, gitVars, results, faults>>

\* The name and the branch of the task; the function goes on without them.
LookUpTask ==
    /\ compile.at = "task"
    /\ \/ compile' = [compile EXCEPT !.at = "branches", !.known = task] /\ UNCHANGED faults
       \/ /\ Fault
          /\ compile' = [compile EXCEPT !.at = "branches",
                                        !.known = [Unknown EXCEPT !.own = task.own]]
    /\ UnchangedButCompile

\* Only the explicit branch of the task needs no listing.
Named(t) == t.branchName \notin {NoBranch, Main}

FirstMention(t, i) ==
    /\ listing[i] \in t.mentioned
    /\ \A k \in 1..(i - 1) : listing[k] \notin t.mentioned

\* b is the first branch listed that mentions the task code, or if none does
\* task/{task_id}, or main.
Listed(t, b) ==
    \/ \E i \in DOMAIN listing : FirstMention(t, i) /\ b = listing[i]
    \/ /\ \A i \in DOMAIN listing : listing[i] \notin t.mentioned
       /\ b = IF Contains(listing, t.own) THEN t.own ELSE Main

BranchFound(b) == compile' = [compile EXCEPT !.at = "clone", !.branch = b]

find_branch ==
    /\ compile.at = "branches"
    /\ \/ Named(compile.known) /\ BranchFound(compile.known.branchName) /\ UNCHANGED faults
       \/ /\ ~Named(compile.known)
          /\ \E b \in Branch : Listed(compile.known, b) /\ BranchFound(b)
          /\ UNCHANGED faults
       \/ ~Named(compile.known) /\ Fault /\ BranchFound(Main)
    /\ UnchangedButCompile

Clone ==
    /\ compile.at = "clone"
    /\ Contains(listing, compile.branch)
    /\ compile' = [compile EXCEPT !.at = "events", !.tree = served[compile.branch]]
    /\ UNCHANGED faults
    /\ UnchangedButCompile

\* git clone fails, at the latest if there is no such branch: status "error", exit
\* code 1, and the Job has no result.
CloneFails ==
    /\ compile.at \in {"clone", "reclone"}
    /\ Fault \/ (~Contains(listing, compile.branch) /\ UNCHANGED faults)
    /\ compile' = NoCompile
    /\ UnchangedButCompile

\* The files told of that a tree has not got: they came with a later commit.
missing_from_tree(files, tree) == {n \in files : n > tree}

\* The log may tell of any of the files on the branch and of none: it is asked for
\* what is younger than the task (or than an hour), for 500 events of all branches,
\* events whose payload cannot be parsed are skipped, a query that fails counts as
\* one without events, and a commit to an existing path is told from no other.
pubsub_expected_paths ==
    /\ compile.at = "events"
    /\ \E files \in SUBSET (1..written[compile.branch]) :
          compile' = [compile EXCEPT !.declared = files,
                                     !.at = IF missing_from_tree(files, compile.tree) # {}
                                            THEN "reclone" ELSE "analyse"]
    /\ UNCHANGED faults
    /\ UnchangedButCompile

Return(status, tree) ==
    /\ results' = results \cup
          {[branch |-> compile.branch, status |-> status, tree |-> tree,
            declared |-> compile.declared]}
    /\ compile' = NoCompile
    /\ UNCHANGED <<task, listing, gitVars, compiles, faults>>

\* The second clone is taken for complete.
RecloneUnchecked ==
    /\ compile.at = "reclone"
    /\ compile' = [compile EXCEPT !.at = "analyse", !.tree = served[compile.branch]]
    /\ UNCHANGED faults
    /\ UnchangedButCompile

\* The clone is behind the events: it is repeated once, after two seconds.
Reclone ==
    /\ compile.at = "reclone"
    /\ LET tree == served[compile.branch]
           missing == missing_from_tree(compile.declared, tree)
       IN  \/ /\ missing = {}
              /\ compile' = [compile EXCEPT !.at = "analyse", !.tree = tree]
              /\ UNCHANGED faults
              /\ UnchangedButCompile
           \/ missing # {} /\ Return("infrastructure-error", tree)

\* The issues are reported under a status of their own.
AnalyseUndocumented ==
    /\ compile.at = "analyse"
    /\ Return(IF compile.branch = Main \/ <<compile.branch, compile.tree>> \in clean
              THEN "ok" ELSE "issues", compile.tree)

\* flutter analyze, and check_imports on the same tree (main is never merged, so
\* the verdict on it does not matter)
Analyse ==
    /\ compile.at = "analyse"
    /\ Return(IF compile.branch = Main \/ <<compile.branch, compile.tree>> \in clean
              THEN "ok" ELSE "issues-found", compile.tree)

CompileStep ==
    \/ BeginCompile \/ LookUpTask \/ find_branch \/ Clone \/ CloneFails
    \/ pubsub_expected_paths \/ Reclone \/ Analyse

CompileNext == CompileStep \/ \E b \in Branch : Push(b) \/ Flush(b)
-----------------------------------------------------------------------------
CompileTypeOK ==
    /\ task \in Tasks
    /\ listing \in Listings
    /\ written \in [Branch -> 1..MaxCommits]
    /\ served \in [Branch -> 1..MaxCommits]
    /\ clean \subseteq Feature \X (1..MaxCommits)
    /\ compile \in Compile
    /\ results \subseteq Result
    /\ compiles \in 0..MaxCompiles
    /\ faults \in 0..MaxFaults

(***************************************************************************)
(* No verdict against the event log: what is reported "ok" or              *)
(* "issues-found" is the verdict on a tree with every file the log told    *)
(* this compilation of, although git serves commits at any time between    *)
(* the clone, the query and the second clone.  It is not a verdict on an   *)
(* up-to-date tree: a stale one passes when the log leaves out the files   *)
(* it lacks, or when it lacks only a commit to paths that it has.          *)
(***************************************************************************)
VerdictOnDeclaredTree ==
    \A r \in results :
        r.status # "infrastructure-error" => missing_from_tree(r.declared, r.tree) = {}
===============================================================================
