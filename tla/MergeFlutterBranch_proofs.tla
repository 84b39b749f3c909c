------------------------ MODULE MergeFlutterBranch_proofs ------------------------
(***************************************************************************)
(* compile-flutter and merge-flutter-branch for any branches, tasks and    *)
(* listings, any number of compilations, merges and failing calls.         *)
(***************************************************************************)
EXTENDS MergeFlutterBranch, TLAPS

-----------------------------------------------------------------------------
(* The inductive invariant *)

(* What the compilation under way has found out. *)
Progress ==
    /\ compile.at \in {"clone", "events", "reclone", "analyse"} => compile.branch \in Branch
    /\ compile.at = "analyse" => missing_from_tree(compile.declared, compile.tree) = {}

(* What a result stands for. *)
Complete(r) == r.status # "infrastructure-error" => missing_from_tree(r.declared, r.tree) = {}
FreeOfErrors(r) == r.status = "ok" /\ r.branch # Main => <<r.branch, r.tree>> \in clean

(* What a merge goes by. *)
Entitled(m) ==
    /\ merge[m].at # "idle" => merge[m].result \in results
    /\ merge[m].at \in {"feature head", "main head", "merge"} => WorthMerging(merge[m].result)

MergeInv ==
    /\ TypeOK
    /\ Progress
    /\ \A r \in results : Complete(r) /\ FreeOfErrors(r)
    /\ \A m \in Merger : Entitled(m)
    /\ MergedBranchWasClean

-----------------------------------------------------------------------------
(* The steps of compile-flutter *)

LEMMA Branches == /\ Main \in Branch /\ Feature \subseteq Branch /\ NoBranch \notin Feature
                  /\ Main \notin Feature /\ NoBranch # Main
  BY CompileAssumption DEF Branch

(* What a step of compile-flutter may do. *)
Compiles ==
    /\ UNCHANGED <<task, listing, gitVars>>
    /\ compile' \in Compile /\ Progress' /\ compiles' \in 0..MaxCompiles
    /\ faults' \in 0..MaxFaults
    /\ results \subseteq results'
    /\ \A r \in results' \ results : r \in Result /\ Complete(r) /\ FreeOfErrors(r)

LEMMA NoCompileType == NoCompile \in Compile /\ Unknown \in TaskRecord
<1>1. Unknown \in TaskRecord
  BY DEF Unknown, TaskRecord
<1>2. QED
  BY <1>1 DEF NoCompile, Compile

LEMMA FaultType ==
  ASSUME TypeOK, Fault \/ UNCHANGED faults
  PROVE  faults' \in 0..MaxFaults
  BY CompileAssumption DEF TypeOK, CompileTypeOK, Fault

LEMMA BeginCompileCompiles == ASSUME MergeInv, BeginCompile PROVE Compiles
<1>1. compile' = [NoCompile EXCEPT !.at = "task"] /\ UNCHANGED <<task, listing, gitVars, results, faults>>
  BY DEF BeginCompile
<1>2. compile' \in Compile /\ compile'.at = "task"
  BY <1>1, NoCompileType DEF Compile, NoCompile
<1>3. compiles' \in 0..MaxCompiles
  BY CompileAssumption DEF BeginCompile, MergeInv, TypeOK, CompileTypeOK
<1>4. QED
  BY <1>1, <1>2, <1>3 DEF Compiles, Progress, MergeInv, TypeOK, CompileTypeOK

LEMMA LookUpTaskCompiles == ASSUME MergeInv, LookUpTask PROVE Compiles
<1>1. /\ compile \in Compile /\ task \in TaskRecord /\ Progress /\ compile.at = "task"
      /\ UNCHANGED <<task, listing, gitVars, results, compiles>> /\ (Fault \/ UNCHANGED faults)
  BY CompileAssumption DEF MergeInv, TypeOK, CompileTypeOK, LookUpTask, UnchangedButCompile
<1>2. PICK known \in TaskRecord :
         compile' = [compile EXCEPT !.at = "branches", !.known = known]
  <2>1. [Unknown EXCEPT !.own = task.own] \in TaskRecord
    BY <1>1, NoCompileType DEF TaskRecord
  <2>2. QED
    BY <1>1, <2>1 DEF LookUpTask
<1>3. compile' \in Compile /\ compile'.at = "branches"
  BY <1>1, <1>2 DEF Compile
<1>4. QED
  BY <1>1, <1>3, FaultType DEF Compiles, Progress, MergeInv, TypeOK, CompileTypeOK

LEMMA FindBranchCompiles == ASSUME MergeInv, find_branch PROVE Compiles
<1>1. /\ compile \in Compile /\ Progress /\ compile.at = "branches"
      /\ UNCHANGED <<task, listing, gitVars, results, compiles>> /\ (Fault \/ UNCHANGED faults)
      /\ compile.known \in TaskRecord
  BY DEF MergeInv, TypeOK, CompileTypeOK, find_branch, UnchangedButCompile, Compile
<1>2. PICK b \in Branch : BranchFound(b)
  <2>1. Named(compile.known) => compile.known.branchName \in Branch
    BY <1>1 DEF Named, TaskRecord
  <2>2. QED
    BY <2>1, Branches DEF find_branch
<1>3. compile' = [compile EXCEPT !.at = "clone", !.branch = b]
  BY <1>2 DEF BranchFound
<1>4. compile' \in Compile /\ compile'.at = "clone" /\ compile'.branch = b
  BY <1>1, <1>3 DEF Compile
<1>5. Progress'
  BY <1>2, <1>4 DEF Progress
<1>6. QED
  BY <1>1, <1>4, <1>5, FaultType DEF Compiles, MergeInv, TypeOK, CompileTypeOK

LEMMA CloneCompiles == ASSUME MergeInv, Clone PROVE Compiles
<1>1. /\ compile \in Compile /\ Progress /\ compile.at = "clone"
      /\ UNCHANGED <<task, listing, gitVars, results, compiles, faults>>
      /\ served \in [Branch -> 1..MaxCommits]
  BY DEF MergeInv, TypeOK, CompileTypeOK, Clone, UnchangedButCompile
<1>2. served[compile.branch] \in Nat
  BY <1>1, CompileAssumption DEF Progress
<1>3. compile' = [compile EXCEPT !.at = "events", !.tree = served[compile.branch]]
  BY DEF Clone
<1>4. /\ compile' \in Compile /\ compile'.at = "events" /\ compile'.branch = compile.branch
  BY <1>1, <1>2, <1>3 DEF Compile
<1>5. Progress'
  BY <1>1, <1>4 DEF Progress
<1>6. QED
  BY <1>1, <1>4, <1>5, FaultType DEF Compiles, MergeInv, TypeOK, CompileTypeOK

LEMMA CloneFailsCompiles == ASSUME MergeInv, CloneFails PROVE Compiles
<1>1. /\ UNCHANGED <<task, listing, gitVars, results, compiles>> /\ (Fault \/ UNCHANGED faults)
      /\ compile' = NoCompile
  BY DEF CloneFails, UnchangedButCompile
<1>2. Progress'
  BY <1>1 DEF Progress, NoCompile
<1>3. QED
  BY <1>1, <1>2, NoCompileType, FaultType DEF Compiles, MergeInv, TypeOK, CompileTypeOK

LEMMA ExpectedPathsCompiles == ASSUME MergeInv, pubsub_expected_paths PROVE Compiles
<1>1. /\ compile \in Compile /\ compile.at = "events" /\ compile.branch \in Branch
      /\ UNCHANGED <<task, listing, gitVars, results, compiles, faults>>
  BY DEF MergeInv, TypeOK, CompileTypeOK, pubsub_expected_paths, UnchangedButCompile, Progress
<1>2. PICK files \in SUBSET (1..written[compile.branch]) :
         compile' = [compile EXCEPT !.declared = files,
                                    !.at = IF missing_from_tree(files, compile.tree) # {}
                                           THEN "reclone" ELSE "analyse"]
  BY DEF pubsub_expected_paths
<1>3. /\ compile' \in Compile /\ compile'.declared = files /\ compile'.tree = compile.tree
      /\ compile'.branch = compile.branch /\ compile'.at \in {"reclone", "analyse"}
      /\ compile'.at = "analyse" => missing_from_tree(files, compile.tree) = {}
  <2>1. files \in SUBSET Nat
    BY <1>2
  <2>2. QED
    BY <1>1, <1>2, <2>1 DEF Compile
<1>4. Progress'
  BY <1>1, <1>3 DEF Progress
<1>5. QED
  BY <1>1, <1>3, <1>4, FaultType DEF Compiles, MergeInv, TypeOK, CompileTypeOK

LEMMA ReturnCompiles ==
  ASSUME MergeInv, compile.at \in {"reclone", "analyse"},
         NEW status \in {"ok", "issues-found", "infrastructure-error"}, NEW tree \in Nat,
         Return(status, tree),
         status # "infrastructure-error" => missing_from_tree(compile.declared, tree) = {},
         status = "ok" /\ compile.branch # Main => <<compile.branch, tree>> \in clean
  PROVE  Compiles
<1>1. PICK r : r = [branch |-> compile.branch, status |-> status, tree |-> tree,
                    declared |-> compile.declared]
  OBVIOUS
<1>2. results' = results \cup {r} /\ compile' = NoCompile
      /\ UNCHANGED <<task, listing, gitVars, compiles, faults>>
  BY <1>1 DEF Return
<1>3. compile.branch \in Branch /\ compile \in Compile
  BY DEF MergeInv, Progress, TypeOK, CompileTypeOK
<1>4. r \in Result
  BY <1>1, <1>3 DEF Result, Compile
<1>5. Complete(r) /\ FreeOfErrors(r)
  BY <1>1 DEF Complete, FreeOfErrors
<1>6. Progress'
  BY <1>2 DEF Progress, NoCompile
<1>7. QED
  BY <1>2, <1>4, <1>5, <1>6, NoCompileType, FaultType
  DEF Compiles, MergeInv, TypeOK, CompileTypeOK

LEMMA RecloneCompiles == ASSUME MergeInv, Reclone PROVE Compiles
<1>1. /\ compile \in Compile /\ Progress /\ compile.at = "reclone"
      /\ served \in [Branch -> 1..MaxCommits]
  BY DEF MergeInv, TypeOK, CompileTypeOK, Reclone
<1>2. PICK tree \in Nat : tree = served[compile.branch]
  BY <1>1, CompileAssumption DEF Progress
<1>3. CASE Return("infrastructure-error", tree)
  BY <1>1, <1>3, ReturnCompiles
<1>4. CASE /\ missing_from_tree(compile.declared, tree) = {}
           /\ compile' = [compile EXCEPT !.at = "analyse", !.tree = tree]
           /\ UNCHANGED faults /\ UnchangedButCompile
  <2>1. /\ compile' \in Compile /\ compile'.at = "analyse" /\ compile'.tree = tree
        /\ compile'.branch = compile.branch /\ compile'.declared = compile.declared
    BY <1>1, <1>4 DEF Compile
  <2>2. UNCHANGED <<task, listing, gitVars, results, compiles, faults>>
    BY <1>4 DEF UnchangedButCompile
  <2>3. Progress'
    BY <1>1, <1>4, <2>1 DEF Progress
  <2>4. QED
    BY <2>1, <2>2, <2>3, FaultType DEF Compiles, MergeInv, TypeOK, CompileTypeOK
<1>5. QED
  BY <1>2, <1>3, <1>4 DEF Reclone

LEMMA AnalyseCompiles == ASSUME MergeInv, Analyse PROVE Compiles
<1>1. compile.at = "analyse" /\ compile \in Compile /\ Progress
  BY DEF Analyse, MergeInv, TypeOK, CompileTypeOK
<1>2. compile.tree \in Nat /\ missing_from_tree(compile.declared, compile.tree) = {}
  BY <1>1 DEF Compile, Progress
<1>3. CASE compile.branch = Main \/ <<compile.branch, compile.tree>> \in clean
  <2>1. Return("ok", compile.tree)
    BY <1>3 DEF Analyse
  <2>2. QED
    BY <1>1, <1>2, <1>3, <2>1, ReturnCompiles
<1>4. CASE ~(compile.branch = Main \/ <<compile.branch, compile.tree>> \in clean)
  <2>1. Return("issues-found", compile.tree)
    BY <1>4 DEF Analyse
  <2>2. QED
    BY <1>1, <1>2, <2>1, ReturnCompiles
<1>5. QED
  BY <1>3, <1>4

LEMMA CompileStepCompiles == ASSUME MergeInv, CompileStep PROVE Compiles
  BY BeginCompileCompiles, LookUpTaskCompiles, FindBranchCompiles, CloneCompiles,
     CloneFailsCompiles, ExpectedPathsCompiles, RecloneCompiles, AnalyseCompiles
  DEF CompileStep

LEMMA CompileKeepsInv ==
  ASSUME MergeInv, Compiles, UNCHANGED <<main, merge, merges, posts>>
  PROVE  MergeInv'
<1>1. UNCHANGED <<task, listing, written, served, clean>>
  BY DEF Compiles, gitVars
<1>2. TypeOK'
  BY <1>1 DEF MergeInv, TypeOK, CompileTypeOK, Compiles
<1>3. \A r \in results' : Complete(r)' /\ FreeOfErrors(r)'
  BY <1>1 DEF MergeInv, Compiles, Complete, FreeOfErrors
<1>4. \A m \in Merger : Entitled(m)'
  BY DEF MergeInv, Compiles, Entitled
<1>5. MergedBranchWasClean'
  BY <1>1 DEF MergeInv, Compiles, MergedBranchWasClean
<1>6. QED
  BY <1>2, <1>3, <1>4, <1>5 DEF MergeInv, Compiles

-----------------------------------------------------------------------------
(* The steps of git *)

(* Branches only gain commits, trees stay free of errors. *)
Gains ==
    /\ UNCHANGED <<task, listing, compile, results, compiles, faults>>
    /\ written' \in [Branch -> 1..MaxCommits] /\ served' \in [Branch -> 1..MaxCommits]
    /\ \A b \in Branch : written[b] <= written'[b]
    /\ clean \subseteq clean' /\ clean' \subseteq Feature \X (1..MaxCommits)

LEMMA PushGains == ASSUME MergeInv, NEW b \in Branch, Push(b) PROVE Gains
<1>1. /\ written \in [Branch -> 1..MaxCommits] /\ served \in [Branch -> 1..MaxCommits]
      /\ clean \subseteq Feature \X (1..MaxCommits) /\ b \in Feature
      /\ written[b] < MaxCommits /\ written' = [written EXCEPT ![b] = @ + 1]
      /\ UNCHANGED <<task, listing, served, compile, results, compiles, faults>>
  BY DEF MergeInv, TypeOK, CompileTypeOK, Push
<1>2. written[b] \in 1..MaxCommits /\ written[b] + 1 \in 1..MaxCommits /\ written[b] <= written[b] + 1
  BY <1>1, CompileAssumption
<1>3. written' \in [Branch -> 1..MaxCommits] /\ written'[b] = written[b] + 1
  BY <1>1, <1>2
<1>4. \A d \in Branch : written[d] <= written'[d]
  BY <1>1, <1>2, CompileAssumption
<1>5. clean' = clean \/ clean' = clean \cup {<<b, written'[b]>>}
  BY DEF Push
<1>6. QED
  BY <1>1, <1>2, <1>3, <1>4, <1>5 DEF Gains

LEMMA FlushGains == ASSUME MergeInv, NEW b \in Branch, Flush(b) PROVE Gains
<1>1. /\ written \in [Branch -> 1..MaxCommits] /\ served \in [Branch -> 1..MaxCommits]
      /\ clean \subseteq Feature \X (1..MaxCommits)
      /\ served' = [served EXCEPT ![b] = written[b]]
      /\ UNCHANGED <<task, listing, written, clean, compile, results, compiles, faults>>
  BY DEF MergeInv, TypeOK, CompileTypeOK, Flush
<1>2. \A d \in Branch : written[d] <= written[d]
  BY <1>1, CompileAssumption
<1>3. QED
  BY <1>1, <1>2 DEF Gains

LEMMA GitKeepsInv ==
  ASSUME MergeInv, Gains, UNCHANGED <<main, merge, merges, posts>>
  PROVE  MergeInv'
<1>1. TypeOK'
  BY DEF MergeInv, TypeOK, CompileTypeOK, Gains
<1>2. Progress'
  BY DEF MergeInv, Gains, Progress
<1>3. \A r \in results' : Complete(r)' /\ FreeOfErrors(r)'
  BY DEF MergeInv, Gains, Complete, FreeOfErrors
<1>4. \A m \in Merger : Entitled(m)'
  BY DEF MergeInv, Gains, Entitled
<1>5. MergedBranchWasClean'
  BY DEF MergeInv, Gains, MergedBranchWasClean
<1>6. QED
  BY <1>1, <1>2, <1>3, <1>4, <1>5 DEF MergeInv

-----------------------------------------------------------------------------
(* The steps of merge-flutter-branch *)

(* Where a merge goes from where it is. *)
Proceeds(m) ==
    \/ merge'[m] = NoMerge
    \/ /\ merge[m].at = "idle" /\ merge'[m].at = "job" /\ merge'[m].result \in results
       /\ ~merge'[m].checked
    \/ /\ merge'[m].result = merge[m].result
       /\ \/ /\ merge[m].at = "job" /\ merge'[m].at = "feature head"
             /\ WorthMerging(merge[m].result) /\ merge'[m].checked = merge[m].checked
          \/ /\ merge[m].at = "feature head" /\ merge'[m].at = "main head"
             /\ merge'[m].featureHead \in {HeadOf(merge[m].result.branch), NoCommit}
             /\ merge'[m].checked = merge[m].checked /\ merge'[m].since = Len(posts)
          \/ /\ merge[m].at \in {"feature head", "main head"} /\ merge'[m].at = "merge"
             /\ merge'[m].checked = merge[m].checked
          \/ /\ merge[m].at = "main head" /\ merge'[m].at = "merge"
             /\ merge'[m].checked => merge[m].featureHead \notin {main.head, NoCommit}
             /\ merge'[m].since = merge[m].since

(* What a step may do without asking git to merge. *)
Prepares(m) ==
    /\ UNCHANGED <<task, listing, gitVars, compile, results, compiles, main, posts>>
    /\ merge' \in [Merger -> Merge] /\ merges' \in 0..MaxMerges /\ faults' \in 0..MaxFaults
    /\ \A n \in Merger : n # m => merge'[n] = merge[n]
    /\ Proceeds(m)

LEMMA NoMergeType == NoMerge \in Merge /\ AnyResult \in Result
<1>1. AnyResult \in Result
  BY Branches DEF AnyResult, Result
<1>2. QED
  BY <1>1 DEF NoMerge, Merge

LEMMA BeginMergePrepares ==
  ASSUME MergeInv, NEW m \in Merger, NEW r \in results, BeginMerge(m, r)
  PROVE  Prepares(m)
<1>1. /\ merge \in [Merger -> Merge] /\ merge[m].at = "idle" /\ r \in Result
      /\ merge' = [merge EXCEPT ![m] = [NoMerge EXCEPT !.at = "job", !.result = r]]
      /\ UNCHANGED <<task, listing, gitVars, compile, results, compiles, main, posts, faults>>
  BY DEF MergeInv, TypeOK, CompileTypeOK, BeginMerge, UnchangedButMerge
<1>2. PICK w : /\ w = [NoMerge EXCEPT !.at = "job", !.result = r] /\ w \in Merge
               /\ w.at = "job" /\ w.result = r /\ w.checked = FALSE
  <2>1. PICK w : w = [NoMerge EXCEPT !.at = "job", !.result = r]
    OBVIOUS
  <2>2. w.at = "job" /\ w.result = r /\ w.checked = FALSE /\ w.featureHead = NoCommit
    BY <2>1 DEF NoMerge
  <2>3. w \in Merge
    BY <1>1, <2>1, NoMergeType DEF Merge
  <2>4. QED
    BY <2>1, <2>2, <2>3
<1>3. merges' \in 0..MaxMerges
  BY MergeAssumption DEF MergeInv, TypeOK, BeginMerge
<1>4. merge' \in [Merger -> Merge] /\ merge'[m] = w /\ \A n \in Merger : n # m => merge'[n] = merge[n]
  BY <1>1, <1>2
<1>5. QED
  BY <1>1, <1>2, <1>3, <1>4, FaultType DEF MergeInv, Prepares, Proceeds

LEMMA ExitPrepares ==
  ASSUME MergeInv, NEW m \in Merger, Exit(m), UnchangedButMerge, Fault \/ UNCHANGED faults,
         UNCHANGED <<main, merges, posts>>
  PROVE  Prepares(m)
<1>1. merge \in [Merger -> Merge] /\ merge' = [merge EXCEPT ![m] = NoMerge]
  BY DEF MergeInv, TypeOK, Exit
<1>2. QED
  BY <1>1, NoMergeType, FaultType DEF MergeInv, TypeOK, UnchangedButMerge, Prepares, Proceeds

LEMMA GotoPrepares ==
  ASSUME MergeInv, NEW m \in Merger, NEW at \in {"feature head", "merge"}, Goto(m, at),
         UnchangedButMerge, Fault \/ UNCHANGED faults, UNCHANGED <<main, merges, posts>>,
         at = "feature head" => merge[m].at = "job" /\ WorthMerging(merge[m].result),
         at = "merge" => merge[m].at \in {"feature head", "main head"}
  PROVE  Prepares(m)
<1>1. /\ merge \in [Merger -> Merge] /\ merge[m] \in Merge
      /\ merge' = [merge EXCEPT ![m].at = at]
  BY DEF MergeInv, TypeOK, Goto
<1>2. /\ merge' \in [Merger -> Merge] /\ \A n \in Merger : n # m => merge'[n] = merge[n]
      /\ merge'[m].at = at /\ merge'[m].result = merge[m].result
      /\ merge'[m].checked = merge[m].checked
  BY <1>1 DEF Merge
<1>3. Proceeds(m)
  BY <1>2 DEF Proceeds
<1>4. QED
  BY <1>2, <1>3, FaultType DEF MergeInv, TypeOK, UnchangedButMerge, Prepares

LEMMA HeadType ==
  ASSUME MergeInv, NEW b \in Branch
  PROVE  HeadOf(b) \in Commit
  BY CompileAssumption DEF MergeInv, TypeOK, CompileTypeOK, HeadOf, Commit

LEMMA AnsweredFault == ASSUME NEW head, Answered(head) PROVE Fault \/ UNCHANGED faults
  BY DEF Answered

LEMMA ReadFeatureHeadPrepares ==
  ASSUME MergeInv, NEW m \in Merger, ReadFeatureHead(m)
  PROVE  Prepares(m)
<1>1. /\ merge \in [Merger -> Merge] /\ merge[m] \in Merge /\ merge[m].at = "feature head"
      /\ UNCHANGED <<task, listing, gitVars, compile, results, compiles, main, merges, posts>>
  BY DEF MergeInv, TypeOK, ReadFeatureHead, UnchangedButMerge
<1>2. PICK head \in {HeadOf(merge[m].result.branch), NoCommit} :
         /\ Answered(head)
         /\ merge' = [merge EXCEPT ![m].at = "main head", ![m].featureHead = head,
                                   ![m].since = Len(posts)]
  BY DEF ReadFeatureHead
<1>3. head \in Commit \cup {NoCommit} /\ Len(posts) \in Nat
  <2>1. head \in Commit \cup {NoCommit}
    <3>1. merge[m].result.branch \in Branch
      BY <1>1 DEF Merge, Result
    <3>2. HeadOf(merge[m].result.branch) \in Commit
      BY <3>1, HeadType
    <3>3. QED
      BY ONLY <1>2, <3>2
  <2>2. posts \in Seq(Post)
    BY DEF MergeInv, TypeOK
  <2>3. QED
    BY <2>1, <2>2
<1>4. merge'[m] = [merge[m] EXCEPT !.at = "main head", !.featureHead = head,
                                   !.since = Len(posts)]
      /\ \A n \in Merger : n # m => merge'[n] = merge[n]
  BY <1>1, <1>2
<1>5. /\ merge'[m] \in Merge /\ merge'[m].at = "main head" /\ merge'[m].featureHead = head
      /\ merge'[m].result = merge[m].result /\ merge'[m].checked = merge[m].checked
      /\ merge'[m].since = Len(posts)
  BY <1>1, <1>3, <1>4 DEF Merge
<1>6. merge' \in [Merger -> Merge]
  BY <1>1, <1>2, <1>4, <1>5
<1>7. Fault \/ UNCHANGED faults
  BY <1>2, AnsweredFault
<1>8. QED
  BY <1>1, <1>2, <1>4, <1>5, <1>6, <1>7, FaultType DEF MergeInv, TypeOK, Prepares, Proceeds

LEMMA ReadMainHeadPrepares ==
  ASSUME MergeInv, NEW m \in Merger, ReadMainHead(m)
  PROVE  Prepares(m)
<1>1. /\ merge \in [Merger -> Merge] /\ merge[m] \in Merge /\ merge[m].at = "main head"
      /\ UnchangedButMerge /\ UNCHANGED <<main, merges, posts>>
  BY DEF MergeInv, TypeOK, ReadMainHead
<1>2. PICK head \in {main.head, NoCommit}, both \in BOOLEAN :
         /\ Answered(head) /\ both = (NoCommit \notin {head, merge[m].featureHead})
         /\ IF both /\ merge[m].featureHead = head
            THEN Exit(m)
            ELSE merge' = [merge EXCEPT ![m].at = "merge", ![m].checked = both]
  BY DEF ReadMainHead
<1>3. Fault \/ UNCHANGED faults
  BY <1>2, AnsweredFault
<1>4. CASE both /\ merge[m].featureHead = head
  BY <1>1, <1>2, <1>3, <1>4, ExitPrepares
<1>5. CASE ~(both /\ merge[m].featureHead = head)
  <2>1. merge' = [merge EXCEPT ![m].at = "merge", ![m].checked = both]
    BY <1>2, <1>5
  <2>2. merge'[m] = [merge[m] EXCEPT !.at = "merge", !.checked = both]
        /\ \A n \in Merger : n # m => merge'[n] = merge[n]
    BY <1>1, <2>1
  <2>3. /\ merge'[m] \in Merge /\ merge'[m].at = "merge" /\ merge'[m].result = merge[m].result
        /\ merge'[m].checked = both /\ merge'[m].since = merge[m].since
    BY <1>1, <2>2 DEF Merge
  <2>4. merge' \in [Merger -> Merge]
    BY <1>1, <2>1, <2>2, <2>3
  <2>5. both => merge[m].featureHead \notin {main.head, NoCommit}
    BY <1>2, <1>5
  <2>6. Proceeds(m)
    BY <1>1, <2>3, <2>5 DEF Proceeds
  <2>7. QED
    BY <1>1, <1>3, <2>2, <2>4, <2>6, FaultType DEF MergeInv, TypeOK, UnchangedButMerge, Prepares
<1>6. QED
  BY <1>4, <1>5

(* A step of merge-flutter-branch is a merge, or prepares or ends one. *)
LEMMA MergeSteps ==
  ASSUME MergeInv, NEW m \in Merger, MergeStep(m)
  PROVE  Prepares(m) \/ PostMerge(m)
<1>1. CASE \E r \in results : BeginMerge(m, r)
  BY <1>1, BeginMergePrepares
<1>2. CASE FetchJob(m)
  <2>1. CASE WorthMerging(merge[m].result)
    BY <1>2, <2>1, GotoPrepares DEF FetchJob
  <2>2. CASE ~WorthMerging(merge[m].result)
    BY <1>2, <2>2, ExitPrepares DEF FetchJob
  <2>3. QED
    BY <2>1, <2>2
<1>3. CASE FetchJobFails(m) \/ CheckEnds(m) \/ PostMergeFails(m)
  BY <1>3, ExitPrepares DEF FetchJobFails, CheckEnds, PostMergeFails, ReadFails
<1>4. CASE CheckFails(m)
  BY <1>4, GotoPrepares DEF CheckFails, ReadFails
<1>5. QED
  BY <1>1, <1>2, <1>3, <1>4, ReadFeatureHeadPrepares, ReadMainHeadPrepares DEF MergeStep

LEMMA PrepareKeepsInv ==
  ASSUME MergeInv, NEW m \in Merger, Prepares(m)
  PROVE  MergeInv'
<1>1. UNCHANGED <<task, listing, written, served, clean, compile, results, compiles, main, posts>>
  BY DEF Prepares, gitVars
<1>2. TypeOK'
  BY <1>1 DEF MergeInv, TypeOK, CompileTypeOK, Prepares
<1>3. Progress' /\ (\A r \in results' : Complete(r)' /\ FreeOfErrors(r)') /\ MergedBranchWasClean'
  BY <1>1 DEF MergeInv, Progress, Complete, FreeOfErrors, MergedBranchWasClean
<1>4. ASSUME NEW n \in Merger
      PROVE  Entitled(n)'
  <2>1. Entitled(n)
    BY DEF MergeInv
  <2>2. CASE n = m
    <3>1. CASE merge'[m] = NoMerge
      BY <2>2, <3>1 DEF Entitled, NoMerge
    <3>2. CASE merge'[m].at = "job" /\ merge'[m].result \in results
      BY <1>1, <2>2, <3>2 DEF Entitled
    <3>3. CASE /\ merge'[m].result = merge[m].result
               /\ merge[m].at \in {"job", "feature head", "main head"}
               /\ merge[m].at = "job" => WorthMerging(merge[m].result)
      <4>1. merge[m].result \in results /\ WorthMerging(merge[m].result)
        BY <2>1, <2>2, <3>3 DEF Entitled
      <4>2. WorthMerging(merge[m].result)'
        BY <3>3, <4>1 DEF WorthMerging
      <4>3. QED
        BY <1>1, <2>2, <3>3, <4>1, <4>2 DEF Entitled
    <3>4. QED
      BY <3>1, <3>2, <3>3 DEF Prepares, Proceeds
  <2>3. CASE n # m
    BY <1>1, <2>1, <2>3 DEF Prepares, Entitled
  <2>4. QED
    BY <2>2, <2>3
<1>5. QED
  BY <1>2, <1>3, <1>4 DEF MergeInv

(* What is kept of a merge that m asks for. *)
PostOf(m) ==
    LET head == HeadOf(merge[m].result.branch)
    IN  [commit |-> head, repeated |-> head \in main.commits, checked |-> merge[m].checked,
         alone |-> merge[m].since = Len(posts), beyond |-> \E c \in main.commits : c[1] # merge[m].result.branch]

(* git merges the branch of a result that is entitled to it. *)
LEMMA PostMergeEffect ==
  ASSUME MergeInv, NEW m \in Merger, PostMerge(m)
  PROVE  /\ merge[m].at = "merge" /\ merge[m].result \in results
         /\ merge[m].result.branch \in Feature /\ merge[m].result.status = "ok"
         /\ UNCHANGED <<task, listing, gitVars, compile, results, compiles, merges, faults>>
         /\ merge' = [merge EXCEPT ![m] = NoMerge] /\ merge \in [Merger -> Merge]
         /\ main'.head \in {HeadOf(merge[m].result.branch), MergeCommit(Len(posts) + 1)}
         /\ main'.commits = main.commits \cup
               {<<merge[m].result.branch, n>> : n \in 1..written[merge[m].result.branch]}
         /\ main' = [head |-> main'.head, commits |-> main'.commits]
         /\ posts' = Append(posts, PostOf(m))
<1>1. /\ merge[m].at = "merge" /\ Entitled(m) /\ merge \in [Merger -> Merge]
      /\ results \subseteq Result
  BY DEF PostMerge, MergeInv, TypeOK, CompileTypeOK
<1>2. /\ merge[m].result \in results /\ merge[m].result.branch \in Feature
      /\ merge[m].result.status = "ok"
  BY <1>1 DEF Entitled, WorthMerging, Result, Branch
<1>3. /\ UNCHANGED <<task, listing, gitVars, compile, results, compiles, merges, faults>>
      /\ merge' = [merge EXCEPT ![m] = NoMerge]
      /\ posts' = Append(posts, PostOf(m))
  BY DEF PostMerge, Exit, UnchangedButMerge, PostOf
<1>4. PICK head \in {HeadOf(merge[m].result.branch), MergeCommit(Len(posts) + 1)} :
         main' = [head |-> head,
                  commits |-> main.commits \cup
                     {<<merge[m].result.branch, n>> : n \in 1..written[merge[m].result.branch]}]
  BY DEF PostMerge, GitMerge
<1>5. QED
  BY <1>1, <1>2, <1>3, <1>4

LEMMA PostKeepsInv ==
  ASSUME MergeInv, NEW m \in Merger, PostMerge(m)
  PROVE  MergeInv'
<1>1. PICK r \in results : r = merge[m].result /\ r.branch \in Feature /\ r.status = "ok"
  BY PostMergeEffect
<1>2. /\ UNCHANGED <<task, listing, written, served, clean, compile, results, compiles, merges, faults>>
      /\ merge' = [merge EXCEPT ![m] = NoMerge] /\ merge \in [Merger -> Merge]
      /\ main'.commits = main.commits \cup {<<r.branch, n>> : n \in 1..written[r.branch]}
      /\ main' = [head |-> main'.head, commits |-> main'.commits]
      /\ main'.head \in {HeadOf(r.branch), MergeCommit(Len(posts) + 1)}
  <2>1. /\ merge' = [merge EXCEPT ![m] = NoMerge] /\ merge \in [Merger -> Merge]
        /\ main' = [head |-> main'.head, commits |-> main'.commits]
    BY PostMergeEffect
  <2>2. UNCHANGED <<task, listing, written, served, clean, compile, results, compiles, merges, faults>>
    BY PostMergeEffect DEF gitVars
  <2>3. /\ main'.commits = main.commits \cup {<<r.branch, n>> : n \in 1..written[r.branch]}
        /\ main'.head \in {HeadOf(r.branch), MergeCommit(Len(posts) + 1)}
    <3>1. /\ main'.head \in {HeadOf(merge[m].result.branch), MergeCommit(Len(posts) + 1)}
          /\ main'.commits = main.commits \cup
                {<<merge[m].result.branch, n>> : n \in 1..written[merge[m].result.branch]}
      BY PostMergeEffect
    <3>2. QED
      BY ONLY <1>1, <3>1
  <2>4. QED
    BY ONLY <2>1, <2>2, <2>3
<1>3. r.branch \in Branch /\ HeadOf(r.branch) \in Commit /\ merge[m] \in Merge
      /\ posts \in Seq(Post) /\ main.commits \subseteq Commit
      /\ \A n \in 1..written[r.branch] : <<r.branch, n>> \in Commit
  BY <1>1, <1>2, HeadType, Branches DEF MergeInv, TypeOK, Commit
<1>4. main' \in [head : Commit, commits : SUBSET Commit]
  <2>1. MergeCommit(Len(posts) + 1) \in Commit
    BY <1>3, Branches DEF MergeCommit, Commit
  <2>2. main'.commits \subseteq Commit
    BY <1>2, <1>3
  <2>3. QED
    BY <1>2, <1>3, <2>1, <2>2
<1>5. posts' \in Seq(Post)
  <2>1. merge[m].checked \in BOOLEAN
    BY <1>3 DEF Merge
  <2>2. PostOf(m) \in Post
    BY <1>1, <1>3, <2>1 DEF PostOf, Post
  <2>3. posts' = Append(posts, PostOf(m))
    BY PostMergeEffect
  <2>4. QED
    BY <1>3, <2>2, <2>3
<1>6. TypeOK'
  BY <1>2, <1>4, <1>5, NoMergeType DEF MergeInv, TypeOK, CompileTypeOK
<1>7. Progress' /\ (\A s \in results' : Complete(s)' /\ FreeOfErrors(s)')
  BY <1>2 DEF MergeInv, Progress, Complete, FreeOfErrors
<1>8. \A n \in Merger : Entitled(n)'
  BY <1>2 DEF MergeInv, Entitled, NoMerge
<1>9. MergedBranchWasClean'
  <2>1. <<r.branch, r.tree>> \in clean
    BY <1>1, Branches DEF MergeInv, FreeOfErrors
  <2>2. ASSUME NEW c \in main'.commits
        PROVE  \E s \in results : s.branch = c[1] /\ s.status = "ok" /\ <<s.branch, s.tree>> \in clean
    <3>1. CASE c \in main.commits
      BY <3>1 DEF MergeInv, MergedBranchWasClean
    <3>2. CASE c \notin main.commits
      <4>1. c[1] = r.branch
        BY <1>2, <2>2, <3>2
      <4>2. QED
        BY <1>1, <2>1, <4>1
    <3>3. QED
      BY <3>1, <3>2
  <2>3. QED
    BY <1>2, <2>2 DEF MergedBranchWasClean
<1>10. QED
  BY <1>6, <1>7, <1>8, <1>9 DEF MergeInv

LEMMA MergeInvInit == Init => MergeInv
<1> SUFFICES ASSUME Init
             PROVE  MergeInv
  OBVIOUS
<1>1. 1 \in 1..MaxCommits /\ 0 \in 0..MaxCompiles /\ 0 \in 0..MaxFaults /\ 0 \in 0..MaxMerges
  BY CompileAssumption, MergeAssumption
<1>2. CompileTypeOK
  <2>1. clean \subseteq Feature \X (1..MaxCommits)
    <3>1. clean \subseteq {<<b, 1>> : b \in Feature}
      BY DEF Init, CompileInit
    <3>2. QED
      BY <1>1, <3>1
  <2>2. QED
    BY <1>1, <2>1, NoCompileType DEF Init, CompileInit, CompileTypeOK
<1>3. main \in [head : Commit, commits : SUBSET Commit]
  BY Branches DEF Init, MergeCommit, Commit
<1>4. TypeOK
  BY <1>1, <1>2, <1>3, NoMergeType DEF Init, TypeOK
<1>5. Progress
  BY DEF Init, CompileInit, Progress, NoCompile
<1>6. (\A r \in results : Complete(r) /\ FreeOfErrors(r)) /\ \A m \in Merger : Entitled(m)
  BY DEF Init, CompileInit, Entitled, NoMerge
<1>7. MergedBranchWasClean
  BY DEF Init, MergedBranchWasClean
<1>8. QED
  BY <1>4, <1>5, <1>6, <1>7 DEF MergeInv

(* What a step of the system can be. *)
LEMMA MergeCases ==
  ASSUME MergeInv, [Next]_vars
  PROVE  \/ Compiles /\ UNCHANGED <<main, merge, merges, posts>>
         \/ Gains /\ UNCHANGED <<main, merge, merges, posts>>
         \/ \E m \in Merger : Prepares(m) \/ PostMerge(m)
         \/ UNCHANGED vars
  BY CompileStepCompiles, PushGains, FlushGains, MergeSteps DEF Next, CompileNext

LEMMA MergeInvStep == MergeInv /\ [Next]_vars => MergeInv'
<1> SUFFICES ASSUME MergeInv, [Next]_vars
             PROVE  MergeInv'
  OBVIOUS
<1>1. CASE UNCHANGED vars
  <2>1. UNCHANGED <<task, listing, written, served, clean, compile, results, compiles, faults,
                    main, merge, merges, posts>>
    BY <1>1 DEF vars, compileVars, gitVars
  <2>2. TypeOK' /\ Progress'
    BY <2>1 DEF MergeInv, TypeOK, CompileTypeOK, Progress
  <2>3. (\A r \in results' : Complete(r)' /\ FreeOfErrors(r)') /\ \A m \in Merger : Entitled(m)'
    BY <2>1 DEF MergeInv, Complete, FreeOfErrors, Entitled
  <2>4. MergedBranchWasClean'
    BY <2>1 DEF MergeInv, MergedBranchWasClean
  <2>5. QED
    BY <2>2, <2>3, <2>4 DEF MergeInv
<1>2. QED
  BY <1>1, MergeCases, CompileKeepsInv, GitKeepsInv, PrepareKeepsInv, PostKeepsInv

LEMMA MergeInvariant == Spec => []MergeInv
  BY MergeInvInit, MergeInvStep, PTL DEF Spec

(***************************************************************************)
(* compile-flutter, merge-flutter-branch and git have their types in every *)
(* reachable state, for any number of mergers.                             *)
(***************************************************************************)
THEOREM TypeCorrect == Spec => []TypeOK
<1>1. MergeInv => TypeOK
  BY DEF MergeInv
<1>2. QED
  BY <1>1, MergeInvariant, PTL

(***************************************************************************)
(* compile-flutter gives no verdict on a tree that lacks a file the event  *)
(* log told it of, whatever part of the log it is told and however commits *)
(* are served between its clone, its query and its second clone.           *)
(***************************************************************************)
THEOREM VerdictDeclared == Spec => []VerdictOnDeclaredTree
<1>1. MergeInv => VerdictOnDeclaredTree
  BY DEF MergeInv, Complete, VerdictOnDeclaredTree
<1>2. QED
  BY <1>1, MergeInvariant, PTL

(***************************************************************************)
(* main takes commits only of branches of which some tree was analysed and *)
(* free of errors, for any number of merge-flutter-branch processes that   *)
(* work on new, old and repeated results at once.                          *)
(***************************************************************************)
THEOREM MergedWasClean == Spec => []MergedBranchWasClean
<1>1. MergeInv => MergedBranchWasClean
  BY DEF MergeInv
<1>2. QED
  BY <1>1, MergeInvariant, PTL

-----------------------------------------------------------------------------
(* Merges that change nothing *)

(* main knows no commit of a branch that is not there. *)
HeadKnown == main.head[1] \in Feature => main.head[2] <= written[main.head[1]]

(* main has no commit that is not on its branch; and as long as it has commits of one
   branch only, its head is the last of them. *)
Ancestry ==
    /\ \A c \in main.commits : c[2] \in 1..written[c[1]]
    /\ \A b \in Feature : main.commits # {} /\ (\A c \in main.commits : c[1] = b) =>
          main.head[1] = b /\ \A c \in main.commits : c[2] <= main.head[2]

(* Whether nobody has merged since m read the head of its branch. *)
Alone(m) == merge[m].since = Len(posts)

(* What a merger knows of the two heads, by where it is. *)
Compared(m) ==
    LET b == merge[m].result.branch
    IN  /\ merge[m].at \in {"job", "feature head", "main head"} => ~merge[m].checked
        /\ merge[m].at \in {"main head", "merge"} /\ (merge[m].at = "merge" => merge[m].checked) =>
              merge[m].since <= Len(posts)
        /\ merge[m].at = "main head" /\ merge[m].featureHead # NoCommit =>
              /\ merge[m].featureHead[1] = b
              /\ merge[m].featureHead[2] <= written[b]
              /\ Alone(m) /\ main.head[1] = b => main.head[2] <= merge[m].featureHead[2]
        /\ merge[m].at = "merge" /\ merge[m].checked /\ Alone(m) /\ main.head[1] = b =>
              main.head[2] < written[b]

HeadsInv ==
    /\ MergeInv
    /\ HeadKnown
    /\ Ancestry
    /\ \A m \in Merger : Compared(m)
    /\ RepeatedMergeHasReason

(* The numbers that are compared. *)
LEMMA HeadNumbers ==
  ASSUME MergeInv
  PROVE  /\ \A b \in Branch : written[b] \in Nat
         /\ main.head \in Branch \X Nat
         /\ main.head[1] \in Branch /\ main.head[2] \in Nat
         /\ posts \in Seq(Post) /\ Len(posts) \in Nat
         /\ \A m \in Merger : merge[m] \in Merge /\ merge[m].result.branch \in Branch
         /\ \A m \in Merger : merge[m].featureHead[2] \in Nat /\ merge[m].since \in Nat
<1>1. \A b \in Branch : written[b] \in Nat
  BY CompileAssumption DEF MergeInv, TypeOK, CompileTypeOK
<1>2. main.head \in Branch \X Nat /\ posts \in Seq(Post) /\ Len(posts) \in Nat
  BY DEF MergeInv, TypeOK, Commit
<1>3. ASSUME NEW m \in Merger
      PROVE  /\ merge[m] \in Merge /\ merge[m].result.branch \in Branch
             /\ merge[m].featureHead[2] \in Nat /\ merge[m].since \in Nat
  <2>1. merge[m] \in Merge
    BY DEF MergeInv, TypeOK
  <2>2. merge[m].featureHead \in (Branch \X Nat) \cup {NoCommit}
    BY <2>1 DEF Merge, Commit
  <2>3. merge[m].featureHead[2] \in Nat
    BY <2>2 DEF NoCommit
  <2>4. QED
    BY <2>1, <2>3 DEF Merge, Result
<1>4. QED
  BY <1>1, <1>2, <1>3

(* Branches that grow disturb no comparison. *)
LEMMA GrowthKeepsHeads ==
  ASSUME HeadsInv, UNCHANGED <<main, merge, posts>>,
         \A b \in Branch : written'[b] \in Nat /\ written[b] <= written'[b]
  PROVE  HeadKnown' /\ Ancestry' /\ (\A m \in Merger : Compared(m)') /\ RepeatedMergeHasReason'
<1>1. /\ \A b \in Branch : written[b] \in Nat /\ written'[b] \in Nat /\ written[b] <= written'[b]
      /\ main.head[1] \in Branch /\ main.head[2] \in Nat
      /\ \A m \in Merger : merge[m].result.branch \in Branch /\ merge[m].featureHead[2] \in Nat
  BY HeadNumbers DEF HeadsInv
<1>2. HeadKnown'
  BY <1>1 DEF HeadsInv, HeadKnown
<1>3. ASSUME NEW m \in Merger
      PROVE  Compared(m)'
  <2>1. Compared(m)
    BY DEF HeadsInv
  <2>2. PICK b \in Branch : b = merge[m].result.branch
    BY <1>1
  <2>3. /\ written[b] \in Nat /\ written'[b] \in Nat /\ written[b] <= written'[b]
        /\ main.head[2] \in Nat /\ merge[m].featureHead[2] \in Nat
        /\ main' = main /\ merge' = merge /\ posts' = posts
    BY <1>1, <2>2
  <2>4. /\ merge[m].featureHead[2] <= written[b] => merge[m].featureHead[2] <= written'[b]
        /\ main.head[2] < written[b] => main.head[2] < written'[b]
    BY ONLY <2>3
  <2>5. QED
    BY ONLY <2>1, <2>2, <2>3, <2>4 DEF Compared, Alone
<1>4. RepeatedMergeHasReason'
  BY DEF HeadsInv, RepeatedMergeHasReason
<1>5. Ancestry'
  <2>1. main.commits \subseteq Branch \X Nat /\ Ancestry /\ main' = main
    BY DEF HeadsInv, MergeInv, TypeOK, Commit
  <2>2. ASSUME NEW c \in main.commits
        PROVE  c[2] \in 1..written'[c[1]]
    <3>1. c[1] \in Branch /\ c[2] \in 1..written[c[1]]
      BY <2>1 DEF Ancestry
    <3>2. QED
      BY <1>1, <3>1
  <2>3. QED
    BY <2>1, <2>2 DEF Ancestry
<1>6. QED
  BY <1>2, <1>3, <1>4, <1>5

LEMMA PrepareKeepsHeads ==
  ASSUME HeadsInv, NEW m \in Merger, Prepares(m)
  PROVE  HeadKnown' /\ Ancestry' /\ (\A n \in Merger : Compared(n)') /\ RepeatedMergeHasReason'
<1>1. /\ Compared(m) /\ HeadKnown /\ main' = main /\ posts' = posts /\ written' = written
      /\ \A n \in Merger : n # m => merge'[n] = merge[n]
      /\ merge[m].at \in {"feature head", "main head", "merge"} => WorthMerging(merge[m].result)
  BY DEF HeadsInv, MergeInv, Entitled, Prepares, gitVars
<1>2. PICK b \in Branch : b = merge[m].result.branch
  BY HeadNumbers DEF HeadsInv
<1>3. /\ written[b] \in Nat /\ main.head \in Branch \X Nat
      /\ main.head[1] \in Branch /\ main.head[2] \in Nat /\ Len(posts) \in Nat
      /\ merge[m].featureHead[2] \in Nat /\ merge[m] \in Merge
  BY HeadNumbers DEF HeadsInv
<1>4. Compared(m)'
  <2>1. CASE merge'[m] = NoMerge
    BY <2>1 DEF Compared, NoMerge
  <2>2. CASE merge'[m].at = "job" /\ ~merge'[m].checked
    BY <2>2 DEF Compared
  <2>3. CASE /\ merge'[m].result = merge[m].result
             /\ merge[m].at = "job" /\ merge'[m].at = "feature head"
             /\ merge'[m].checked = merge[m].checked
    BY <1>1, <2>3 DEF Compared
  <2>4. CASE /\ merge'[m].result = merge[m].result
             /\ merge[m].at = "feature head" /\ merge'[m].at = "main head"
             /\ merge'[m].featureHead \in {HeadOf(merge[m].result.branch), NoCommit}
             /\ merge'[m].checked = merge[m].checked /\ merge'[m].since = Len(posts)
    <3>1. ~merge'[m].checked
      <4>1. ~merge[m].checked
        BY <1>1, <2>4 DEF Compared
      <4>2. QED
        BY ONLY <2>4, <4>1, Zenon
    <3>2. merge'[m].since <= Len(posts)
      <4>1. merge'[m].since = Len(posts)
        BY ONLY <2>4, Zenon
      <4>2. QED
        BY ONLY <1>3, <4>1
    <3>3. ASSUME merge'[m].featureHead # NoCommit
          PROVE  /\ merge'[m].featureHead[1] = b /\ merge'[m].featureHead[2] <= written[b]
                 /\ main.head[1] = b => main.head[2] <= merge'[m].featureHead[2]
      <4>1. merge'[m].featureHead = <<b, written[b]>>
        BY <1>2, <2>4, <3>3 DEF HeadOf
      <4>2. merge'[m].featureHead[1] = b /\ merge'[m].featureHead[2] = written[b]
        BY <4>1
      <4>3. b \in Feature
        BY <1>1, <1>2, <2>4 DEF WorthMerging, Branch
      <4>4. main.head[1] = b => main.head[2] <= written[b]
        BY <1>1, <4>3 DEF HeadKnown
      <4>5. QED
        BY ONLY <1>3, <4>2, <4>4
    <3>4. QED
      BY <1>1, <1>2, <2>4, <3>1, <3>2, <3>3 DEF Compared, Alone
  <2>5. CASE /\ merge'[m].result = merge[m].result
             /\ merge[m].at \in {"feature head", "main head"} /\ merge'[m].at = "merge"
             /\ merge'[m].checked = merge[m].checked
    <3>1. ~merge'[m].checked
      <4>1. ~merge[m].checked
        BY <1>1, <2>5 DEF Compared
      <4>2. QED
        BY ONLY <2>5, <4>1, Zenon
    <3>2. QED
      BY <2>5, <3>1 DEF Compared
  <2>6. CASE /\ merge'[m].result = merge[m].result
             /\ merge[m].at = "main head" /\ merge'[m].at = "merge"
             /\ merge'[m].checked => merge[m].featureHead \notin {main.head, NoCommit}
             /\ merge'[m].since = merge[m].since
    <3>1. CASE ~merge'[m].checked
      BY <2>6, <3>1 DEF Compared
    <3>2. CASE merge'[m].checked
      <4>1. /\ merge[m].featureHead # NoCommit /\ merge[m].featureHead # main.head
            /\ merge[m].since <= Len(posts)
        BY <1>1, <2>6, <3>2 DEF Compared
      <4>2. ASSUME merge[m].since = Len(posts), main.head[1] = b
            PROVE  main.head[2] < written[b]
        <5>1. /\ merge[m].featureHead[1] = b /\ merge[m].featureHead[2] <= written[b]
              /\ main.head[2] <= merge[m].featureHead[2]
          BY <1>1, <1>2, <2>6, <4>1, <4>2 DEF Compared, Alone
        <5>2. merge[m].featureHead = <<merge[m].featureHead[1], merge[m].featureHead[2]>>
          <6>1. merge[m].featureHead \in Branch \X Nat
            BY <1>3, <4>1 DEF Merge, Commit
          <6>2. QED
            BY <6>1
        <5>3. main.head = <<main.head[1], main.head[2]>>
          BY <1>3
        <5>4. main.head[2] # merge[m].featureHead[2]
          BY <4>1, <4>2, <5>1, <5>2, <5>3
        <5>5. QED
          BY ONLY <1>3, <5>1, <5>4
      <4>3. QED
        BY <1>1, <1>2, <2>6, <4>1, <4>2 DEF Compared, Alone
    <3>3. QED
      BY <3>1, <3>2
  <2>7. QED
    BY <2>1, <2>2, <2>3, <2>4, <2>5, <2>6 DEF Prepares, Proceeds
<1>5. \A n \in Merger : n # m => Compared(n)'
  BY <1>1 DEF HeadsInv, Compared, Alone
<1>6. QED
  BY <1>1, <1>4, <1>5 DEF HeadKnown, Ancestry, HeadsInv, RepeatedMergeHasReason

(* What git makes of main's head: a fast-forward if main has nothing else. *)
LEMMA PostKeepsAncestry ==
  ASSUME MergeInv, Ancestry, NEW m \in Merger, PostMerge(m)
  PROVE  Ancestry'
<1>1. PICK b \in Feature : b = merge[m].result.branch
  BY PostMergeEffect
<1> DEFINE brought == {<<b, n>> : n \in 1..written[b]}
<1>2. /\ written' = written /\ written[b] \in Nat \ {0}
      /\ main.commits \subseteq Branch \X Nat
  <2>1. b \in Branch
    BY Branches
  <2>2. written' = written
    BY PostMergeEffect DEF gitVars
  <2>3. written[b] \in 1..MaxCommits /\ main.commits \subseteq Branch \X Nat
    BY <2>1 DEF MergeInv, TypeOK, CompileTypeOK, Commit
  <2>4. QED
    BY <2>2, <2>3, CompileAssumption
<1>3. /\ main'.commits = main.commits \cup brought
      /\ main.commits \subseteq brought => main'.head = <<b, written[b]>>
  BY <1>1 DEF PostMerge, GitMerge, HeadOf
<1>4. ASSUME NEW c \in brought
      PROVE  c[1] = b /\ c[2] \in 1..written[b]
  OBVIOUS
<1>5. <<b, 1>> \in brought
  BY <1>2
<1> HIDE DEF brought
<1>6. \A c \in main'.commits : c[2] \in 1..written'[c[1]]
  BY <1>2, <1>3, <1>4 DEF Ancestry
<1>7. ASSUME NEW a \in Feature, \A c \in main'.commits : c[1] = a
      PROVE  main'.head[1] = a /\ \A c \in main'.commits : c[2] <= main'.head[2]
  <2>1. a = b
    BY <1>3, <1>4, <1>5, <1>7
  <2>2. CASE main.commits \subseteq brought
    BY <1>2, <1>3, <1>4, <2>1, <2>2
  <2>3. CASE ~(main.commits \subseteq brought)
    <3>1. PICK c \in main.commits : c \notin brought
      BY <2>3
    <3>2. c[1] = b /\ c[2] \in 1..written[b]
      BY <1>2, <1>3, <1>7, <2>1, <3>1 DEF Ancestry
    <3>3. c = <<b, c[2]>>
      BY <1>2, <3>1, <3>2
    <3>4. QED
      BY <3>1, <3>2, <3>3 DEF brought
  <2>4. QED
    BY <2>2, <2>3
<1>8. QED
  BY <1>6, <1>7 DEF Ancestry

LEMMA PostKeepsHeads ==
  ASSUME HeadsInv, NEW m \in Merger, PostMerge(m)
  PROVE  HeadKnown' /\ Ancestry' /\ (\A n \in Merger : Compared(n)') /\ RepeatedMergeHasReason'
<1>1. MergeInv /\ Compared(m)
  BY DEF HeadsInv
<1>2. PICK b \in Feature : b = merge[m].result.branch
  BY <1>1, PostMergeEffect
<1>3. /\ merge[m].at = "merge" /\ written' = written /\ merge \in [Merger -> Merge]
      /\ merge' = [merge EXCEPT ![m] = NoMerge] /\ posts' = Append(posts, PostOf(m))
      /\ main'.head \in {HeadOf(b), MergeCommit(Len(posts) + 1)}
  BY <1>1, <1>2, PostMergeEffect DEF gitVars
<1>4. /\ b \in Branch /\ written[b] \in Nat /\ posts \in Seq(Post) /\ Len(posts) \in Nat
      /\ \A n \in Merger : merge[n].since \in Nat
  BY <1>1, <1>2, Branches, HeadNumbers
<1>5. HeadKnown'
  <2>1. CASE main'.head = HeadOf(b)
    <3>1. main'.head[1] = b /\ main'.head[2] = written[b]
      BY <2>1 DEF HeadOf
    <3>2. QED
      BY <1>3, <1>4, <3>1 DEF HeadKnown
  <2>2. CASE main'.head = MergeCommit(Len(posts) + 1)
    <3>1. main'.head[1] = Main
      BY <2>2 DEF MergeCommit
    <3>2. QED
      BY <3>1, Branches DEF HeadKnown
  <2>3. QED
    BY <1>3, <2>1, <2>2
<1>6. ASSUME NEW n \in Merger
      PROVE  Compared(n)'
  <2>1. CASE n = m
    <3>1. merge'[n] = NoMerge
      BY <1>3, <2>1
    <3>2. QED
      BY <3>1 DEF Compared, NoMerge
  <2>2. CASE n # m
    <3>1. merge'[n] = merge[n] /\ Compared(n)
      BY <1>3, <2>2 DEF HeadsInv
    <3>2. Len(posts') = Len(posts) + 1
      BY <1>3, <1>4
    <3>3. merge[n].since <= Len(posts) =>
             merge[n].since <= Len(posts') /\ merge[n].since # Len(posts')
      BY <1>4, <3>2
    <3>4. QED
      BY <1>3, <3>1, <3>3 DEF Compared, Alone
  <2>3. QED
    BY <2>1, <2>2
<1>7. RepeatedMergeHasReason'
  <2>1. PICK p : p = PostOf(m)
    OBVIOUS
  <2>2. p.repeated => ~p.checked \/ ~p.alone \/ p.beyond
    <3>1. ASSUME HeadOf(b) \in main.commits, merge[m].checked, Alone(m),
                 \A c \in main.commits : c[1] = b
          PROVE  FALSE
      <4>1. main.head[1] = b /\ written[b] <= main.head[2] /\ main.head[2] \in Nat
        <5>1. HeadOf(b)[2] = written[b]
          BY DEF HeadOf
        <5>2. main.head[1] = b /\ HeadOf(b)[2] <= main.head[2]
          BY <3>1 DEF HeadsInv, Ancestry
        <5>3. QED
          BY <1>1, <5>1, <5>2, HeadNumbers
      <4>2. main.head[2] < written[b]
        BY <1>1, <1>2, <1>3, <3>1, <4>1 DEF Compared
      <4>3. QED
        BY <1>4, <4>1, <4>2
    <3>2. QED
      BY <1>2, <2>1, <3>1 DEF PostOf, Alone
  <2>3. ASSUME NEW i \in DOMAIN Append(posts, p), Append(posts, p)[i].repeated
        PROVE  \/ ~Append(posts, p)[i].checked \/ ~Append(posts, p)[i].alone
               \/ Append(posts, p)[i].beyond
    <3>1. \/ i \in DOMAIN posts /\ Append(posts, p)[i] = posts[i]
          \/ Append(posts, p)[i] = p
      BY <1>4
    <3>2. QED
      BY <2>2, <2>3, <3>1 DEF HeadsInv, RepeatedMergeHasReason
  <2>4. QED
    BY <1>3, <2>1, <2>3 DEF RepeatedMergeHasReason
<1>8. Ancestry'
  BY <1>1, PostKeepsAncestry DEF HeadsInv
<1>9. QED
  BY <1>5, <1>6, <1>7, <1>8

LEMMA HeadsInvStep == HeadsInv /\ [Next]_vars => HeadsInv'
<1> SUFFICES ASSUME HeadsInv, [Next]_vars
             PROVE  HeadsInv'
  OBVIOUS
<1>1. MergeInv /\ MergeInv'
  BY MergeInvStep DEF HeadsInv
<1>2. \A b \in Branch : written[b] \in Nat /\ written[b] <= written[b]
  BY <1>1, HeadNumbers
<1>3. \A b \in Branch : written'[b] \in Nat
  <2>1. written' \in [Branch -> 1..MaxCommits]
    BY ONLY <1>1 DEF MergeInv, TypeOK, CompileTypeOK
  <2>2. QED
    BY ONLY <2>1, CompileAssumption
<1>4. CASE /\ written' = written \/ Gains
           /\ UNCHANGED <<main, merge, posts>>
  BY <1>1, <1>2, <1>3, <1>4, GrowthKeepsHeads DEF Gains, HeadsInv
<1>5. CASE \E m \in Merger : Prepares(m) \/ PostMerge(m)
  BY <1>1, <1>5, PrepareKeepsHeads, PostKeepsHeads DEF HeadsInv
<1>6. QED
  BY <1>1, <1>4, <1>5, MergeCases DEF Compiles, gitVars, vars, compileVars

LEMMA HeadsInvInit == Init => HeadsInv
<1> SUFFICES ASSUME Init
             PROVE  HeadsInv
  OBVIOUS
<1>1. MergeInv
  BY MergeInvInit
<1>2. HeadKnown
  BY Branches DEF Init, HeadKnown, MergeCommit
<1>3. ASSUME NEW m \in Merger
      PROVE  Compared(m)
  <2>1. merge[m] = NoMerge
    BY DEF Init
  <2>2. QED
    BY <2>1 DEF Compared, NoMerge
<1>4. RepeatedMergeHasReason
  BY DEF Init, RepeatedMergeHasReason
<1>5. Ancestry
  BY DEF Init, Ancestry
<1>6. QED
  BY <1>1, <1>2, <1>3, <1>4, <1>5 DEF HeadsInv

(***************************************************************************)
(* A merge of what main has already was asked for by a process that could  *)
(* not compare the heads, or that was overtaken by another merge, or when  *)
(* main had taken commits of another branch: for any number of processes   *)
(* at once, and although the branch may move on after it was read.         *)
(***************************************************************************)
THEOREM RepeatHasReason == Spec => []RepeatedMergeHasReason
<1>1. HeadsInv => RepeatedMergeHasReason
  BY DEF HeadsInv
<1>2. QED
  BY <1>1, HeadsInvInit, HeadsInvStep, PTL DEF Spec
================================================================================
