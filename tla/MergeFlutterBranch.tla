--------------------------- MODULE MergeFlutterBranch --------------------------
(***************************************************************************)
(* merge-flutter-branch: the function that merges a branch into main after *)
(* compile-flutter has reported it free of errors.  It is started for      *)
(* every functions.job.completed of compile-flutter, and again when that   *)
(* event is delivered again.                                               *)
(*                                                                         *)
(* The git service is external: merging makes the head of main the head of *)
(* the branch if main has nothing the branch has not (a fast-forward), and *)
(* a new commit otherwise.                                                 *)
(***************************************************************************)
EXTENDS CompileFlutter

CONSTANTS Merger,    \* the merge-flutter-branch processes that can run at once
          MaxMerges  \* bound on the number of merge-flutter-branch runs

ASSUME MergeAssumption == MaxMerges \in Nat

VARIABLES main,    \* main: its head and the feature commits it contains
          merge,   \* merge[m]: the local variables of m
          merges,  \* the number of merge-flutter-branch runs
          posts    \* the merges git was asked for, in order, for the properties

vars == <<compileVars, main, merge, merges, posts>>
-----------------------------------------------------------------------------
\* A head: the commit n of a branch, or the n-th merge commit of main.
Commit == Branch \X Nat
NoCommit == <<NoBranch, 0>>
MergeCommit(n) == <<Main, n>>
HeadOf(b) == <<b, written[b]>>

\* checked: whether two heads were compared; since: the merges git had been asked for
\* when the comparison began (for the properties)
Merge == [at : {"idle", "job", "feature head", "main head", "merge"},
          result : Result, featureHead : Commit \cup {NoCommit}, checked : BOOLEAN,
          since : Nat]
AnyResult == [branch |-> Main, status |-> "ok", tree |-> 0, declared |-> {}]
NoMerge == [at |-> "idle", result |-> AnyResult, featureHead |-> NoCommit, checked |-> FALSE,
            since |-> 0]

\* repeated: whether main had the commit already; checked: whether the heads were
\* compared; alone: whether no other merge came in between; beyond: whether main had
\* commits of another branch
Post == [commit : Commit, repeated : BOOLEAN, checked : BOOLEAN, alone : BOOLEAN,
         beyond : BOOLEAN]

Init ==
    /\ CompileInit
    /\ main = [head |-> MergeCommit(0), commits |-> {}]
    /\ merge = [m \in Merger |-> NoMerge]
    /\ merges = 0
    /\ posts = <<>>

Goto(m, at) == merge' = [merge EXCEPT ![m].at = at]
Exit(m) == merge' = [merge EXCEPT ![m] = NoMerge]
UnchangedButMerge == UNCHANGED <<task, listing, gitVars, compile, results, compiles>>

\* A functions.job.completed of compile-flutter is dispatched.
BeginMerge(m, r) ==
    /\ merges < MaxMerges
    /\ merges' = merges + 1
    /\ merge[m].at = "idle"
    /\ merge' = [merge EXCEPT ![m] = [NoMerge EXCEPT !.at = "job", !.result = r]]
    /\ UNCHANGED <<main, posts, faults>>
    /\ UnchangedButMerge

ReadFails(m, at) == merge[m].at = at /\ Fault

\* Without the Job, or without a result in it, there is nothing to do.
FetchJobFails(m) ==
    /\ ReadFails(m, "job")
    /\ Exit(m)
    /\ UNCHANGED <<main, merges, posts>>
    /\ UnchangedButMerge

WorthMergingWhateverStatus(r) == r.branch # Main

\* Nothing is merged but a feature branch that compile-flutter reports ok.
WorthMerging(r) == r.branch # Main /\ r.status = "ok"

FetchJob(m) ==
    /\ merge[m].at = "job"
    /\ IF WorthMerging(merge[m].result) THEN Goto(m, "feature head") ELSE Exit(m)
    /\ UNCHANGED <<main, merges, posts, faults>>
    /\ UnchangedButMerge

\* git answers with a head, or without a headCommitId.
Answered(head) == IF head = NoCommit THEN Fault ELSE UNCHANGED faults

ReadFeatureHead(m) ==
    /\ merge[m].at = "feature head"
    /\ \E head \in {HeadOf(merge[m].result.branch), NoCommit} :
          /\ Answered(head)
          /\ merge' = [merge EXCEPT ![m].at = "main head", ![m].featureHead = head,
                                    ![m].since = Len(posts)]
    /\ UNCHANGED <<main, merges, posts>>
    /\ UnchangedButMerge

\* 404, whichever branch it is about: the branch is taken for merged and deleted.  An
\* URLError (no answer at all) is caught nowhere and ends the function as well.
CheckEnds(m) ==
    /\ ReadFails(m, "feature head") \/ ReadFails(m, "main head")
    /\ Exit(m)
    /\ UNCHANGED <<main, merges, posts>>
    /\ UnchangedButMerge

ReadMainHeadUncompared(m) ==
    /\ merge[m].at = "main head"
    /\ merge' = [merge EXCEPT ![m].at = "merge", ![m].checked = TRUE]
    /\ UNCHANGED <<main, merges, posts, faults>>
    /\ UnchangedButMerge

\* Equal heads mean the branch is merged already; an empty head is equal to none.
ReadMainHead(m) ==
    /\ merge[m].at = "main head"
    /\ \E head \in {main.head, NoCommit} :
          /\ Answered(head)
          /\ LET both == NoCommit \notin {head, merge[m].featureHead}
             IN  IF both /\ merge[m].featureHead = head
                 THEN Exit(m)
                 ELSE merge' = [merge EXCEPT ![m].at = "merge", ![m].checked = both]
    /\ UNCHANGED <<main, merges, posts>>
    /\ UnchangedButMerge

\* A check that fails with any other status does not stop the merge.
CheckFails(m) ==
    /\ ReadFails(m, "feature head") \/ ReadFails(m, "main head")
    /\ Goto(m, "merge")
    /\ UNCHANGED <<main, merges, posts>>
    /\ UnchangedButMerge

\* git merges what the branch is at now.
GitMerge(b) ==
    LET brought == {<<b, n>> : n \in 1..written[b]}
        forward == main.commits \subseteq brought
    IN  main' = [head |-> IF forward THEN HeadOf(b) ELSE MergeCommit(Len(posts) + 1),
                 commits |-> main.commits \cup brought]

\* (The answer may get lost: the function reports an error, and git has merged.)
PostMerge(m) ==
    /\ merge[m].at = "merge"
    /\ LET b == merge[m].result.branch
       IN  /\ GitMerge(b)
           /\ posts' = Append(posts, [commit |-> HeadOf(b),
                                      repeated |-> HeadOf(b) \in main.commits,
                                      checked |-> merge[m].checked,
                                      alone |-> merge[m].since = Len(posts),
                                      beyond |-> \E c \in main.commits : c[1] # b])
    /\ Exit(m)
    /\ UNCHANGED <<merges, faults>>
    /\ UnchangedButMerge

\* The merge is refused, or the request lost: status "error".
PostMergeFails(m) ==
    /\ merge[m].at = "merge"
    /\ Fault
    /\ Exit(m)
    /\ UNCHANGED <<main, merges, posts>>
    /\ UnchangedButMerge

MergeStep(m) ==
    \/ \E r \in results : BeginMerge(m, r)
    \/ FetchJob(m) \/ FetchJobFails(m)
    \/ ReadFeatureHead(m) \/ CheckEnds(m) \/ ReadMainHead(m) \/ CheckFails(m)
    \/ PostMerge(m) \/ PostMergeFails(m)

Next ==
    \/ CompileNext /\ UNCHANGED <<main, merge, merges, posts>>
    \/ \E m \in Merger : MergeStep(m)

Spec == Init /\ [][Next]_vars
-----------------------------------------------------------------------------
TypeOK ==
    /\ CompileTypeOK
    /\ main \in [head : Commit, commits : SUBSET Commit]
    /\ merge \in [Merger -> Merge]
    /\ merges \in 0..MaxMerges
    /\ posts \in Seq(Post)

(***************************************************************************)
(* main takes commits only of a branch of which some tree was analysed and *)
(* is free of errors, although the status travels in an event and a Job,   *)
(* any of which can be delivered twice, and the branch goes on changing.   *)
(***************************************************************************)
MergedBranchWasClean ==
    \A c \in main.commits : \E r \in results :
        /\ r.branch = c[1] /\ r.status = "ok"
        /\ <<r.branch, r.tree>> \in clean

(***************************************************************************)
(* A merge that git is asked for although main has the commit already      *)
(* (BUG-20260603-001) has one of three reasons: the heads could not be     *)
(* compared, another process merged while this one compared them, or main  *)
(* has commits of another branch too, so that its head may be another      *)
(* commit.  In no other case does a merge repeat, for any number of        *)
(* processes at once, events delivered twice, and branches that move       *)
(* between the reads and the merge.                                        *)
(***************************************************************************)
RepeatedMergeHasReason ==
    \A i \in DOMAIN posts :
        posts[i].repeated => ~posts[i].checked \/ ~posts[i].alone \/ posts[i].beyond
-----------------------------------------------------------------------------
(***************************************************************************)
(* "Merges the feature branch analysed by compile-flutter": every commit   *)
(* in main is part of a tree that was analysed and found clean.            *)
(***************************************************************************)
MainIsAnalysed ==
    \A c \in main.commits : \E r \in results :
        r.branch = c[1] /\ r.status = "ok" /\ r.tree >= c[2]
===============================================================================
