------------------------- MODULE MCMergeFlutterBranch --------------------------
(***************************************************************************)
(* compile-flutter and merge-flutter-branch for TLC.  The tasks: one that  *)
(* names its branch, one that names main and whose code two branches       *)
(* mention, one that has only its task/{task_id}.                          *)
(***************************************************************************)
EXTENDS MergeFlutterBranch

CONSTANTS b1, b2, m1, m2

MergersAlike == Permutations({m1, m2})

ThreeTasks ==
    { [branchName |-> b1, mentioned |-> {}, own |-> NoBranch],
      [branchName |-> Main, mentioned |-> {b1, b2}, own |-> b2],
      [branchName |-> NoBranch, mentioned |-> {}, own |-> b1] }
OneTask == { [branchName |-> b1, mentioned |-> {b1}, own |-> NoBranch] }

BothOrNot == {<<Main, b1, b2>>, <<b2, Main>>}
OnlyOne == {<<Main, b1>>}
===============================================================================
