------------------------------ MODULE MCService -------------------------------
(***************************************************************************)
(* Service for TLC: compile-flutter and merge-flutter-branch as shipped,   *)
(* and the chain of events that a completed task sets off.                 *)
(***************************************************************************)
EXTENDS Service

TodoCompleted == [topic |-> "work.todo.completed", payload |-> {}]

\* The completion of merge-flutter-branch triggers nothing.
Chain == {TodoCompleted, JobCompleted("compile-flutter"), JobCompleted("merge-flutter-branch")}

FromWork == {TodoCompleted}

Shipped ==
    << [name |-> "compile-flutter", trigger |-> "work.todo.completed", match |-> {}],
       [name |-> "merge-flutter-branch", trigger |-> "functions.job.completed",
        match |-> {<<"function_name", "compile-flutter">>}] >>

Environments == [agency : BOOLEAN, cross : BOOLEAN]
===============================================================================
