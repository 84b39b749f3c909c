----------------------------- MODULE MCFunctionRun -----------------------------
(* FunctionRun for TLC, on the directories of MCBinaryRunner. *)
EXTENDS FunctionRun, MCBinaryRunner
===============================================================================
