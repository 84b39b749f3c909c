---------------------------- MODULE MCBinaryRunner ----------------------------
(***************************************************************************)
(* BinaryRunner for TLC.  The names are those of two functions for one     *)
(* event, the first one with a qualifier (emit-event and start-pipeline),  *)
(* and of one for another event that is shipped without its binary         *)
(* (create-branch, here listed last).                                      *)
(***************************************************************************)
EXTENDS BinaryRunner, TLC

CONSTANTS pipelineRequested, branchCreate, functionCode

Shipped ==
    << [manifest |-> Asking(pipelineRequested, {functionCode}), binary |-> "whole"],
       [manifest |-> Asking(pipelineRequested, {}), binary |-> "whole"],
       [manifest |-> Asking(branchCreate, {}), binary |-> "absent"] >>

Nothing == [n \in Name |-> [manifest |-> Unreadable("absent"), binary |-> "absent"]]

ShippedOnly == {Shipped}
ShippedOrEmpty == {Shipped, Nothing}
===============================================================================
