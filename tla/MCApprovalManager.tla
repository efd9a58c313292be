-------------------------- MODULE MCApprovalManager --------------------------
(* TLC instances of ApprovalManager. *)
EXTENDS ApprovalManager

CONSTANTS s1

OneSession  == [r \in Requests |-> s1]
BoardStatus == {"active"}
NoTasks     == {}
=============================================================================
