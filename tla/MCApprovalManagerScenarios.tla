---------------------- MODULE MCApprovalManagerScenarios ----------------------
(* Two scenarios of ApprovalManager in one run.  "faults": nobody stores a   *)
(* task, everything may fail, and users answer.  "tasks": a task lives       *)
(* beside the managers and is not deleted, one transaction may fail, and     *)
(* nobody answers: requests are withdrawn or answered elsewhere.             *)
EXTENDS MCApprovalManager

VARIABLE scenario

NoTaskStored == UNCHANGED task
OneTask ==
    /\ UNCHANGED faults \/ (faults' <= 1 /\ \E w \in Workers : ApplyFails(w))
    /\ \A c \in Callers : worker'[c] = Idle
    /\ deleting' = {}

MCInit == ManagerInit /\ scenario \in {"faults", "tasks"}
MCNext ==
    /\ ManagerNext
    /\ scenario = "faults" => NoTaskStored
    /\ scenario = "tasks" => OneTask
    /\ UNCHANGED scenario

MCSpec == MCInit /\ [][MCNext]_<<allVars, scenario>> /\ Fairness
=============================================================================
