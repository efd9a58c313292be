---------------------- MODULE MCScheduledTaskScenarios ----------------------
(* Two scenarios of ScheduledTask in one run.  "pods": two pods crash, stop  *)
(* and restart, and nobody edits.  "edits": nothing crashes, and a user      *)
(* edits tasks that retire, for a shorter time.                              *)
EXTENDS MCScheduledTask

CONSTANT EditTime

VARIABLE scenario

NoEdits   == req' = req
NoCrashes == pod' = pod /\ now' <= EditTime
Retire    == \A t \in Tasks : phase[t] = "unborn" /\ phase'[t] = "stored"
                                   => row'[t].def \in Retiring

MCInit == Init /\ scenario \in {"pods", "edits"}
MCNext ==
    /\ Next
    /\ scenario = "pods" => NoEdits
    /\ scenario = "edits" => NoCrashes /\ Retire
    /\ UNCHANGED scenario
MCSpec == MCInit /\ [][MCNext]_<<vars, scenario>>
=============================================================================
