--------------------------- MODULE MCScheduledTask ---------------------------
(* TLC instances of ScheduledTask.  Time units: the persistence context      *)
(* lives 1, a timeout is 2, a lease 3 (10s < timeout <= lease in the code).  *)
EXTENDS ScheduledTask, TLC

Def(kind, expr, maxRuns, cooldown) ==
    [enabled |-> TRUE, kind |-> kind, expr |-> expr, maxRuns |-> maxRuns,
     cooldown |-> cooldown, timeout |-> 2]

OnceOrTwice == {Def("interval", 1, 1, 0), Def("interval", 1, 2, 0)}
Recurring   == {Def("interval", 1, 0, 0)}
Retiring    == {Def("cron", 2, 1, 0), Def("at", 2, 0, 0)}
AnySchedule == {Def("interval", 1, 2, 1), Def("cron", 2, 1, 0), Def("at", 2, 0, 0)}

OneShot     == {Def("at", 2, 0, 1)}

PatchOf(fields, def) == [fields |-> fields, def |-> def]

(* Disable the task; give it a recurring schedule and enable it.             *)
Edits == {PatchOf({"enabled"}, [Def("at", 0, 0, 0) EXCEPT !.enabled = FALSE]),
          PatchOf({"enabled", "schedule"}, Def("interval", 1, 0, 0))}
NoPatches == {}

Symmetry == Permutations(Jobs) \cup Permutations(Tasks) \cup Permutations(Pods)
=============================================================================
