SPECIFICATION Spec
CONSTANTS
    Tasks = {t1}
    Jobs = {j1, j2}
    Pods = {p1}
    FragilePods = {}
    Editors = {}
    None = None
    Inputs <- OneShot
    Patches <- NoPatches
    MaxParallel = 1
    PersistTTL = 1
    LeaseFloor = 3
    LeaseSlack = 1
    StaleAfter = 1
    Outcomes = {"success"}
    Prompt = TRUE
    DBFaults = FALSE
    MaxTime = 6
CHECK_DEADLOCK FALSE
INVARIANTS
    OneShotRetired
