SPECIFICATION FairSpec
CONSTANTS
    Tasks = {t1}
    Jobs = {j1, j2}
    Pods = {p1}
    FragilePods = {p1}
    Editors = {}
    None = None
    Inputs <- OnceOrTwice
    Patches <- NoPatches
    MaxParallel = 1
    PersistTTL = 1
    LeaseFloor = 3
    LeaseSlack = 1
    StaleAfter = 1
    Outcomes = {"success"}
    Prompt = FALSE
    DBFaults = TRUE
    MaxTime = 5
PROPERTIES
    LeaseRecovered
