SPECIFICATION MCSpec
CONSTANTS
    Tasks = {t1}
    Jobs = {j1, j2}
    Pods = {p1, p2}
    FragilePods = {p1, p2}
    Editors = {e1}
    None = None
    Inputs <- AnySchedule
    Patches <- Edits
    MaxParallel = 1
    PersistTTL = 1
    LeaseFloor = 3
    LeaseSlack = 1
    StaleAfter = 1
    Outcomes = {"success"}
    Prompt = FALSE
    DBFaults = FALSE
    MaxTime = 6
    EditTime = 4
CHECK_DEADLOCK FALSE
SYMMETRY Symmetry
INVARIANTS
    TypeOK
    LeaseHeld
    ExclusiveUntilDisturbed
    NoOrphanRun
PROPERTIES
    CapHonoured
    CompletionIsCurrent
