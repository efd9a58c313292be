SPECIFICATION ManagerSpec
CONSTANTS
    s1 = s1
    Tasks <- NoTasks
    Sessions = {s1}
    Requests = {r1}
    SessionOf <- OneSession
    Remote <- NoTasks
    RemoteStatus <- BoardStatus
    Resolutions = {"approved", "expired"}
    Decisions = {"approved"}
    MaxVersion = 4
    Listener = ls
    Pollers = {p1}
    Callers = {c1}
    MaxFaults = 0
CHECK_DEADLOCK FALSE
INVARIANTS
    ExpiredIsNotOpen
