SPECIFICATION MCSpec
CONSTANTS
    s1 = s1
    Tasks = {t1}
    Sessions = {s1}
    Requests = {r1}
    SessionOf <- OneSession
    Remote <- NoTasks
    RemoteStatus <- BoardStatus
    Resolutions = {"approved", "rejected", "expired"}
    Decisions = {"rejected"}
    MaxVersion = 13
    Listener = ls
    Pollers = {p1}
    Callers = {c1}
    MaxFaults = 2
INVARIANTS
    ManagerTypeOK
    CachedIsKnown
    PendingIsTracked
PROPERTIES
    OpenIsAsked
    ClosedIsGone
    ClosedIsResolved
    CompletionSeesCache
