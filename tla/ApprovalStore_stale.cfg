SPECIFICATION Spec
CONSTANTS
    t1 = t1
    t2 = t2
    s1 = s1
    s2 = s2
    r1 = r1
    r2 = r2
    Tasks = {t1}
    Sessions = {s1, s2}
    Requests = {r1, r2}
    SessionOf <- TwoSessions
    Remote <- NoRemote
    RemoteStatus <- BoardStatus
    Resolutions = {"approved"}
    MaxVersion = 3
INVARIANTS
    NoStalePending
