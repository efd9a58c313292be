SPECIFICATION MailSpec
CONSTANTS
    MailPods = {p1}
    MaxUid = 2
    UidWindow = 2
    Headerless = {}
    MailFaults = 1
INVARIANTS NeverSkipped
CHECK_DEADLOCK FALSE
