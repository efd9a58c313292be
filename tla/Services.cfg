SPECIFICATION MCSpec
CONSTANTS
    p1 = p1
    p2 = p2
    k1 = k1
    k2 = k2
    k3 = k3
    pA = pA
    pB = pB
    pC = pC
    pM = pM
    pX = pX
    MailPods = {p1, p2}
    MaxUid = 2
    UidWindow = 1
    Headerless = {2}
    MailFaults = 1
    Senders = {p1, p2}
    Letters = {1, 2, 3}
    RecipientOf <- MCRecipientOf
    Nobody = 0
    Day = 3
    Retry = 2
    VacFaults = 1
    Fetchers = {p1}
    Executors = {p1, p2}
    Intents = {k1, k2}
    BatchSize = 1
    IntentFaults = 1
    PipePods = {p1, p2}
    Asked = {p1}
    Important = {1}
    ConfiguredDry = TRUE
    NoPod = NoPod
    PipeFaults = 1
    Consumers = {p1, p2}
    MaxSeq = 3
    MaxQueue = 1
    WindowSize = 1
    BusFaults = 1
    Calls = {k1, k2, k3}
    BodyOf <- MCBodyOf
    NoCall = NoCall
    TTL = 1
    IdemTime = 3
    HubClients = {p1, p2}
    Aimed = {p1}
    HubCap = 1
    SendCap = 2
    MaxHubMsg = 2
    MaxPings = 1
    Conns = {pA, pB, pC, pM, pX}
    ConnId <- MCConnId
    ConnKind <- MCConnKind
    ConnSpace <- MCConnSpace
    NoConn = NoConn
    PlugCap = 2
    MaxCommands = 1
    Callers = {k1, k2}
    RecvCap = 1
    PipeRoom = 1
    MaxNotes = 2
    RunTasks = {k1, k2}
    MaxRunSeq = 3
    CreatedOf <- MCCreatedOf
    Normal = {1, 3}
    Requests = {k1, k2}
    Verifiers = {p1, p2}
    CodeInterval = 1
    CodeTTL = 2
    CodeDailyMax = 2
    CodeTime = 3
INVARIANTS
    TypesOK SkippedOnlyIfFailed OneReplyADay IntentOutcome RemindedOnce MovesOnlyIfAsked
    OneExecution NothingMissed ConnectedIsListed ClientsAgree CursorIsBacked
    AcceptedOnce
PROPERTIES
    MailIsStored LetterIsAnswered ImplementsFeed EventIsReached LeaverIsReleased CloseReturns
CHECK_DEADLOCK FALSE
