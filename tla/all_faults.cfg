SPECIFICATION Spec
CONSTANTS
    r1 = r1
    r2 = r2
    r3 = r3
    backend = backend
    worker = worker
    none = none
    NoProcess = none
    Recipients = {r1, r2}
    InitialRecipients = {r1, r2}
    MayUnsubscribe = {}
    Processes = {backend}
    SocketProcesses = {backend}
    MaxCalls = 1
    Schedules = {TRUE}
    Attempts = 1
    MaxStalls = 1
    Concurrency = 2
    DailyLimit = 2
    PatchStatuses = {}
    Faults = {"attempt", "call", "event", "token", "crash", "remove"}
SYMMETRY Symmetry
INVARIANTS
    TypeOK
    SentMeansMailed
    EarlyNoticeIsPaidFor
PROPERTIES
    EmailsSettle
CHECK_DEADLOCK FALSE
