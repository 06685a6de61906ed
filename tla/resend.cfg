SPECIFICATION Spec
CONSTANTS
    r1 = r1
    r2 = r2
    r3 = r3
    backend = backend
    worker = worker
    none = none
    NoProcess = none
    Recipients = {r1, r2}
    InitialRecipients = {r1}
    MayUnsubscribe = {r1}
    Processes = {backend}
    SocketProcesses = {backend}
    MaxCalls = 2
    Schedules = {TRUE}
    Attempts = 2
    MaxStalls = 1
    Concurrency = 2
    DailyLimit = 3
    PatchStatuses = {"draft"}
    Faults = {"call"}
INVARIANTS
    OneMailPerRecipient
PROPERTIES
    OptOutHolds
CHECK_DEADLOCK FALSE
