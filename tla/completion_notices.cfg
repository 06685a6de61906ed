SPECIFICATION Spec
CONSTANTS
    r1 = r1
    r2 = r2
    r3 = r3
    backend = backend
    worker = worker
    none = none
    NoProcess = none
    Recipients = {r1, r2}
    InitialRecipients = {r1, r2}
    MayUnsubscribe = {}
    Processes = {backend}
    SocketProcesses = {backend}
    MaxCalls = 1
    Schedules = {FALSE}
    Attempts = 3
    MaxStalls = 1
    Concurrency = 5
    DailyLimit = 500
    PatchStatuses = {}
    Faults = {}
INVARIANTS
    OneCompletionNotice
CHECK_DEADLOCK FALSE
