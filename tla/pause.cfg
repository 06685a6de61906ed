SPECIFICATION Spec
CONSTANTS
    r1 = r1
    r2 = r2
    r3 = r3
    backend = backend
    worker = worker
    none = none
    NoProcess = none
    Recipients = {r1, r2}
    InitialRecipients = {r1, r2}
    MayUnsubscribe = {}
    Processes = {backend}
    SocketProcesses = {backend}
    MaxCalls = 2
    Schedules = {FALSE}
    Attempts = 1
    MaxStalls = 1
    Concurrency = 1
    DailyLimit = 4
    PatchStatuses = {}
    Faults = {"token"}
INVARIANTS
    EarlyNoticeIsPaidFor
    PauseParksTheRest
SYMMETRY Symmetry
CHECK_DEADLOCK FALSE
