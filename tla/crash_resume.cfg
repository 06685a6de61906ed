SPECIFICATION FairSpec
CONSTANTS
    r1 = r1
    r2 = r2
    r3 = r3
    backend = backend
    worker = worker
    none = none
    NoProcess = none
    Recipients = {r1}
    InitialRecipients = {r1}
    MayUnsubscribe = {}
    Processes = {backend}
    SocketProcesses = {backend}
    MaxCalls = 2
    Schedules = {FALSE}
    Attempts = 1
    MaxStalls = 1
    Concurrency = 1
    DailyLimit = 2
    PatchStatuses = {}
    Faults = {"attempt", "token", "crash"}
INVARIANTS
    RepeatsArePaidFor
PROPERTIES
    EveryJobEnds
CHECK_DEADLOCK FALSE
