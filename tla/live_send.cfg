SPECIFICATION FairSpec
CONSTANTS
    r1 = r1
    r2 = r2
    r3 = r3
    backend = backend
    worker = worker
    none = none
    NoProcess = none
    Recipients = {r1, r2}
    InitialRecipients = {r1, r2}
    MayUnsubscribe = {}
    Processes = {backend, worker}
    SocketProcesses = {backend}
    MaxCalls = 1
    Schedules = {TRUE, FALSE}
    Attempts = 2
    MaxStalls = 1
    Concurrency = 2
    DailyLimit = 4
    PatchStatuses = {}
    Faults = {"attempt"}
INVARIANTS
    CountersMatchRecipients
    FinishedMeansSettled
PROPERTIES
    EveryEmailSettles
CHECK_DEADLOCK FALSE
