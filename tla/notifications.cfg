SPECIFICATION Spec
CONSTANTS
    completed = completed
    info = info
    backend = backend
    worker = worker
    Notes = {1, 2, 3}
    Types = {completed, info}
    Subscribable = {completed}
    Processes = {backend, worker}
    SocketProcesses = {backend}
    TypeOf <- MCTypeOf
    ProcessOf <- MCProcessOf
    Limit = 1
    TicksPerMs = 2
    MaxTicks = 2
    MaxPages = 3
    MaxSwitches = 1
INVARIANTS
    CallersAreTold
    GapsAreOneMillisecond
    NothingTwice
PROPERTIES
    OffMeansSilent
CHECK_DEADLOCK FALSE
