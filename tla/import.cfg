SPECIFICATION FairSpec
CONSTANTS
    sheet = sheet
    small = small
    backend = backend
    worker = worker
    none = none
    NoProcess = none
    NoFile = none
    Files = {sheet, small}
    Contents <- MCContents
    StoredBefore = {small}
    MaxCampaigns = 2
    HandAdded <- MCHandAdded
    Processes = {backend, worker}
    SocketProcesses = {backend}
    Attempts = 2
    MaxStalls = 0
    BatchSize = 2
    MaxJobs = 1
    Faults = {"insert", "crash", "parse", "upload", "create", "remove"}
INVARIANTS
    TypeOK
    TotalDrift
    ProcessingMeansWork
    SourceIsWhatItSays
    OneRowPerMailbox
PROPERTIES
    ImportIsWhole
    QueueDrains
CHECK_DEADLOCK FALSE
