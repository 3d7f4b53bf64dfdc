CONSTANTS
    Requests = {q1, q2}
    MaxRows = 5
    MaxChanges = 4
    None = None
    Logins = {r1, r2, r3}
    Users = {q1, q2}
    MaxFailed = 3
    MaxSessions = 2
    MaxRequests = 6
    MaxMishaps = 1
    Jobs = {j1, j2}
    Tasks = {g1, g2, g3}
    MaxConnections = 2
    Processes = {q1, q2}
    Migrations = 2
    Idempotent = {2}
    CatalogueVersion = 2
    Templates = 2
    MaxStarts = 3
    MaxBreakdowns = 2
    Restores = {s1, s2}
    Deployments = {r1, r2, r3}
    MaxCommits = 2
    MaxStray = 1
    MaxLosses = 1
    Projects = {o1}
    Channels = {r1, r2, r3}
    EventTypes = {deploy_failure}
    Dispatches = {e1}
    Budget = 4
    CallLimit = 2
    MaxEvents = 1
    MaxTroubles = 2
    Clients = {1}
    Burst = 1
    Rate = 1
    MaxCalls = 8
    MaxTicks = 3
    MaxSize = 2
    MaxFiles = 1
    MaxMessage = 3
    Long = {3}
    MaxLines = 4
    MaxFailures = 2
    Readers = {1}
    Limit = 2
    Hits = {1, 3, 4}
    MaxListed = 5
    MaxDeletes = 2
    MaxWalks = 1
    Modulus = 5
    MegaByte = 2
    Memory = {1, 6}
    Disk = {1}
    MaxAdvances = 2
    MaxStep = 1
    MaxSlips = 2
INIT ReadingsInit
NEXT ReadingsNext
SYMMETRY Interchangeable
INVARIANTS StateTypeOK AccessBounded RowsHang DoneDelivers RotationKeeps FewSkipped CaughtUp FileKept FairShare CpuHonest
PROPERTIES NewestSessionsKept OutcomeStands
CHECK_DEADLOCK FALSE
