SPECIFICATION ServicesFairSpec
CONSTANTS
    Parts = {"usage", "webhooks", "sync"}
    \* SessionLocks
    Tasks = {t1, t2}
    Keys = {k1, k2, k3}
    Locks = {l1, l2, l3, l4}
    NoLock = NoLock
    Cap = 1
    CheckWaiters = TRUE
    \* UsagePolicy
    Callers = {"c1", "c2"}
    Replicas = {"r1", "r2"}
    ServedBy <- CallersServedBy
    Accounts = {"a1", "a2"}
    AccountOf <- CallersAccount
    SessionIds = {"s1", "s2"}
    AccountCap = 1
    GlobalCap = 2
    LockBackend = "postgres"
    EarlyTeardown = TRUE
    CallFaults = {"orphan", "destroy"}
    MaxRestarts = 1
    \* Idempotency
    Requests = {"q1", "q2", "q3", "q4", "q5"}
    KeyOf <- RequestsKey
    BodyOf <- RequestsBody
    MayFail = {"q4", "q5"}
    MayDie = {"q1", "q4"}
    \* Snapshots
    Users = {"u1", "u2"}
    Snaps = {"n1", "n2", "n3"}
    Seeds = {"i1"}
    Files = {"f1", "f2"}
    MaxSnapshots = 1
    DeletesPending = FALSE
    SnapFaults = {"flush", "copy", "create", "delete", "die"}
    Denied = {"f1"}
    \* WebhookDelivery
    Subs = {"b1", "b2"}
    Events = {"e1"}
    Hooks = {"h1"}
    MaxHooks = 2
    MaxAttempts = 2
    HookFaults = {"secret", "die", "port", "write"}
    MaxLapses = 1
    \* ExecLog
    Writers = {"w1", "w2"}
    ProcessOf <- WritersProcess
    MaxRows = 3
    MaxReadings = 3
    WatchBatch = 1
    \* Takeover
    Conns = {"g1", "g2", "g3"}
    ReadOnly = {"g2", "g3"}
    MaxTyped = 2
    MaxLogged = 1
    TakeFaults = {"log", "upload"}
    \* AccessTokens
    Onces = {"o1"}
    Links = {"j1", "j2"}
    OnceTtl = 2
    LinkTtls = {1, 3}
    MaxTtl = 3
    MaxNow = 6
    \* Recovery
    Drivers = {"d1", "d3"}
    Placing = {"d3"}
    MaxLosses = 1
    NoDriver = "-"
    \* ClientCalls
    MaxRetries = 2
    BatchCreate = FALSE
    \* ToolCalls
    ToolCallIds = {"k1", "k2"}
    ToolsOf <- CallsTools
    HasSkills = TRUE
    \* SidecarSession
    SidecarCalls = {"v1", "v2"}
    RoutesOf <- CallsRoutes
    MaxTenants = 2
    ExecCount = 1
    ExecTime = 1
    Durations = {1, 2}
    Overlaps = FALSE
    \* SidecarSync
    Paths = {"p1"}
    Flushers = {"periodic", "present"}
    Asked = {"present"}
    MaxWrites = 3
    SyncSessions = {"A", "B"}
    MaxConfigures = 2
    UploadFails = TRUE
    CopiesBack = TRUE
    \* SidecarProcesses
    Procs = {"x1", "x2"}
    Forking = {"x1"}
    Ports = {"w1"}
    StopCalls = {"y1"}
    MaxProcesses = 2
    OutputMax = 1
    MaxPrinted <- ProcsPrint
    MaxSidecars = 2
PROPERTIES
    SlotFreed
    
CHECK_DEADLOCK FALSE
