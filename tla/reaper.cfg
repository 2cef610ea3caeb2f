SPECIFICATION FairSpec
CONSTANTS
    p1 = p1
    p2 = p2
    p3 = p3
    w1 = w1
    w2 = w2
    None = None
    Pods = {q1, q2}
    Sessions = {s1}
    Granted = {}
    Procs = {p1}
    Clients = {p1}
    Workers = {w1}
    Runs <- RunsAlone
    Managers = {w1}
    Faults = {"idle", "cas", "configure", "reap", "health", "flush", "scan", "ready", "create"}
    PassKinds = {"timer"}
    Target = 1
    PoolMax = 2
    Recycle = TRUE
    SecretsPolicy = FALSE
    Overlap = {}
    MaxCrashes = 1
PROPERTIES
    OrphanReaped
