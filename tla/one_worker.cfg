SPECIFICATION HistorySpec
CONSTANTS
    p1 = p1
    p2 = p2
    w1 = w1
    None = None
    Pods = {q1, q2, q3}
    Sessions = {s1, s2}
    Granted = {}
    Procs = {p1, p2}
    Clients = {p1, p2}
    Workers = {w1}
    Runs <- RunsTogether
    Managers = {}
    Faults = {"cas", "configure", "label", "create", "delete", "ready"}
    PassKinds = {"timer"}
    Target = 1
    PoolMax = 2
    Recycle = TRUE
    SecretsPolicy = FALSE
    Overlap = {"create"}
    MaxCrashes = 0
SYMMETRY PodSymmetry
INVARIANTS
    OnePodPerSession
