SPECIFICATION Spec
CONSTANTS
    p1 = p1
    p2 = p2
    p3 = p3
    w1 = w1
    w2 = w2
    None = None
    Pods = {q1, q2}
    Sessions = {s1, s2}
    Granted = {s1}
    Procs = {p1, p2}
    Clients = {p1, p2}
    Workers = {w1, w2}
    Runs <- RunsApart
    Managers = {}
    Faults = {"prefetch", "cas", "configure", "label", "wipe", "list", "delete", "create"}
    PassKinds = {"timer"}
    Target = 1
    PoolMax = 2
    Recycle = TRUE
    SecretsPolicy = TRUE
    Overlap = {}
    MaxCrashes = 1
SYMMETRY PodSymmetry
INVARIANTS
    OneHolder
    WarmIsClean
    PolicyNotForeign
PROPERTIES
    LeaseKept
