SPECIFICATION Spec
CONSTANTS
    p1 = p1
    p2 = p2
    p3 = p3
    w1 = w1
    w2 = w2
    None = None
    Pods = {q1}
    Sessions = {s1, s2, s3}
    Granted = {}
    Procs = {p1, p2, p3}
    Clients = {p1, p2, p3}
    Workers = {w1, w2}
    Runs <- RunsMixed
    Managers = {}
    Faults = {}
    PassKinds = {"timer"}
    Target = 1
    PoolMax = 2
    Recycle = TRUE
    SecretsPolicy = FALSE
    Overlap = {"destroy"}
    MaxCrashes = 0
SYMMETRY PodSymmetry
INVARIANTS
    OneHolder
