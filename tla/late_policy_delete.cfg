SPECIFICATION Spec
CONSTANTS
    p1 = p1
    p2 = p2
    p3 = p3
    w1 = w1
    w2 = w2
    None = None
    Pods = {q1}
    Sessions = {s1, s2}
    Granted = {s1, s2}
    Procs = {p1, p2}
    Clients = {p1, p2}
    Workers = {w1, w2}
    Runs <- RunsApart
    Managers = {}
    Faults = {}
    PassKinds = {"timer"}
    Target = 1
    PoolMax = 2
    Recycle = TRUE
    SecretsPolicy = TRUE
    Overlap = {}
    MaxCrashes = 0
SYMMETRY PodSymmetry
INVARIANTS
    GrantedKeepsPolicy
