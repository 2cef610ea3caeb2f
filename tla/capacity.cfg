SPECIFICATION Spec
CONSTANTS
    p1 = p1
    p2 = p2
    p3 = p3
    w1 = w1
    w2 = w2
    None = None
    Pods = {q1, q2, q3}
    Sessions = {s1}
    Granted = {}
    Procs = {p1}
    Clients = {p1}
    Workers = {w1}
    Runs <- RunsAlone
    Managers = {w1}
    Faults = {"age", "sweep", "create"}
    PassKinds = {"timer", "manual"}
    Target = 1
    PoolMax = 3
    Recycle = FALSE
    SecretsPolicy = FALSE
    Overlap = {}
    MaxCrashes = 0
SYMMETRY PodSymmetry
INVARIANTS
    TypeOK
    WarmWithinTwoTargets
