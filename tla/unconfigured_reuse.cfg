SPECIFICATION Spec
CONSTANTS
    p1 = p1
    p2 = p2
    p3 = p3
    w1 = w1
    w2 = w2
    None = None
    Pods = {q1}
    Sessions = {s1}
    Granted = {}
    Procs = {p1}
    Clients = {p1}
    Workers = {w1}
    Runs <- RunsAlone
    Managers = {}
    Faults = {"configure"}
    PassKinds = {"timer"}
    Target = 1
    PoolMax = 2
    Recycle = TRUE
    SecretsPolicy = FALSE
    Overlap = {}
    MaxCrashes = 0
SYMMETRY PodSymmetry
PROPERTIES
    CreateConfigures
