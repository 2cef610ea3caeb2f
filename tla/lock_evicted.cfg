SPECIFICATION Spec
CONSTANTS
    Tasks = {t1, t2, t3}
    Keys = {k1, k2}
    Locks = {l1, l2, l3, l4}
    NoLock = NoLock
    Cap = 1
    CheckWaiters = FALSE
SYMMETRY Symmetry
INVARIANTS
    MutualExclusion
