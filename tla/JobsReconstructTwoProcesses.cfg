SPECIFICATION SSpec
CONSTANTS
    t1 = t1
    j1 = j1
    j2 = j2
    m1 = m1
    m2 = m2
    Jobs = {j1}
    Targets = {t1}
    TargetOf <- OneTarget
    Managers = {m1, m2}
    Cascade = TRUE
    Faults = {}
    MaxClock = 6
INVARIANT ReconstructionAgrees
CHECK_DEADLOCK FALSE
