SPECIFICATION TSpec
CONSTANTS
    t1 = t1
    j1 = j1
    j2 = j2
    m1 = m1
    m2 = m2
    a1 = a1
    a2 = a2
    Jobs = {j1}
    Targets = {t1}
    TargetOf <- OneTarget
    Managers = {m1}
    Cascade = FALSE
    Faults = {}
    MaxClock = 5
    Admins = {a1}
    MaxEdits = 2
INVARIANT SettledJobsHaveActiveTargets
CHECK_DEADLOCK FALSE
