SPECIFICATION Spec
CONSTANTS
    j1 = j1
    j2 = j2
    c1 = c1
    c2 = c2
    Jobs = {j1}
    Cancellers = {c1}
    MaxSweeps = 1
    MaxFaults = 1
INVARIANT ProbesNeedActiveTarget
CHECK_DEADLOCK FALSE
