SPECIFICATION SSpec
CONSTANTS
    t1 = t1
    j1 = j1
    j2 = j2
    m1 = m1
    m2 = m2
    Jobs = {j1, j2}
    Targets = {t1}
    TargetOf <- OneTarget
    Managers = {m1, m2}
    Cascade = TRUE
    Faults = {"storage", "crash"}
    MaxClock = 7
SYMMETRY Interchangeable
INVARIANTS TypeOK HistoryTellsState
INVARIANTS OneProcessChains OneProcessKeepsStart OneProcessReconstructs
PROPERTIES EndedRowsAreFinal ImplementsStateMachine
CHECK_DEADLOCK FALSE
