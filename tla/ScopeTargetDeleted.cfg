SPECIFICATION Spec
CONSTANTS
    i1 = i1
    i2 = i2
    t1 = t1
    t2 = t2
    r1 = r1
    r2 = r2
    o1 = o1
    o2 = o2
    c1 = c1
    c2 = c2
    Roots = {r1, r2}
    Targets = {t1, t2}
    Clients = {c1, c2}
    Candidates <- RootsFound
    Imports = {i1}
    Operators = {o1}
INVARIANT ConfirmedHasTarget
CHECK_DEADLOCK FALSE
