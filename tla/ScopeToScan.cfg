SPECIFICATION CSpec
CONSTANTS
    i1 = i1
    i2 = i2
    t1 = t1
    t2 = t2
    r1 = r1
    r2 = r2
    o1 = o1
    o2 = o2
    c1 = c1
    c2 = c2
    h1 = h1
    h2 = h2
    page = page
    out = out
    w1 = w1
    w2 = w2
    Roots = {r1, r2}
    Targets = {t1, t2}
    Clients = {c1, c2}
    Candidates <- RootsFound
    Imports = {i1, i2}
    Operators = {o1, o2}
    Names <- HostNames
    Paths <- PathNames
    Entries <- FileEntries
    Patterns <- NamedPatterns
    MaxEntries = 2
    MaxElements = 3
    Hosts = {h1, h2}
    Schemes = {"https"}
    Pages = {page, out}
    InScope <- AllButOut
    Links <- PageLinks
    Listed <- PageListed
    Workers = {w1, w2}
    Burst = 1
    MaxDepth = 1
    MaxURLsPerHost = 2
INVARIANTS TargetsAreAttributed AnswersAreTrue
INVARIANTS ScanTypeOK ScopeFollowsFile ReportedOnce CompletedIsComplete
PROPERTIES ImplementsConfirmation RequestsEnd
PROPERTIES EditsGoOneWay ImplementsScanRun ScansEnd
CHECK_DEADLOCK FALSE
