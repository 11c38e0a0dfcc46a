SPECIFICATION RSpec
CONSTANTS
    x1 = x1
    x2 = x2
    e1 = e1
    hA = hA
    hC = hC
    i1 = i1
    v1 = v1
    v2 = v2
    t1 = t1
    t2 = t2
    a1 = a1
    a2 = a2
    p1 = p1
    p2 = p2
    s1 = s1
    s2 = s2
    tech = tech
    f1 = f1
    f2 = f2
    Clients = {x1, x2}
    Clues = {e1}
    Theories = {hA}
    Baselines = {hC}
    MaxRequests = 3
    Bodies = {"INVESTIGATING", "SUPPORTED"}
    Researchers = {x1, x2}
    Investigation = {i1}
    NumSteps = 2
    MaxInvRequests = 6
    Records = {v1, v2}
    EvTargets = {t1, t2}
    Contents <- Exchanges
    Posters = {x1, x2}
    MaxPosts = 3
    Analysts = {x1, x2}
    Assets = {a1, a2}
    MaxRuns = 2
    MaxFound = 1
    Plans = {p1, p2}
    Planners = {x1, x2}
    MaxGranted = 2
    Services = {s1, s2}
    AssetOf <- ServiceAssets
    OwnerOf <- AssetOwners
    Technologies = {tech}
    Faces = {f1, f2}
    Decisions = {"DISMISSED"}
    Answers <- ProbeAnswers
    Probers = {x1, x2}
    MaxProbes = 2
    Subscribers = {x1, x2}
    Types = {"recon", "waf"}
    MaxHistory = 2
    Buffer = 2
    MaxEvents = 5
    Recovery = 3
    MaxResponses = 8
    MaxFaults = 1
INVARIANTS ResearchTypeOK RecordsVerify InMemoryRunsSettle ApprovedOnce
INVARIANTS SerialProbesAgree DeliveryIsOrderly BreakerRemembers
PROPERTIES SupportIsGuarded OwedBlocksSupport StepsNeverUndone
CHECK_DEADLOCK FALSE
