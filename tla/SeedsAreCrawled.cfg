SPECIFICATION SSpec
CONSTANTS
    h1 = h1
    h2 = h2
    page = page
    out = out
    w1 = w1
    w2 = w2
    Hosts = {h1, h2}
    Schemes = {"https"}
    Pages = {page, out}
    InScope <- AllButOut
    Links <- PageLinks
    Listed <- HomeListed
    Workers = {w1, w2}
    Burst = 1
    MaxDepth = 1
    MaxURLsPerHost = 2
INVARIANT SeedsAreCrawled
CHECK_DEADLOCK FALSE
