CONSTANTS
    b1 = b1
    b2 = b2
    k1 = k1
    k2 = k2
    k3 = k3
    p1 = p1
    None = None
    Builders = {b1, b2}
    Blocks = {k1, k2, k3}
    Proposers = {p1}
    AuctionSlot = 2
    BidTimeout = 2
    Submissions <- MCSubmissions
    Forged <- NoneForged
    Handlers = {h1, h2}
    MaxRequests = 2
    MaxTime = 1
    MaxSlot = 2
    MaxFailures = 0
SPECIFICATION Spec
PROPERTY LatestBidKept
