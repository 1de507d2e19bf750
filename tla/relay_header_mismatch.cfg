CONSTANTS
    b1 = b1
    b2 = b2
    k1 = k1
    k2 = k2
    p1 = p1
    p2 = p2
    None = None
    Builders = {b1, b2}
    Blocks = {k1, k2}
    Submissions <- MCSubmissions
    Forged <- NoneForged
    Handlers = {h1}
    Getters = {g1}
    Payers = {q1}
    Testers = {}
    AuctionSlot = 1
    MaxSlot = 1
    BidTimeout = 1
    TestProposer = p1
    TestBlock = k1
    Proposers = {p1, p2}
    MaxRequests = 1
    MaxTime = 0
    MaxFailures = 0
    MaxGets = 1
    MaxFaults = 0
SPECIFICATION RelaySpec
INVARIANT HeaderRowsMatchBid
