CONSTANTS
    b1 = b1
    b2 = b2
    k1 = k1
    k2 = k2
    p1 = p1
    p2 = p2
    None = None
    Builders = {b1}
    Blocks = {k1}
    Submissions <- MCOneSubmission
    Forged <- NoneForged
    Handlers = {h1}
    Getters = {g1}
    Payers = {q1}
    Testers = {g1}
    AuctionSlot = 1
    MaxSlot = 1
    BidTimeout = 1
    TestProposer = p1
    TestBlock = k1
    Proposers = {p1}
    MaxRequests = 1
    MaxTime = 0
    MaxFailures = 1
    MaxGets = 2
    MaxFaults = 1
SPECIFICATION RelayFairSpec
INVARIANT OfferedWasRecorded
PROPERTIES
    HeaderAnswered
    PayloadAnswered
