CONSTANTS
    n1 = n1
    n2 = n2
    n3 = n3
    NoClient = NoClient
    Nodes = {n1, n2}
    N = 2
    Listing <- TwoNodes
    Rounds = {r1}
    Main = main
    MaxSorts = 1
    MaxFailures = 0
SPECIFICATION PoolFairSpec
CHECK_DEADLOCK FALSE
PROPERTY OneSyncedIsEnough
