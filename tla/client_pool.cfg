CONSTANTS
    n1 = n1
    n2 = n2
    n3 = n3
    NoClient = NoClient
    Nodes = {n1, n2, n3}
    N = 3
    Listing <- ThreeNodes
    Rounds = {r1}
    Main = main
    MaxSorts = 1
    MaxFailures = 1
SPECIFICATION PoolFairSpec
CHECK_DEADLOCK FALSE
INVARIANTS
    PoolInductive
    ListedWhileStarting
    NoCrashOnceSubscribed
PROPERTIES
    SubscribesWhenAllSynced
    AllSyncedIsEnough
