CONSTANTS
    None = None
    Members = {m1, m2}
    MaxStake = 1
    GroupSize = 2
    MaxChanges = 2
    MaxFailures = 1
SPECIFICATION RegistryFairSpec
INVARIANTS
    RegistryInductive
    RedisIsWhatWasSeen
    ActiveWasPaidFor
    RoundApplied
    NoneForgotten
PROPERTIES
    RowsFollowPool
    StatusFollowsPool
    KeysFollowPool
