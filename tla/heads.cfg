CONSTANTS
    Nodes = {n1, n2}
    Reliable = {n1}
    SlotsPerEpoch = 3
    Horizon = 6
    MaxSlot = 8
    MaxHeads = 2
SPECIFICATION HeadFairSpec
CHECK_DEADLOCK FALSE
INVARIANTS
    HeadInductive
    DutiesKnown
    RandaoKnown
PROPERTIES
    KeepsRecent
    DutiesArrive
