CONSTANTS
    MaxActiveRolloutGroups = 3
    RolloutGroups = {r1, r2}
    NoGroup = NoGroup
    MaxGroups = 5

SPECIFICATION FairSpec

INVARIANTS
    SlotsAccountedFor
    StrictFifo

PROPERTY EveryGroupLeaves
