SPECIFICATION FairSpec
CONSTANTS
    EpSize = 2
    LocalExperts = 2
    TopK = 2
    Tokens = 2
    Layers = 2
    BufferCount = 2
    LayerRoutings <- Tried
    PadMultiple = 2
    SpSizes = {1, 2, 3}
    MaxBatch = 2
    MaxSeq = 6
INVARIANTS
    ExchangesDeliver
    SavedOutputIntact
    DispatchersAgree
PROPERTIES
    StepEnds
CHECK_DEADLOCK FALSE
