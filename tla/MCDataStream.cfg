CONSTANTS
    SeqLen = 3
    BatchSize = 2
    PackingBufferSize = 2
    MaxRows = 6
    MaxDraws = 6
    MaxSaves = 2
    MaxRestarts = 1
    Configs <- AllConfigs

SPECIFICATION FairSpec

INVARIANTS
    ResumeExact
    StreamFaithful

PROPERTIES
    NextReturns
