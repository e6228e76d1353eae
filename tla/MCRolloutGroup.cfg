CONSTANTS
    PadToken = PadToken
    NoLogprob = NoLogprob
    GroupSize = 2
    CompletionLens <- Lens
    MaxRolloutTokens = 6
    MaxNumTurns = 3
    BatchConfigs <- Configs
    Rewards <- RewardPairs
    FirstPrompts = {1, 6}
SPECIFICATION FairSpec
INVARIANTS TrainedInContext NoRankIdles
PROPERTY GroupEnds
CHECK_DEADLOCK FALSE
