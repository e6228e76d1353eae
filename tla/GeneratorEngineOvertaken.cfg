\* As GeneratorEngine.cfg, for what holds of rank 0 only.
SPECIFICATION Spec
CONSTANTS
    NumRanks = 2
    Requests = {r1, r2}
    Burst = 2
    MaxTokens = 2
    MaxSeqs = 1
    MaxBehind = 1
    MaxVersion = 2
CHECK_DEADLOCK FALSE
INVARIANT PullsAwaited
