\* Two data-parallel ranks; any loop may crash, the controller may pull and close.
SPECIFICATION Spec
CONSTANTS
    NumRanks = 2
    Requests = {r1, r2}
    Burst = 2
    MaxTokens = 2
    MaxSeqs = 1
    MaxBehind = 1
    MaxVersion = 2
\* Once every request is answered and the last version pulled, nothing is left
\* to do.
CHECK_DEADLOCK FALSE
INVARIANTS OnePlace LoadsMatch StampCovers 
PROPERTIES CallsAnswered CloseEndsAll
