SPECIFICATION Spec
CONSTANTS
    Options <- MCOptions
    DeferLayers = 1
    PrefetchLookahead = 1
INVARIANTS
    StepUnchanged
    StageGraphsExact
\* The step of a stage ends when its gradients are reduced.
CHECK_DEADLOCK FALSE
