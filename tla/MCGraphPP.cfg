CONSTANTS
    Layouts <- SmallLayouts
    Passes <- SmallPasses
    MaxReshards = 1
SPECIFICATION Spec
INVARIANTS WholeModelInOrder GradsExact HandlersSucceed
CHECK_DEADLOCK FALSE
