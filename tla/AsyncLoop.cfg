CONSTANTS
    Generators = {g1, g2}
    MaxOffpolicySteps = 1
    NumGroupsPerTrainStep = 2
    StartStep = 1
    NumTrainingSteps = 4
    MaxUntrainable = 1
    MaxOversized = 1
    Faults = {"data", "build", "step", "nan", "push", "pull", "save"}

SPECIFICATION FairSpec

INVARIANTS
    StampIsTrue
    GeneratorsFollow
    SlotsAccountedFor
    PolicyAgeBounded

PROPERTIES
    KeepsProtocols
    ImplementsWindow
    TrainingCompletes
    FailureSurfaces
