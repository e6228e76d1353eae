SPECIFICATION Spec
CONSTANTS
    MaxStep = 4
    Schedules <- MCSchedules
    Keeps = {0, 2}
    MaxStarts = 3
INVARIANTS
    LossBounded
PROPERTIES
    ResumeNeverRegresses
CHECK_DEADLOCK FALSE
