\* Every strategy, with and without hot swap; fewer pins than sessions.
SPECIFICATION Spec
CONSTANTS
    NumGenerators = 2
    Sessions = {s1, s2, s3}
    MaxSessions = 2
    CounterPeriod = 2
INVARIANTS LoadIsInFlight DrainedPull RouteFindsServer
PROPERTIES SessionStays BlockedCallRuns PullEnds
