CONSTANTS
    Nothing = Nothing
    Modules <- MCModules
    JobLists <- MCInputJobs
    Traces <- NoTraces
    TraceLanes = 3
    Layouts <- MCLayouts
    CandidateLists <- MCCandidateLists
    Advice <- MCAdvice
    AccInits = {1, 9}
    MaxMismatches = {2}
    MaxReplays = 2
    MaxPanics = 1
SPECIFICATION MCSpec
CHECK_DEADLOCK FALSE
INVARIANT ExchangeHoldsStill
