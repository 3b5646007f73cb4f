CONSTANTS
    Nothing = Nothing
    Modules <- MCModules
    JobLists <- MCJobLists
    Traces <- MCTraces
    TraceLanes = 3
    Layouts <- MCLayouts
    CandidateLists <- MCCandidateLists
    Advice <- MCAdvice
    AccInits = {1}
    MaxMismatches = {2}
    MaxReplays = 2
    MaxPanics = 1
SPECIFICATION MCSpec
CHECK_DEADLOCK FALSE
INVARIANTS
    PlansSound
    PlacementSound
    LaunchSound
    ReplayReportExact
    AutotuneSound
PROPERTY ReplaysReturn
