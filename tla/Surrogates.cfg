SPECIFICATION SurrogatesSpec
CHECK_DEADLOCK FALSE
CONSTANTS
    Nothing = Nothing
    WorkerId <- MCWorkerId
    Topologies <- MCTopologies
    SpecLists <- MCSpecLists
    Traces <- MCTraces
    Configs <- MCConfigs
    Corpora <- MCCorpora
    Workspaces <- MCWorkspaces
    EventManifests <- MCEventManifests
    EventSamplings <- MCSamplings
    OnnxEvent <- MCOnnxEvent
    GemmManifests <- MCGemmManifests
    Batches <- MCBatches
    Samplings <- MCSamplings
    OnnxGemm <- MCOnnxGemm
    MaxU64 = 63
    MaxEdits = 1
    MaxActions = 2
INVARIANTS
    PoliciesSafe
    PlansHonoured
    SurrogateReportsExact
