CONSTANTS
    MaxSteps = 7
    MaxEvery = 4
    MaxRuns = 2
    NumWorkers = 2
    MaxPid = 5
    MaxCycles = 2
    MaxCrashes = 1
SPECIFICATION MCSpec
CHECK_DEADLOCK FALSE
INVARIANTS
    LossBound
    CompleteRun
    StrictlyAscending
    ProcessesOwned
    CheckpointRecoverable
PROPERTIES
    RunEnds
    RecoveryLosesNothing
