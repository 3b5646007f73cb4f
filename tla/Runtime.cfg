CONSTANTS
    Topology <- OneTwo
    TotalLanes = 3
    Inputs <- OneTwoInputs
    Foreign <- OneTwoForeign
    Parallel = TRUE
    MaxSteps = 1
    MaxOps = 4
    MaxFaults = 2
SPECIFICATION Spec
CHECK_DEADLOCK FALSE
INVARIANTS
    LanePartition
    ShardsInStep
PROPERTIES
    BehavesAsOneSimulator
    OperationReturns
