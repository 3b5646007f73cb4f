CONSTANTS
    c1 = c1
    c2 = c2
    Clients = {c1, c2}
    Requests <- ShardRequests
    MaxRequests <- ThreeAndOne
    MaxConnections = 2
    Unlimited = Unlimited
    ClientTimeouts = {c1}
    WorkerTimeouts = TRUE
    Crashes = TRUE
SPECIFICATION Spec
CHECK_DEADLOCK FALSE
INVARIANTS
    AnswerLag
    CarriedOut
    SnapshotIsCurrent
PROPERTIES
    CallReturns
    BoundedServiceEnds
