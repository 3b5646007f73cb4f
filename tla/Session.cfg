SPECIFICATION Spec
CONSTANTS
    NumWorkers = 2
    Routes <- MCRoutes
    Payloads <- MCPayloads
    Operations = {"Deploy", "Collect", "Clear", "Publish", "Deliver", "Transfer", "Run", "ClearActions", "Script"}
    Kinds = {"Tick"}
    Scripts <- MCScripts
    MaxEvery = 2
    Missing <- MCMissing
    MaxCalls = 3
    MaxFaults = 2
INVARIANTS
    TornOnlyByFaults
    MailboxesFaithful
    ReportsFaithful
PROPERTIES
    CallsReturn
CHECK_DEADLOCK FALSE
