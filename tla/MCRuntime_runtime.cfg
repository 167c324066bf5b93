CONSTANTS
    NoRun = NoRun
    AgentRuns = {a1, a2}
    WorkflowRuns = {w1}
    PureRuns = {a1}
    ArtifactRuns = {a2}
    MaxRetries = 1
    MaxCalls = 2
    Tasks = {t1}
    Contexts = {t1}
    CtxOf <- OwnContext
    Faults = {"cancel", "store", "crash", "janitor"}
SPECIFICATION Spec
INVARIANTS TypeOK IInv MetadataScoped ChargesAreReal ReturnedIsRecorded NoDanglingStatement 
PROPERTIES ImplementsTrail FeedsLedger
CHECK_DEADLOCK FALSE
