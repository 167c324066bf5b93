CONSTANTS
    NoRun = NoRun
    AgentRuns = {a1}
    WorkflowRuns = {}
    PureRuns = {}
    ArtifactRuns = {}
    MaxRetries = 1
    MaxCalls = 1
    Tasks = {t1}
    Contexts = {t1}
    CtxOf <- OwnContext
    Faults = {}
SPECIFICATION Spec
PROPERTIES RetriesStartClean
CHECK_DEADLOCK FALSE
