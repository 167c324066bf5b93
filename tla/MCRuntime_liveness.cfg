CONSTANTS
    NoRun = NoRun
    AgentRuns = {a1, a2}
    WorkflowRuns = {w1}
    PureRuns = {a1}
    ArtifactRuns = {a2}
    MaxRetries = 1
    MaxCalls = 2
    Tasks = {t1}
    Contexts = {t1}
    CtxOf <- OwnContext
    Faults = {"store"}
SPECIFICATION FairSpec
PROPERTIES EveryCallEnds
CHECK_DEADLOCK FALSE
