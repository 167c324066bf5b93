CONSTANTS
    NoRun = NoRun
    AgentRuns = {a1}
    WorkflowRuns = {}
    PureRuns = {}
    ArtifactRuns = {}
    MaxRetries = 0
    MaxCalls = 1
    Tasks = {t1}
    Contexts = {t1}
    CtxOf <- OwnContext
    Faults = {}
SPECIFICATION Spec
INVARIANTS EveryCallIsCharged
CHECK_DEADLOCK FALSE
