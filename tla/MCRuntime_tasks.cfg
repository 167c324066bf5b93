CONSTANTS
    NoRun = NoRun
    AgentRuns = {a1, a2}
    WorkflowRuns = {w1, w2}
    PureRuns = {a1}
    ArtifactRuns = {a2}
    MaxRetries = 0
    MaxCalls = 2
    Tasks = {t1, t2}
    Contexts = {t1, t2}
    CtxOf <- OwnContext
    Faults = {"store"}
SPECIFICATION AnsweredSpec
INVARIANTS NestingInv MetadataScoped ChargesAreReal WorkflowIdRestored WorkStaysInItsWorkflow
SYMMETRY Symmetry
CHECK_DEADLOCK FALSE
