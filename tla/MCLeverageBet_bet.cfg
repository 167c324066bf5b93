CONSTANTS
    profile = profile
    designer = designer
    critic = critic
    NoRun = NoRun
    Bet = bet
    WorkflowRuns = {bet}
    AgentRuns = {profile, designer, critic, j1, j2, j3}
    JudgeRuns = {j1, j2, j3}
    Stages <- ThreeStages
    PureRuns = {critic}
    ArtifactRuns = {profile, designer, critic}
    Provider = "anthropic"
    Bets <- ThreeBets
    NoReport = NoReport
    MaxRetries = 1
    MaxCalls = 1
    Tasks = {t1}
    Contexts = {t1}
    CtxOf <- OwnContext
    Faults = {"cancel", "store"}
SPECIFICATION BetFairSpec
INVARIANTS BetInv BetTypeOK BetIsRecorded AcceptedIsEvaluated StagesInOrder JudgesBounded
PROPERTIES TransientIsRetried RetriesStartClean ImplementsRuntime BetEnds
CHECK_DEADLOCK FALSE
