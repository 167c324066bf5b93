CONSTANTS
    profile = profile
    designer = designer
    critic = critic
    NoRun = NoRun
    Bet = bet
    WorkflowRuns = {bet}
    AgentRuns = {profile, critic, j1}
    JudgeRuns = {j1}
    Stages <- TwoStages
    PureRuns = {critic}
    ArtifactRuns = {profile, critic}
    Provider = "openai"
    Bets <- ThreeBets
    NoReport = NoReport
    MaxRetries = 1
    MaxCalls = 1
    Tasks = {t1}
    Contexts = {t1}
    CtxOf <- OwnContext
    Faults = {}
SPECIFICATION BetSpec
PROPERTIES TransientIsRetried
CHECK_DEADLOCK FALSE
