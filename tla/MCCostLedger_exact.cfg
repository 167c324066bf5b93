CONSTANTS
    r1 = r1
    r2 = r2
    r3 = r3
    acme = acme
    other = other
    plan = plan
    None = None
    Runs = {r1, r2, r3}
    Tenants = {acme}
    TenantOf <- Tenant
    AgentOf <- Agent
    WorkflowOf <- Workflow
    ResponseOf <- ListedModels
    Since <- UTCSince
    Until <- UTCUntil
    MaxSec = 1
    Micros = 2
SPECIFICATION Spec
INVARIANTS TypeOK ListedModelHasItsPrice CountedWithinPeriod
PROPERTIES ReportIsExact ReportOnlyGrows TableIsFaithful SettledIsFinal AdjoiningWindows MissesOnlyLateRows
CHECK_DEADLOCK FALSE
