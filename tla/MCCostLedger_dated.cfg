CONSTANTS
    r1 = r1
    r2 = r2
    r3 = r3
    acme = acme
    other = other
    plan = plan
    None = None
    Runs = {r1, r2, r3}
    Tenants = {acme}
    TenantOf <- Tenant
    AgentOf <- Agent
    WorkflowOf <- Workflow
    ResponseOf <- NewVariant
    Since <- Eastern
    Until <- Eastern
    MaxSec = 1
    Micros = 1
SPECIFICATION Spec
INVARIANTS DatedVariantHasItsAliasPrice
CHECK_DEADLOCK FALSE
