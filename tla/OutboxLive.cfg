SPECIFICATION FairSpec
CONSTANTS
    t1 = t1
    t2 = t2
    t3 = t3
    a1 = a1
    a2 = a2
    r1 = r1
    r2 = r2
    NoTenant = NoTenant
    NoHead = NoHead
    Txs = {t1, t2}
    Aggregates = {a1}
    Types = {"public", "poison"}
    Carried = {"public", "poison"}
    Wiring = "producer"
    Tenants = {NoTenant}
    TenantOf <- OneTenant
    CrossTenant = {}
    MaxConns = 10
    MaxEvents = 1
    Relays = {r1, r2}
    Batch = 1
    Knows <- SameRelease
    Unpublishable = {"poison"}
    MaxAttempts = 3
    MaxCrashes = 1
PROPERTY EveryEventPublished
CHECK_DEADLOCK FALSE
