SPECIFICATION Spec
CONSTANTS
    t1 = t1
    t2 = t2
    t3 = t3
    a1 = a1
    a2 = a2
    r1 = r1
    r2 = r2
    NoTenant = NoTenant
    NoHead = NoHead
    Txs = {t1, t2}
    Aggregates = {a1}
    Types = {"public"}
    Carried = {"public"}
    Wiring = "producer"
    Tenants = {NoTenant}
    TenantOf <- OneTenant
    CrossTenant = {}
    MaxConns = 10
    MaxEvents = 2
    Relays = {r1, r2}
    Batch = 2
    Knows <- SameRelease
    Unpublishable = {}
    MaxAttempts = 2
    MaxCrashes = 1
SYMMETRY Alike
INVARIANTS
  TakenRowsAreOwn
  SentMatchesCommitted
PROPERTIES
  ImplementsAtLeastOnce
CHECK_DEADLOCK FALSE
