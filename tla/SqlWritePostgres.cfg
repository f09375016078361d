SPECIFICATION WriterSpec
CONSTANTS
    t1 = t1
    t2 = t2
    t3 = t3
    a1 = a1
    a2 = a2
    acme = acme
    globex = globex
    NoTenant = NoTenant
    NoHead = NoHead
    Txs = {t1, t2, t3}
    Aggregates = {a1}
    Types = {"public", "internal"}
    Carried = {"public"}
    Wiring = "producer"
    Tenants = {acme, globex, NoTenant}
    TenantOf <- TwoTenants
    CrossTenant = {}
    MaxConns = 10
    MaxEvents = 2
SYMMETRY Interchangeable
INVARIANTS
  StreamsAreSound
  OutboxIsSound
CHECK_DEADLOCK FALSE
