----------------------------- MODULE MCRateLimit -----------------------------
EXTENDS RateLimit
CONSTANTS q1, q2, q3, q4, ra, alice, ip1, ip2, gold

Rate(n, p) == [count |-> n, period |-> p]
Object(d, b) == [byTier |-> FALSE, dims |-> d, burst |-> b]
ByTier == [byTier |-> TRUE, dims |-> <<>>, burst |-> 0]
ModuleRules(a, b) == [algorithm |-> a, backend |-> b]
Setup(i, r, m) == [iface |-> i, route |-> r, mod |-> m]

MCSetups == {
    Setup(NoConfig, Object("perIp" :> Rate(2, 3) @@ "perUser" :> Rate(1, 2), 2), ModuleRules("token_bucket", "")),
    Setup(Object("perIp" :> Rate(2, 3) @@ "global" :> Rate(2, 3), 0), Object("perIp" :> Rate(1, 2), 0),
          ModuleRules("sliding_window", "redis")),
    Setup(Object("perIp" :> Rate(2, 2), 0), Object("perUser" :> Rate(0, 3), 0), ModuleRules("fixed_window", "")),
    Setup(Object("perIp" :> Rate(1, 3), 0), ByTier, ModuleRules("sliding_window", ""))}
MCTiers == gold :> ("perUser" :> Rate(1, 2) @@ "global" :> Rate(2, 3))
Client(ip, user, tier) == [perIp |-> ip, perUser |-> user, perTenant |-> Nobody, perApiKey |-> Nobody,
                           global |-> "", tier |-> tier]
MCClientOf == q1 :> Client(ip1, alice, gold) @@ q2 :> Client(ip1, alice, gold)
           @@ q3 :> Client(ip2, Nobody, gold) @@ q4 :> Client(ip2, alice, Nobody)
=============================================================================
