------------------------------ MODULE MCRoutes ------------------------------
EXTENDS Routes

MCCommands == ("Charge" :> [fields |-> ("accountId" :> [ref |-> TRUE, type |-> "stringVO"]) @@ ("amount" :> [ref |-> FALSE, type |-> "decimal"])])
           @@ ("Move" :> [fields |-> ("from" :> [ref |-> TRUE, type |-> "string"]) @@ ("to" :> [ref |-> TRUE, type |-> "string"])])
MCUseCases == ("Pay" :> [command |-> "Charge", idempotent |-> TRUE, required |-> FALSE, crossTenant |-> FALSE])
           @@ ("PayOld" :> [command |-> "Charge", idempotent |-> FALSE, required |-> FALSE, crossTenant |-> FALSE])
           @@ ("Audit" :> [command |-> "Charge", idempotent |-> FALSE, required |-> FALSE, crossTenant |-> TRUE])
           @@ ("Refund" :> [command |-> "Charge", idempotent |-> TRUE, required |-> TRUE, crossTenant |-> FALSE])
           @@ ("Transfer" :> [command |-> "Move", idempotent |-> FALSE, required |-> FALSE, crossTenant |-> FALSE])
MCRouteQueries == "Balance" :> [params |-> ("id" :> "string"), view |-> "Account"]
MCRoute(p, ps, t, none, lim) == [path |-> p, params |-> ps, target |-> t, tenancyNone |-> none, limited |-> lim]
MCVersion(d, s, up, down, routes) == [deprecated |-> d, sunset |-> s, upcasts |-> up, downcasts |-> down, routes |-> routes, datesParse |-> TRUE]
MCHeader == [strategy |-> "header", current |-> "v2", unknownKeys |-> {}]
MCRouteSets ==
    {{MCRoute("/pay/{id}", <<"id">>, "Pay", FALSE, TRUE), MCRoute("/audit/{id}", <<"id">>, "Audit", FALSE, FALSE)},
     {MCRoute("/balance/{id}", <<"id">>, "Balance", FALSE, TRUE), MCRoute("/pay/{id}", <<"id">>, "Refund", TRUE, FALSE)},
     {MCRoute("/move/{id}", <<"id">>, "Transfer", FALSE, FALSE)},
     {MCRoute("/pay", <<"amount">>, "Pay", FALSE, FALSE)}}
MCVersions == ("v1" :> MCVersion(0, 1, {"Charge"}, {"Account"}, <<>>)) @@ ("v0" :> MCVersion(1, 9, {}, {}, "/pay/{id}" :> "PayOld"))
MCInterface(t, strategy, rs) ==
    [tenant |-> t, versioning |-> [MCHeader EXCEPT !.strategy = strategy], versions |-> MCVersions, routes |-> rs]
\* Each tenant strategy under versions in a header, each version strategy under tenants in a header.
MCInterfaces == {MCInterface(t, "header", rs) : t \in {"absent", "jwt_claim"}, rs \in MCRouteSets}
           \cup {MCInterface("header", v, rs) : v \in {"absent", "path"}, rs \in MCRouteSets}
MCInput(v, t, k, b, i) == [version |-> v, tenant |-> t, key |-> k, body |-> b, id |-> i]
MCInputs == {MCInput("", "t1", "k", "other", "s"), MCInput("", "t1", "k", "ok", "s"), MCInput("v1", "t1", "k", "ok", "s"), MCInput("v0", "t2", "", "ok", "s"),
             MCInput("v9", "", "", "empty", "s"), MCInput("v1", "t2", "", "malformed", "malformed")}
=============================================================================
