------------------------------ MODULE MCWiring ------------------------------
EXTENDS Wiring
CONSTANTS A, B, C

Policy(n, e, d) == [name |-> n, on |-> e, delivery |-> d]
Chan(f, t, v, pr) == [from |-> f, to |-> t, via |-> v, provider |-> pr]
Mod(s, u, evs, pub, pol, d, l, w, g) ==
    [service |-> s, useCases |-> u, events |-> evs, public |-> pub, policies |-> pol,
     databases |-> d, listens |-> l, workers |-> w, grpc |-> g]
MCModuleOrder == <<A, B, C>>
\* A program of one module, with nothing to connect.
MCAlone == [modules |-> C :> Mod("s2", FALSE, {}, {}, {}, 0, FALSE, FALSE, FALSE), channels |-> {}]
\* Module A has the events a1 and a2 (public) and a0, B has b1 (public), C only Policies;
\* A and B share service s1, or B has none; C is service s2.
MCPrograms ==
    {MCAlone} \cup
    {[modules |-> (A :> Mod("s1", TRUE, {"a0", "a1", "a2"}, {"a1", "a2"}, ps[1], a[1], FALSE, a[2], a[1] # 1))
               @@ (B :> Mod(b[1], b[2], {"b1"}, {"b1"}, ps[2], 0, FALSE, FALSE, FALSE))
               @@ (C :> Mod("s2", FALSE, {}, {}, pc, 0, FALSE, FALSE, FALSE)),
      channels |-> ch] :
        \* A's databases, and whether it has Workers (gRPC unless there is one database); B's service, and whether it has UseCases.
        a \in {<<0, TRUE>>, <<1, FALSE>>, <<1, TRUE>>, <<2, TRUE>>},
        b \in {<<"s1", TRUE>>, <<"s1", FALSE>>, <<"", TRUE>>},
        ps \in {<<{}, {}>>, <<{Policy("PA", "b1", "AtLeastOnce")}, {}>>, <<{}, {Policy("PB", "a1", "BestEffort")}>>},
        pc \in {{}, {Policy("PC1", "a1", "BestEffort"), Policy("PC2", "a2", "AtLeastOnce")}},
        ch \in {{}, {Chan(A, C, "queue", "rabbitmq")}, {Chan(A, C, "queue", "rabbitmq"), Chan(B, C, "queue", "rabbitmq")},
                {Chan(A, C, "queue", "memory"), Chan(A, B, "direct", "")}, {Chan(C, A, "queue", "rabbitmq")},
                {Chan(A, B, "queue", "rabbitmq")}, {Chan(A, C, "grpc", "")}}}
=============================================================================
