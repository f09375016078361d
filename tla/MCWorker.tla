------------------------------ MODULE MCWorker ------------------------------
EXTENDS Worker
Items(ns) == [i \in DOMAIN ns |-> [name |-> ns[i], wanted |-> ns[i] # "skip"]]
Declared(sch, settings, its) == [schedule |-> sch, every |-> 1, settings |-> settings, items |-> Items(its)]
MCWorkerDecls == {
    Declared("every", [concurrency |-> 2, maxRate |-> 1, retry |-> [attempts |-> 3, backoff |-> "exponential"]], <<>>),
    Declared("cron", [concurrency |-> 0, retry |-> [backoff |-> "fixed"]], <<>>),
    Declared("continuous", [concurrency |-> 2, maxRate |-> 2, batchSize |-> 1, retry |-> [attempts |-> 2]],
             <<"i1", "skip", "i2", "i3", "i4">>),
    Declared("continuous", [maxRate |-> 0, batchSize |-> 2], <<"i1", "i2", "i3">>)}
=============================================================================
