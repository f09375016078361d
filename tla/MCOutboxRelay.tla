---------------------------- MODULE MCOutboxRelay ----------------------------
(* Small instances of OutboxRelay.                                           *)
EXTENDS OutboxRelay, TLC
CONSTANTS t1, t2, t3, a1, a2, r1, r2

OneTenant == [t \in Txs |-> NoTenant]
SameRelease == [r \in Relays |-> Types]
\* No relay was built with the type "retired".
PublicOnly == [r \in Relays |-> {"public"}]
Alike == Permutations(Txs) \union Permutations(Relays) \union Permutations(Aggregates)
=============================================================================
