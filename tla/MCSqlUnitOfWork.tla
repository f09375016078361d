--------------------------- MODULE MCSqlUnitOfWork ---------------------------
(* Small instances of SqlUnitOfWork.                                         *)
EXTENDS SqlUnitOfWork, TLC
CONSTANTS t1, t2, t3, a1, a2, acme, globex

\* t3 writes for another tenant than t1 and t2.
TwoTenants == [t \in Txs |-> IF t = t3 THEN globex ELSE acme]
Interchangeable == Permutations({t1, t2})
=============================================================================
