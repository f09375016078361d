---------------------------- MODULE MCQueryCache ----------------------------
(* Small instances of QueryCache.                                            *)
EXTENDS QueryCache, TLC
CONSTANTS c1, c2, c3, w1, cp1, ck1

OneKey == [c \in Calls |-> ck1]
OneReplica == [x \in Calls \union Writers |-> cp1]
=============================================================================
