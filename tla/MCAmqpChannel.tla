--------------------------- MODULE MCAmqpChannel ---------------------------
EXTENDS AmqpChannel
CONSTANTS rk1, rk2
MCMessageKey == [m \in Messages |-> IF m = 2 THEN rk2 ELSE rk1]
MCPartitionOf == [k \in {rk1, rk2} |-> IF k = rk1 THEN 1 ELSE 2]
=============================================================================
