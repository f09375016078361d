--------------------------- MODULE MCQueueChannel ---------------------------
(* Small instances of QueueChannel.                                          *)
EXTENDS QueueChannel, TLC
CONSTANTS p1, p2, e1, e2, e3, e4, k1, k2, k3, s1, s2

\* Two keys share shard s1, and two producers write key k1.
MCSends == p1 :> <<e1, e2, e3>> @@ p2 :> <<e4>>
MCKeyOf == e1 :> k1 @@ e2 :> k2 @@ e3 :> k3 @@ e4 :> k1
\* Nobody subscribed to the type of e3.
MCHandlersOf == [e \in Events |-> IF e = e3 THEN 0 ELSE 2]
MCShardOf == k1 :> s1 @@ k2 :> s2 @@ k3 :> s1
=============================================================================
