------------------------------ MODULE KeyedFifo ------------------------------
(***************************************************************************)
(* What an in-process `via: queue` channel promises about order and        *)
(* nothing else: an accepted event waits behind the earlier ones of its    *)
(* key, its handlers are reached only when it is the first, at most once,  *)
(* and then it is gone, handled or not.                                    *)
(***************************************************************************)
EXTENDS Sequences

CONSTANTS Events, KeyOf, Keys

VARIABLES
    waiting,    \* per key, the accepted events that are not settled, in order
    reached     \* the events some handler was called for

fifoVars == <<waiting, reached>>

Init == waiting = [k \in Keys |-> <<>>] /\ reached = {}

Accept(e) ==
    /\ e \notin reached
    /\ waiting' = [waiting EXCEPT ![KeyOf[e]] = Append(@, e)]
    /\ UNCHANGED reached

IsNext(e) == waiting[KeyOf[e]] # <<>> /\ Head(waiting[KeyOf[e]]) = e

Reach(e) ==
    /\ IsNext(e) /\ e \notin reached
    /\ reached' = reached \union {e}
    /\ UNCHANGED waiting

Settle(e) ==
    /\ IsNext(e)
    /\ waiting' = [waiting EXCEPT ![KeyOf[e]] = Tail(@)]
    /\ UNCHANGED reached

Next == \E e \in Events : Accept(e) \/ Reach(e) \/ Settle(e)

Spec == Init /\ [][Next]_fifoVars
=============================================================================
