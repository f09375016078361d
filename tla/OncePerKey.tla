----------------------------- MODULE OncePerKey -----------------------------
(***************************************************************************)
(* What idempotent dispatch promises for one module's store, and nothing   *)
(* about how: at any moment a key is free, held by one running request, or *)
(* it remembers the one request whose result it replays. A request runs    *)
(* only when it finds the key free; a result is remembered until its       *)
(* window lapses, and an infrastructure error frees the key.               *)
(***************************************************************************)
CONSTANTS Requests, Keys, Nobody

VARIABLES
    holder,  \* the request running under each key
    cached   \* the request whose result each key replays

abstractVars == <<holder, cached>>

Init ==
    /\ holder = [k \in Keys |-> Nobody]
    /\ cached = [k \in Keys |-> Nobody]

Start(k, p) ==
    /\ holder[k] = Nobody /\ cached[k] = Nobody
    /\ holder' = [holder EXCEPT ![k] = p]
    /\ UNCHANGED cached

Finish(k) ==
    /\ holder[k] # Nobody
    /\ cached' = [cached EXCEPT ![k] = holder[k]]
    /\ holder' = [holder EXCEPT ![k] = Nobody]

Abort(k) ==
    /\ holder[k] # Nobody
    /\ holder' = [holder EXCEPT ![k] = Nobody]
    /\ UNCHANGED cached

Forget(k) ==
    /\ cached[k] # Nobody
    /\ cached' = [cached EXCEPT ![k] = Nobody]
    /\ UNCHANGED holder

Next == \E k \in Keys :
    \/ \E p \in Requests : Start(k, p)
    \/ Finish(k)
    \/ Abort(k)
    \/ Forget(k)

Spec == Init /\ [][Next]_abstractVars
=============================================================================
