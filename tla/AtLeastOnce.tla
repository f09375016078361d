----------------------------- MODULE AtLeastOnce -----------------------------
(***************************************************************************)
(* What the durable outbox promises, with no table, transaction, relay or  *)
(* lock in sight: an event that was accepted is owed until somebody        *)
(* delivered it, and an event is delivered only when it is owed.           *)
(***************************************************************************)
VARIABLES
    owed,   \* accepted, not settled yet
    sent    \* delivered at least once

vars == <<owed, sent>>

Init == owed = {} /\ sent = {}

\* A commit accepts events, all together, that were never delivered before.
Accept ==
    /\ owed \subseteq owed'
    /\ (owed' \ owed) \intersect sent = {}
    /\ UNCHANGED sent

\* Delivering again what is still owed is allowed; delivering anything else is not.
Deliver ==
    /\ \E e \in owed : sent' = sent \union {e}
    /\ UNCHANGED owed

\* Only what was delivered stops being owed.
Settle ==
    /\ owed' \subseteq owed
    /\ owed \ owed' \subseteq sent
    /\ UNCHANGED sent

Next == Accept \/ Deliver \/ Settle

Spec == Init /\ [][Next]_vars
=============================================================================
