--------------------------- MODULE MCIdempotency ---------------------------
(* Model values for TLC. c1 is a command of a UseCase that makes concurrent   *)
(* retries wait, c2 one of a UseCase that requires a key and rejects them; c3 *)
(* is a second command of the waiting UseCase, with another payload.          *)
EXTENDS Idempotency, TLC

CONSTANTS p1, p2, p3, k1, k2, c1, c2, c3, f1, f2

MCRequests == {p1, p2, p3}
MCKeys == {k1}
MCTwoKeys == {k1, k2}
MCCommands == {c1, c2}
MCFingerprints == {f1, f2}
MCFingerprintOf == c1 :> f1 @@ c2 :> f2
MCWaiting == {c1, c3}
MCWaitingFingerprintOf == c1 :> f1 @@ c3 :> f2
Symmetry == Permutations(MCRequests)
=============================================================================
