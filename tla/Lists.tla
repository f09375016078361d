------------------------------- MODULE Lists -------------------------------
(***************************************************************************)
(* Picking from a list by a loop, as a recursive function.                 *)
(***************************************************************************)
EXTENDS Integers, Sequences

\* The elements of a sequence that are in S: SelectSeq, as a recursive function.
Only(s, S) ==
    LET upTo[i \in 0..Len(s)] ==
            IF i = 0 THEN <<>> ELSE IF s[i] \in S THEN Append(upTo[i - 1], s[i]) ELSE upTo[i - 1]
    IN  upTo[Len(s)]
=============================================================================
