----------------------------- MODULE Selection ------------------------------
(***************************************************************************)
(* What is left of a JavaScript array or Map when some of its elements are *)
(* filtered out or deleted: the others, in their order.                    *)
(***************************************************************************)
EXTENDS Naturals, Sequences

\* The elements of s at the given indices.
Selection(s, indices) ==
  LET taken[n \in 0..Len(s)] ==
        IF n = 0 THEN <<>>
        ELSE IF n \in indices THEN Append(taken[n - 1], s[n])
        ELSE taken[n - 1]
  IN  taken[Len(s)]

=============================================================================
