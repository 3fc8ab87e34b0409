------------------------------- MODULE Lists -------------------------------
(* A list of what another list and a set have in common.                   *)
EXTENDS Naturals, Sequences

(* The members of s that are in S, in their order.                         *)
Among(s, S) ==
    LET f[n \in 0..Len(s)] ==
          IF n = 0 THEN <<>> ELSE IF s[n] \in S THEN Append(f[n - 1], s[n]) ELSE f[n - 1]
    IN  f[Len(s)]
=============================================================================
