-------------------------------- MODULE Sums --------------------------------
(***************************************************************************)
(* Sums over a sequence of numbers, as a recursive function on positions.  *)
(***************************************************************************)
EXTENDS Naturals

(* g[1] + ... + g[n]                                                       *)
SumTo(g, n) ==
    LET S[i \in Nat] == IF i = 0 THEN 0 ELSE S[i - 1] + g[i]
    IN  S[n]
=============================================================================
