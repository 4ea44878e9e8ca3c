----------------------------- MODULE MCSessions -----------------------------
(* Values of Sessions' constants for TLC.                                   *)
EXTENDS Sessions, TLC

CONSTANTS a, b, c, d, r1, r2

\* Token values and requests are interchangeable.
Symmetry == Permutations(Tokens) \cup Permutations(Requests)
=============================================================================
