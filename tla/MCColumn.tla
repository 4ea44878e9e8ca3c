------------------------------ MODULE MCColumn ------------------------------
(* Small values for Column. *)
EXTENDS Column, TLC

Symmetry == Permutations(Requests)
=============================================================================
