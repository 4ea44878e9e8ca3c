------------------------------ MODULE MCLinks ------------------------------
(* Values of Links' constants for TLC.                                      *)
EXTENDS Links, TLC

CONSTANTS t1, t2, t3, l1, l2, l3, r1, r2

\* Tasks, link ids and requests are interchangeable.
Symmetry == Permutations(Tasks) \cup Permutations(Ids) \cup Permutations(Requests)
=============================================================================
