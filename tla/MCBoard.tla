------------------------------ MODULE MCBoard ------------------------------
(* Values of Board's constants for TLC.                                     *)
EXTENDS Board, TLC

CONSTANTS t1, t2, t3, r1, r2

MCTaskXP == [q \in Quadrants |-> IF q = Q1 THEN 50 ELSE 10]

\* FIRST_BLOOD, FIREFIGHTER, XP_10K and ARCHITECT with thresholds in reach.
MCCatalogue ==
    [a \in {"FIRST_BLOOD", "FIREFIGHTER", "XP_10K", "ARCHITECT"} |->
        CASE a = "FIRST_BLOOD" -> [metric |-> "TASKS_COMPLETED", threshold |-> 1]
          [] a = "FIREFIGHTER" -> [metric |-> "Q1_TASKS_COMPLETED", threshold |-> 2]
          [] a = "XP_10K" -> [metric |-> "LIFETIME_XP", threshold |-> 60]
          [] a = "ARCHITECT" -> [metric |-> "LEVEL", threshold |-> 2]]

\* Task ids and transactions are interchangeable.
Symmetry == Permutations(Tasks) \cup Permutations(Requests)
=============================================================================
