---------------------------- MODULE MCAdmission ----------------------------
(* Values of Admission's constants for TLC.                                *)
EXTENDS Admission, TLC

CONSTANTS r1, r2

MCLimit == [c \in Counters |-> 1]
=============================================================================
