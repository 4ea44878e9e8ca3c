------------------------------- MODULE MCDays -------------------------------
(* Small values for Days. *)
EXTENDS Days
=============================================================================
