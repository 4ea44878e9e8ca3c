----------------------------- MODULE MCHistory ------------------------------
(* Small values for History. *)
EXTENDS History
=============================================================================
