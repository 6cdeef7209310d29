-------------------------- MODULE MCProductSession --------------------------
(* ProductSession with the values of the cfg files. *)
EXTENDS ProductSession
=============================================================================
