------------------------------ MODULE MCVmTable ------------------------------
(* VmTable with values a cfg cannot write. *)
EXTENDS VmTable

MCEither == BOOLEAN
=============================================================================
