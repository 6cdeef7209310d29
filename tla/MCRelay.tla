------------------------------ MODULE MCRelay ------------------------------
(* Values for TLC: sets a cfg cannot write. *)
EXTENDS Relay

MCFits == {TRUE}
MCFitsOrNot == BOOLEAN
MCLens12 == {1, 2}
MCLen1 == {1}
MCCap1 == {1}
=============================================================================
