--------------------------- MODULE MCOutputSinks ---------------------------
(* OutputSinks with values a cfg cannot write. *)
EXTENDS OutputSinks

CONSTANTS t1, t2
MCTwo == {t1, t2}
MCCaps == {0, 1, 2}
MCMasks == {0, 1, 3, 6}
MCFits == BOOLEAN
=============================================================================
