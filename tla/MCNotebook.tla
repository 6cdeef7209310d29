----------------------------- MODULE MCNotebook -----------------------------
(* Notebook with values a cfg cannot write. *)
EXTENDS Notebook

MCThreeWorks == {"w1", "w2", "w3"}
=============================================================================
