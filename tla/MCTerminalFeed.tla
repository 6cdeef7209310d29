--------------------------- MODULE MCTerminalFeed ---------------------------
(* TerminalFeed with values a cfg cannot write.  "b1 b2" is a banner head,
   long enough to be held back. *)
EXTENDS TerminalFeed

MCHeads == {<<"b1", "b2">>}
=============================================================================
