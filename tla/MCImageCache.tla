---------------------------- MODULE MCImageCache ----------------------------
(* ImageCache with values a cfg cannot write. *)
EXTENDS ImageCache

MCNone == {}
MCSecond == {2}
=============================================================================
