--------------------------- MODULE MCGestPhrases ---------------------------
(* A small instance of GestPhrases. *)
EXTENDS GestPhrases
=============================================================================
