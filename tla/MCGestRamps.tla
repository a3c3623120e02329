---------------------------- MODULE MCGestRamps ----------------------------
(* Small instances of GestRamps. *)
EXTENDS GestRamps
=============================================================================
