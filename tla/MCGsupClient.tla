---------------------------- MODULE MCGsupClient ----------------------------
(* Model-checking instance of GsupClient. *)
EXTENDS GsupClient

=============================================================================
