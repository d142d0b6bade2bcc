---------------------------- MODULE MCGsupServer ----------------------------
(* Model-checking instance of GsupServer. *)
EXTENDS GsupServer

Symmetry == Permutations(Conn) \cup Permutations(Name) \cup Permutations(Req)

=============================================================================
