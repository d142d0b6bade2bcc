------------------------- MODULE MCMslookupProgram -------------------------
(* Model-checking instance of MslookupProgram. *)
EXTENDS MslookupProgram

=============================================================================
