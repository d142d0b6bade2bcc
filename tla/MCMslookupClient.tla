-------------------------- MODULE MCMslookupClient --------------------------
(* Model-checking instances of MslookupClient. *)
EXTENDS MslookupClient

=============================================================================
