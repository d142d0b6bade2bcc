-------------------------- MODULE MCMslookupServer --------------------------
EXTENDS MslookupServer, TLC

(* The sites that are not reconfigured can be exchanged, and the names. *)
Symmetry == Permutations(Site \ Managed) \cup Permutations(Vlr)
=============================================================================
