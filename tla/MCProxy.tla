------------------------------ MODULE MCProxy ------------------------------
(* Model-checking instances of Proxy.  DeferredConcludes is a liveness     *)
(* property, so no symmetry is declared.                                   *)
EXTENDS Proxy

=============================================================================
