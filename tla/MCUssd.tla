------------------------------- MODULE MCUssd -------------------------------
(* Model-checking instance of Ussd.  SessionEnds is a liveness property,   *)
(* so no symmetry is declared.                                             *)
EXTENDS Ussd

=============================================================================
