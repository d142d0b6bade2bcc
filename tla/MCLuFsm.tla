------------------------------ MODULE MCLuFsm ------------------------------
(* Model-checking instances of LuFsm. *)
EXTENDS LuFsm

Symmetry == Permutations(Vlr) \cup Permutations(Imsi)

=============================================================================
