------------------------------- MODULE MCAuc -------------------------------
EXTENDS Auc, TLC

Symmetry == Permutations(Vlr)
=============================================================================
