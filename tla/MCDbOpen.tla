------------------------------ MODULE MCDbOpen ------------------------------
EXTENDS DbOpen
=============================================================================
