------------------------------ MODULE MCChBiDi -------------------------------
EXTENDS ChBiDi

AllCauses == {"canceled", "deadline"}
=============================================================================
