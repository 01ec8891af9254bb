---------------------------- MODULE MCUserChecks -----------------------------
EXTENDS UserChecks

CONSTANTS c1, c2, c3

ThreeChecks == {c1, c2, c3}
=============================================================================
