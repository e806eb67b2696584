------------------------------ MODULE MCBreaker ------------------------------
EXTENDS CircuitBreaker

CONSTANTS r1, r2, p1

MCRequests2 == {r1, r2}
MCProbes == {p1}
=============================================================================
