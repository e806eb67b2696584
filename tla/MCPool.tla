------------------------------- MODULE MCPool -------------------------------
EXTENDS PoolManager, TLC

CONSTANTS c1, c2, b1, b2

MCClients2 == {c1, c2}
MCBackends2 == {b1, b2}

Symmetry == Permutations(Clients) \cup Permutations(Backends)
=============================================================================
