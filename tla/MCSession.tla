------------------------------ MODULE MCSession ------------------------------
EXTENDS Session, TLC

CONSTANTS c1, c2, c3, b1, b2

MCClients1 == {c1}
MCClients2 == {c1, c2}
MCClients3 == {c1, c2, c3}
MCBackends1 == {b1}
MCBackends2 == {b1, b2}

Symmetry == Permutations(Clients) \cup Permutations(Backends)
=============================================================================
