------------------------------ MODULE MCServer ------------------------------
EXTENDS Server

CONSTANTS c1, c2, c3, d1

MCConns3 == {c1, c2, c3}
MCDatabases1 == {d1}
=============================================================================
