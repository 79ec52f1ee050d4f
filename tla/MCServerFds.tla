---------------------------- MODULE MCServerFds -----------------------------
EXTENDS ServerFds

CONSTANTS c1, c2, c3, p1
=============================================================================
