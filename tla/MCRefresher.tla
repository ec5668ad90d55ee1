---------------------------- MODULE MCRefresher ----------------------------
EXTENDS Refresher

CONSTANTS p1, p2, p3

MCCall == {p1, p2, p3}
=============================================================================
