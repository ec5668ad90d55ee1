---------------------------- MODULE MCValueStore ----------------------------
EXTENDS ValueStore, TLC

CONSTANTS s1, s2, s3

MCCall == {s1, s2, s3}
=============================================================================
