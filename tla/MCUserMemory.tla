---------------------------- MODULE MCUserMemory ----------------------------
EXTENDS UserMemory
CONSTANTS s1, s2, k1, k2
=============================================================================
