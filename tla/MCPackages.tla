----------------------------- MODULE MCPackages -----------------------------
EXTENDS Packages

CONSTANTS p1, p2, v1, v2
=============================================================================
