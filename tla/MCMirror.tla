------------------------------ MODULE MCMirror ------------------------------
EXTENDS Mirror

CONSTANTS p1, p2, h1
=============================================================================
