------------------------------- MODULE MCRepo -------------------------------
EXTENDS Repo

CONSTANTS t1, t2, r1
=============================================================================
