------------------------------ MODULE MCAgents ------------------------------
EXTENDS Agents

CONSTANTS p1, p2
=============================================================================
