------------------------------ MODULE MCPtyd ------------------------------
EXTENDS Ptyd
===========================================================================
