----------------------------- MODULE MCControl -----------------------------
EXTENDS Control

CONSTANTS r1, r2
=============================================================================
