----------------------------- MODULE MCTunnel -----------------------------
EXTENDS Tunnel
===========================================================================
