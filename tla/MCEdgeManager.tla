---------------------------- MODULE MCEdgeManager ----------------------------
(* EdgeManager for TLC: servers of one or two units, so that they fill.          *)
EXTENDS EdgeManager
===============================================================================
