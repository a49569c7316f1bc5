---------------------------- MODULE MCStreamServer ----------------------------
(* StreamServer for TLC: two connections, segments smaller, equal to and      *)
(* larger than the send buffer.                                                *)
EXTENDS StreamServer
===============================================================================
