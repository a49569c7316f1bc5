------------------------------ MODULE MCUavEdge ------------------------------
(* UavEdge for TLC: the users are numbers, as manager's loop needs them.        *)
EXTENDS UavEdge

OneLevel == {-80}
===============================================================================
