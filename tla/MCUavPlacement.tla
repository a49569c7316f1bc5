---------------------------- MODULE MCUavPlacement ----------------------------
(* UavPlacement for TLC: two drones and three clusters, so that the file of an     *)
(* earlier run can be too short and the users too few for the clusters.         *)
EXTENDS UavPlacement
===============================================================================
