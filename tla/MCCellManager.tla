---------------------------- MODULE MCCellManager ----------------------------
(* CellManager for TLC: two users, and a received power that is good (-80); a   *)
(* cell not measured yet is too weak, and the 0 that UAVManager writes is       *)
(* better by more than the threshold.                                           *)
EXTENDS CellManager

CONSTANTS u1, u2

OneLevel == {-80}
===============================================================================
