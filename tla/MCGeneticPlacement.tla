-------------------------- MODULE MCGeneticPlacement --------------------------
(* GeneticPlacement for TLC: enough solutions for one that crossover copies and  *)
(* one that prune replaces.                                                     *)
EXTENDS GeneticPlacement
===============================================================================
