--------------------------- MODULE MCFogController ---------------------------
(* FogController for TLC: a client that needs one unit of memory and one that  *)
(* needs two, both of the same content, on servers of two units; or clients   *)
(* that need one unit each, on servers with room for all of them.             *)
EXTENDS FogController

CONSTANTS small, large, video

MCMemorySize == [s \in Servers |-> 2]
MCContent == [c \in Clients |-> video]
MCUnits == [c \in Clients |-> 1]
MCRoom == [s \in Servers |-> 3]
MCSize == [c \in Clients |-> IF c = small THEN 1 ELSE 2]
Interchangeable == Permutations(Clients)
MCRegion == [c \in Clients |-> 0]
===============================================================================
