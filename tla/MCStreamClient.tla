---------------------------- MODULE MCStreamClient ----------------------------
(* StreamClient for TLC: a video of four segments in two representations.   *)
EXTENDS StreamClient

\* One segment arrives in one packet or more; sizes differ between neighbours
\* and between representations, so that a mix-up of indices shows.
MCSegmentSize == [r \in Reps |-> [s \in Segments |-> IF (r + s) % 2 = 0 THEN 1 ELSE 2]]
===============================================================================
