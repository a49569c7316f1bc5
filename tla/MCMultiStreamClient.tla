------------------------- MODULE MCMultiStreamClient -------------------------
(* MultiStreamClient for TLC: a video of three segments in two representations. *)
EXTENDS MultiStreamClient

\* The size names the representation: which is chosen is the algorithm's choice,
\* so that equal and different sizes of consecutive requests both occur.
MCSegmentSize == [r \in 0..HighestRep |-> [s \in 0..LastSegment |-> r + 1]]
===============================================================================
