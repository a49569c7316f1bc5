----------------------------- MODULE MCAdaptation -----------------------------
(* Adaptation for TLC.  The unit of time is 200 ms and a segment lasts 2 s; the  *)
(* levels are those of the constructors.  Rates are in kbit/s.                  *)
EXTENDS Adaptation

MCRate == [r \in Reps |-> CASE r = 0 -> 400 [] r = 1 -> 1500 [] OTHER -> 3100]
===============================================================================
