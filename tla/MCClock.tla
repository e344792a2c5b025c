------------------------------ MODULE MCClock ------------------------------
(* TLC instances of AnchoredClock.                                         *)
EXTENDS AnchoredClock

\* Running true, slewed both ways, and stepped both ways past the threshold
SlewsAndSteps == {-4, -1, 0, 1, 4}
=============================================================================
