------------------------------ MODULE MCMeter ------------------------------
(* The real window and the real milliseconds, with a limit of two; the      *)
(* steps land just before, on and after the end of a window.                *)
EXTENDS Meter, TLC

CONSTANTS k1, k2

MCKeys == {k1, k2}
KeySymmetry == Permutations(MCKeys)
MCSteps == {29500, 30000}
=============================================================================
