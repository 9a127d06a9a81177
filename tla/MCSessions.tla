----------------------------- MODULE MCSessions -----------------------------
(* Two requests at once, so that one can be answered across the other; two *)
(* sign-ins, and one change of the secret.                                 *)
EXTENDS Sessions, TLC

CONSTANTS r1, r2

TwoSlots == {r1, r2}
SlotSymmetry == Permutations(TwoSlots)
=============================================================================
