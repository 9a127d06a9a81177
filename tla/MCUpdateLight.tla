--------------------------- MODULE MCUpdateLight ---------------------------
(* One light, with a card in the list and the controls of its own page.    *)
EXTENDS UpdateLight, TLC

CONSTANTS card, controls, l1, dim, bright

CardAndControls == {card, controls}
OneLight == {l1}
OfTheOneLight == [i \in Instances |-> l1]
ListAndDetail == {{card}, {controls}}
TwoCommands == {dim, bright}

(* What is the same with the two pages, or the two Commands, exchanged. *)
Alike == Permutations(Instances) \cup Permutations(Commands)
=============================================================================
