------------------------------- MODULE Domain -------------------------------
(***************************************************************************)
(* The Console's functions between a Light and a control                   *)
(* (apps/console/src/domain): mirek and kelvin, the range and the commit   *)
(* of the colour temperature's slider, and the order of the list.          *)
(*                                                                         *)
(* A slider moves in whole kelvins.  A name stands for its place in the    *)
(* collation, in which names that differ in case alone share one.          *)
(***************************************************************************)
EXTENDS Integers, Sequences, TLC

(* `reciprocalMillion`: a million by it, rounded, and a half up. *)
reciprocalMillion(value) == (2 * 1000000 + value) \div (2 * value)

kelvinFromMirek(mirek) == reciprocalMillion(mirek)
mirekFromKelvin(kelvin) == reciprocalMillion(kelvin)

DEFAULT_MIREK_RANGE == [mirekMinimum |-> 153, mirekMaximum |-> 500]

(* The least mirek is the most kelvin. *)
kelvinBoundsFor(range) ==
    [min |-> kelvinFromMirek(range.mirekMaximum),
     max |-> kelvinFromMirek(range.mirekMinimum)]

(* The slider's `commit`: back to mirek, and inside the bulb's own range,  *)
(* which the rounding of an end may have left.                             *)
commit(range, kelvin) ==
    LET mirek == mirekFromKelvin(kelvin)
        atLeast == IF mirek < range.mirekMinimum THEN range.mirekMinimum ELSE mirek
    IN  IF atLeast > range.mirekMaximum THEN range.mirekMaximum ELSE atLeast

(* `sortLightsByName`: by name, and by id where the names are one. *)
Before(left, right) ==
    \/ left.name < right.name
    \/ left.name = right.name /\ left.id < right.id

sortLightsByName(lights) == SortSeq(lights, Before)
=============================================================================
