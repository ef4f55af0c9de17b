----------------------------- MODULE MCVoyage -----------------------------
(***************************************************************************)
(* Two maps of one island each: two cells of coast, one inside; and the    *)
(* cell of the start.                                                      *)
(***************************************************************************)
EXTENDS Voyage

CONSTANTS norge, amerika, start, west, east, inside, isle

AtStart == {start}
Coasts == {{}, {west}, {east}}
RingOf == [i \in {isle} |-> {west, east}]
HeartOf == [i \in {isle} |-> {inside}]
===========================================================================
