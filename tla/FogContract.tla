---------------------------- MODULE FogContract ----------------------------
(***************************************************************************)
(* What the game promises about exploration, with no scenes, timers or     *)
(* buckets in it: a voyage goes out on one map, sees more and more, and    *)
(* what it has seen is kept with that map, all that was waiting at a time. *)
(* Coming home keeps everything.  What is kept is never lost again but for *)
(* a new game; only the end of the program takes what was not kept yet.    *)
(* Voyage is the machinery of src/scenes/world.lua and src/game.lua that   *)
(* has to keep this promise.                                               *)
(***************************************************************************)
CONSTANTS
  Map, Home,
  Nowhere,
  Cell         \* the cells of a map

VARIABLES
  kept,    \* of each map, the cells that are in the save file
  out,     \* the map the boat is out on, Nowhere ashore
  fresh    \* the cells seen on this voyage and not kept yet

fvars == <<kept, out, fresh>>

(* Only Home can be known from before. *)
Init ==
  /\ kept \in [Map -> SUBSET Cell]
  /\ \A m \in Map \ {Home} : kept[m] = {}
  /\ out = Nowhere
  /\ fresh = {}

SetOut ==
  /\ out = Nowhere
  /\ out' \in Map
  /\ fresh' \in SUBSET Cell
  /\ UNCHANGED kept

See ==
  /\ out # Nowhere
  /\ fresh' \in SUBSET Cell
  /\ fresh \subseteq fresh'
  /\ UNCHANGED <<kept, out>>

(* With the map it was seen on, and never a part of what waits.  What comes
   into view just then is kept, too, or waits for the next time. *)
Keep ==
  /\ out # Nowhere
  /\ \E known \in SUBSET Cell :
       /\ kept[out] \cup fresh \subseteq known
       /\ kept' = [kept EXCEPT ![out] = known]
  /\ fresh' \in SUBSET Cell
  /\ UNCHANGED out

ComeHome ==
  /\ out # Nowhere
  /\ kept' = [kept EXCEPT ![out] = @ \cup fresh]
  /\ out' = Nowhere
  /\ fresh' = {}

(* The program ends at sea. *)
Lost ==
  /\ out # Nowhere
  /\ out' = Nowhere
  /\ fresh' = {}
  /\ UNCHANGED kept

StartOver ==
  /\ out # Nowhere
  /\ out' = Nowhere
  /\ kept' = [m \in Map |-> {}]
  /\ fresh' = {}

Next == SetOut \/ See \/ Keep \/ ComeHome \/ Lost \/ StartOver

Spec == Init /\ [][Next]_fvars
=============================================================================
