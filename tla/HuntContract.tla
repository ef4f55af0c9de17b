-------------------------- MODULE HuntContract --------------------------
(***************************************************************************)
(* What a treasure hunt is, seen from the save file: chests are won one at *)
(* a time, each pays once, a chest a pirate takes goes back into the pool, *)
(* and nothing that was won is lost until every chest is and the game      *)
(* starts over.  TreasureHunt is the machinery of src/scenes/world.lua     *)
(* that has to keep this promise through exits, kills and restarts.        *)
(***************************************************************************)
EXTENDS Naturals

CONSTANT Chest

VARIABLES
  hunted,   \* the chest whose map is out: a set with at most one member
  won,      \* the chests dug up
  paid      \* how many chest rewards have been paid

hvars == <<hunted, won, paid>>

Init ==
  /\ hunted = {}
  /\ won = {}
  /\ paid = 0

(* A harbourmaster hands over a map: no other is out, and the chest is new. *)
Grant ==
  /\ hunted = {}
  /\ \E c \in Chest \ won : hunted' = {c}
  /\ UNCHANGED <<won, paid>>

(* A pirate gets there first. *)
Lose ==
  /\ hunted # {}
  /\ hunted' = {}
  /\ UNCHANGED <<won, paid>>

Win ==
  /\ hunted # {}
  /\ hunted' = {}
  /\ won' = won \cup hunted
  /\ paid' = paid + 1

(* "Spill igjen", offered once every chest is won. *)
StartOver ==
  /\ won = Chest
  /\ hunted' = {}
  /\ won' = {}
  /\ paid' = 0

Next == Grant \/ Lose \/ Win \/ StartOver

Spec == Init /\ [][Next]_hvars
=========================================================================
