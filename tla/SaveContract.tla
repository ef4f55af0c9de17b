-------------------------- MODULE SaveContract --------------------------
(***************************************************************************)
(* What the save file promises the rest of the game, with no files in it:  *)
(* a restart finds the last saved state, or the one saved just before it,  *)
(* and never an older one, a mixture, or nothing once something was saved. *)
(* SaveStore is the two-file protocol of src/game.lua that has to keep     *)
(* this promise.                                                           *)
(***************************************************************************)
CONSTANTS Snapshot, DefaultState, Nil

VARIABLES
  up,      \* the program is running
  state,   \* Game.state, while it runs
  acked,   \* the state of the last save that completed, Nil before the first
  before   \* the different state saved before that one, Nil if there is none

cvars == <<up, state, acked, before>>

Init ==
  /\ up = FALSE
  /\ state = DefaultState
  /\ acked = Nil
  /\ before = Nil

(* The game changes its state in memory. *)
Play ==
  /\ up
  /\ state' \in Snapshot
  /\ UNCHANGED <<up, acked, before>>

(* A save completes: the state in memory is the one to come back to. *)
Commit ==
  /\ up
  /\ acked' = state
  /\ before' = IF state = acked THEN before ELSE acked
  /\ UNCHANGED <<up, state>>

(* Quit, or killed by the system: what was only in memory is gone. *)
Stop ==
  /\ up
  /\ up' = FALSE
  /\ state' = DefaultState
  /\ UNCHANGED <<acked, before>>

(* Nothing was ever saved: a new game. *)
StartFresh ==
  /\ ~up
  /\ acked = Nil
  /\ up' = TRUE
  /\ UNCHANGED <<state, acked, before>>

(* The last save, or the one before it, comes back. *)
StartAgain ==
  /\ ~up
  /\ acked # Nil
  /\ up' = TRUE
  /\ state' \in {acked, before} \ {Nil}
  /\ acked' = state'
  /\ before' = IF state' = acked THEN before ELSE state'

Next == Play \/ Commit \/ Stop \/ StartFresh \/ StartAgain

Spec == Init /\ [][Next]_cvars
=========================================================================
