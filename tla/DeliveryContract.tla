------------------------- MODULE DeliveryContract -------------------------
(***************************************************************************)
(* A job, seen from the quay: it is taken in a harbour, by a boat with     *)
(* none aboard, for another harbour; it is paid for when the boat berths   *)
(* where it was bound, once and nowhere else; or it is lost when a new     *)
(* world is loaded.  Harbour is the machinery of src/systems/cargo.lua,    *)
(* src/ui/portscreen.lua and src/scenes/world.lua that has to keep this    *)
(* promise, through glides, overlays and screens that follow each other.   *)
(***************************************************************************)
EXTENDS Naturals

CONSTANTS Port, Nowhere

VARIABLES
  berth,   \* the harbour the boat lies in, Nowhere at sea
  bound,   \* where the job aboard goes, Nowhere if there is none
  taken, paid, lost   \* jobs

dvars == <<berth, bound, taken, paid, lost>>

Init ==
  /\ berth = Nowhere /\ bound = Nowhere
  /\ taken = 0 /\ paid = 0 /\ lost = 0

(* The boat berths, with nothing for this harbour aboard, ... *)
Berth ==
  /\ berth = Nowhere
  /\ berth' \in Port
  /\ bound # berth'
  /\ UNCHANGED <<bound, taken, paid, lost>>

(* ... or with its job: paid on the spot. *)
Deliver ==
  /\ berth = Nowhere
  /\ bound # Nowhere
  /\ berth' = bound
  /\ bound' = Nowhere
  /\ paid' = paid + 1
  /\ UNCHANGED <<taken, lost>>

(* A job goes aboard as the boat casts off ... *)
TakeOn ==
  /\ berth # Nowhere
  /\ bound = Nowhere
  /\ bound' \in Port \ {berth}
  /\ taken' = taken + 1
  /\ berth' = Nowhere
  /\ UNCHANGED <<paid, lost>>

(* ... or it leaves with what it has. *)
CastOff ==
  /\ berth # Nowhere
  /\ berth' = Nowhere
  /\ UNCHANGED <<bound, taken, paid, lost>>

(* Another voyage: a new boat. *)
Lose ==
  /\ berth = Nowhere
  /\ bound # Nowhere
  /\ bound' = Nowhere
  /\ lost' = lost + 1
  /\ UNCHANGED <<berth, taken, paid>>

Next == Berth \/ Deliver \/ TakeOn \/ CastOff \/ Lose

Spec == Init /\ [][Next]_dvars
===========================================================================
