-------------------------- MODULE HarbourVisits --------------------------
(***************************************************************************)
(* Harbour with a memory of the ports the boat has come close to, to ask   *)
(* whether a dock can open anywhere else.                                  *)
(***************************************************************************)
EXTENDS Harbour, TLC

CONSTANTS norge, amerika, p1, p2, q1, q2

TwoMaps == norge :> {p1, p2} @@ amerika :> {q1, q2}

VARIABLE entered   \* ports whose range the boat has been in since World:load

Remember ==
  entered' = IF scene = "world" THEN entered \cup ({near'} \ {NoPort}) ELSE {}

VInit == Init /\ entered = {}

VSpec == VInit /\ [][Next /\ Remember]_<<vars, entered>> /\ WF_vars(Frame)

(* "once close, the boat is pulled into the berth and the screen opens only
   when parked" (World:update): a dock that is open is that of a port the boat
   has come close to since this world was loaded. *)
OpensWhereItCameClose ==
  scene = "world" /\ Docked => dock.port \in entered
==========================================================================
