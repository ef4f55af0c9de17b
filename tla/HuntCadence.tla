--------------------------- MODULE HuntCadence ---------------------------
(***************************************************************************)
(* TreasureHunt with a count of the ordinary deliveries since the last     *)
(* map, to ask whether hunts keep the distance config.TREASURE promises.   *)
(***************************************************************************)
EXTENDS TreasureHunt

VARIABLE trades   \* deliveries outside a hunt since the last map, up to
                  \* Cooldown, and Cooldown when this run of the game, or the
                  \* process, has given none

cvars == <<vars, trades>>

MapGranted == scene = "world" /\ \E c \in Chest : pending' = c /\ pending # c

(* A delivery in this step: a job went ashore in harbour. *)
Delivered == scene = "world" /\ dock' = "deliver" /\ dock # "deliver"

Count ==
  trades' =
    IF scene' = "off" \/ (scene = "world" /\ finale) THEN Cooldown
    ELSE IF MapGranted THEN 0
    ELSE IF Delivered /\ Active = {} /\ trades < Cooldown THEN trades + 1
    ELSE trades

CInit == Init /\ trades = Cooldown

CSpec == CInit /\ [][Next /\ Count]_cvars /\ WF_vars(Frame)

(* "deliveries of NORMAL trading that must pass after a map before another
   can be granted" (config.TREASURE.MAP_COOLDOWN), within one run of the
   program and one game; the delivery that brings the map is counted. *)
HuntsKeepTheirDistance ==
  [][MapGranted => trades + 1 >= Cooldown]_cvars
==========================================================================
