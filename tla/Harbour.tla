----------------------------- MODULE Harbour -----------------------------
(***************************************************************************)
(* Docking and the delivery loop: the glide into a berth, the              *)
(* harbourmaster's screen, jobs taken and delivered (src/systems/cargo.lua,*)
(* src/ui/portscreen.lua and World:openDock), and the overlays of          *)
(* src/scenes/world.lua that must not get in each other's way.             *)
(*                                                                         *)
(* A World:update is one action: ShowCard, ParkAndDock or SailOn.  Input   *)
(* arrives between frames.  Of the treasure hunt only its being on matters *)
(* here; TreasureHunt has the rest.  Every job pays one unit.              *)
(***************************************************************************)
EXTENDS Integers, FiniteSets

CONSTANTS
  Map,          \* data.maps
  Port,         \* the harbours of all of them
  PortsOf,      \* the ports file of each map
  NoPort,
  Capacity,     \* Boat.capacity
  LatchFrames,  \* bound: frames in the 2.5 s a glide may take
  MaxJobs,      \* bound: jobs taken in one behaviour
  Keyboard      \* TRUE: there are arrow keys, which steer during a glide too

ASSUME PortsAssumption ==
  /\ PortsOf \in [Map -> SUBSET Port]
  /\ \A m \in Map : Cardinality(PortsOf[m]) >= 2
  /\ NoPort \notin Port
ASSUME CapacityAssumption == Capacity \in Nat \ {0}
ASSUME BoundsAssumption == LatchFrames \in Nat \ {0} /\ MaxJobs \in Nat
ASSUME KeyboardAssumption == Keyboard \in BOOLEAN

VARIABLES
  scene,      \* "menu" or "world"
  ports,      \* World.ports
  near,       \* World.nearPort
  latching,   \* World.latching
  latchT,     \* frames counted in World._latchT
  suppress,   \* World.dockSuppress
  offers,     \* CargoSystem.offers: where the job of each port goes
  cargo,      \* Boat.cargo: the jobs aboard, each with where it goes
  hunt,       \* activeTreasure() is not nil
  pending,    \* World.pendingMapReveal is set
  dock,       \* World.dock: mode, port and offer of the PortScreen
  pause, album, card, finale,   \* the other overlays are up
  armed,      \* the plaque with the pause button is held down (Retro.press)
  taken, paid, dropped   \* jobs taken, paid for, and lost with the boat

sea == <<near, latching, latchT, suppress>>
jobs == <<offers, cargo, taken, paid, dropped>>
treasure == <<hunt, pending>>
vars == <<scene, ports, sea, jobs, treasure, dock, pause, album, card, finale,
          armed>>

NoDock == [mode |-> "none", port |-> NoPort, offer |-> NoPort]
Docked == dock # NoDock

Somewhere == Port \cup {NoPort}

(* The jobs are numbered as they are taken. *)
Jobs == [job : 1..MaxJobs, to : Port]

Aboard(load) == Cardinality(load)
HasRoom(load) == Aboard(load) < Capacity

TypeOK ==
  /\ scene \in {"menu", "world"}
  /\ ports \in SUBSET Port
  /\ near \in Somewhere /\ latching \in Somewhere /\ suppress \in Somewhere
  /\ latchT \in 0..LatchFrames
  /\ offers \in [Port -> Somewhere]
  /\ \A p \in ports : offers[p] \in ports \ {p}
  /\ cargo \in SUBSET Jobs
  /\ dock \in [mode : {"none", "deliver", "busy", "offer", "visit", "findfirst"},
               port : Somewhere, offer : Somewhere]
  /\ {hunt, pending, pause, album, card, finale, armed} \subseteq BOOLEAN
  /\ {taken, paid, dropped} \subseteq 0..MaxJobs

NoModal == ~Docked /\ ~pause /\ ~album /\ ~card /\ ~finale

(* The overlay that gets the input, in the order every handler asks. *)
Focus ==
  IF pause THEN "pause"
  ELSE IF finale THEN "finale"
  ELSE IF card THEN "card"
  ELSE IF album THEN "album"
  ELSE IF Docked THEN "dock"
  ELSE "sea"
AtSea == scene = "world" /\ NoModal

Init ==
  /\ scene = "menu"
  /\ ports = {}
  /\ near = NoPort /\ latching = NoPort /\ latchT = 0 /\ suppress = NoPort
  /\ offers = [p \in Port |-> NoPort]
  /\ cargo = {}
  /\ hunt = FALSE /\ pending = FALSE
  /\ dock = NoDock
  /\ pause = FALSE /\ album = FALSE /\ card = FALSE /\ finale = FALSE
  /\ armed = FALSE
  /\ taken = 0 /\ paid = 0 /\ dropped = 0

-----------------------------------------------------------------------------
(* The scenes. *)

MakeOfferAnywhere(ps, p) == ps

(* makeOffer draws the destination until it is another port. *)
MakeOffer(ps, p) == ps \ {p}

(* MapSelect:pick and World:load: a new boat, new offers, every overlay gone;
   latching and _latchT stay as they were.  A save with a map out resumes its
   hunt, and a completed one shows the finale. *)
LoadWorld ==
  /\ scene = "menu"
  /\ scene' = "world"
  /\ \E m \in Map :
       /\ ports' = PortsOf[m]
       /\ offers' \in {o \in [Port -> Somewhere] : \A p \in Port :
            IF p \in PortsOf[m] THEN o[p] \in MakeOffer(PortsOf[m], p)
            ELSE o[p] = NoPort}
  /\ cargo' = {}
  /\ dropped' = dropped + Aboard(cargo)
  /\ near' = NoPort /\ suppress' = NoPort
  /\ hunt' \in BOOLEAN /\ pending' = FALSE
  /\ dock' = NoDock
  /\ pause' = FALSE /\ album' = FALSE /\ card' = FALSE
  /\ finale' \in {f \in BOOLEAN : f => ~hunt'}
  /\ armed' = FALSE
  /\ UNCHANGED <<latching, latchT, taken, paid>>

LeaveWorld ==
  /\ scene' = "menu"
  /\ armed' = FALSE
  /\ UNCHANGED <<ports, sea, jobs, treasure, dock, album, card>>

(* The way out on the pause menu. *)
ExitToMenu ==
  /\ scene = "world" /\ pause
  /\ LeaveWorld
  /\ UNCHANGED <<pause, finale>>

(* The finale closes into a new game. *)
CloseWinScreen ==
  /\ scene = "world" /\ Focus = "finale"
  /\ finale' = FALSE
  /\ LeaveWorld
  /\ UNCHANGED pause

-----------------------------------------------------------------------------
(* Overlays. *)

Rest == <<scene, ports, sea, jobs, treasure, dock, finale>>

OpenPauseAlways == pause' = TRUE

(* openPause.  A second pause menu replaces the first. *)
OpenPause == pause' = (pause \/ ~(Docked \/ album \/ card \/ finale))

(* ESC in the world: togglePause. *)
Escape ==
  /\ scene = "world"
  /\ IF pause THEN pause' = FALSE ELSE OpenPause
  /\ UNCHANGED <<Rest, album, card, armed>>

(* "Fortsett", or a tap outside the dialog. *)
ClosePause ==
  /\ scene = "world" /\ pause
  /\ pause' = FALSE
  /\ UNCHANGED <<Rest, album, card, armed>>

(* A press on the plaque arms it, whatever comes up while it is held ... *)
PressPlaque ==
  /\ AtSea
  /\ armed' = TRUE
  /\ UNCHANGED <<Rest, album, card, pause>>

(* ... and the release fires, unless it slid off. *)
ReleasePlaque ==
  /\ scene = "world" /\ armed
  /\ armed' = FALSE
  /\ OpenPause \/ UNCHANGED pause
  /\ UNCHANGED <<Rest, album, card>>

OpenAlbum ==
  /\ AtSea
  /\ album' = TRUE
  /\ UNCHANGED <<Rest, card, pause, armed>>

CloseAlbum ==
  /\ scene = "world" /\ Focus = "album"
  /\ album' = FALSE
  /\ UNCHANGED <<Rest, card, pause, armed>>

CloseMapReveal ==
  /\ scene = "world" /\ Focus = "card"
  /\ card' = FALSE
  /\ UNCHANGED <<Rest, album, pause, armed>>

-----------------------------------------------------------------------------
(* In harbour. *)

(* tryPickup: the port's job goes aboard if there is room, and the port has a
   new one at once. *)
TryPickup(p) ==
  IF offers[p] # NoPort /\ HasRoom(cargo)
  THEN /\ cargo' = cargo \cup {[job |-> taken + 1, to |-> offers[p]]}
       /\ \E d \in MakeOffer(ports, p) : offers' = [offers EXCEPT ![p] = d]
       /\ taken' = taken + 1
  ELSE UNCHANGED <<cargo, offers, taken>>

BoundFor(p) == {j \in cargo : j.to = p}

TryDeliverKeepingCargo(p) ==
  /\ UNCHANGED cargo
  /\ paid' = paid + Aboard(BoundFor(p))

(* tryDeliver: everything bound for the port goes ashore, and is paid. *)
TryDeliver(p) ==
  /\ cargo' = cargo \ BoundFor(p)
  /\ paid' = paid + Aboard(BoundFor(p))

DockModeOfferingMore(p) ==
  IF BoundFor(p) # {} THEN "deliver"
  ELSE IF hunt THEN "findfirst"
  ELSE IF offers[p] # NoPort /\ HasRoom(cargo') THEN "offer"
  ELSE "visit"

DockModeBeforeDelivery(p) ==
  IF hunt /\ BoundFor(p) = {} THEN "findfirst"
  ELSE IF cargo # {} THEN "busy"
  ELSE IF offers[p] # NoPort /\ HasRoom(cargo') THEN "offer"
  ELSE "visit"

(* What the screen shows, once the cargo is ashore; `hunt` is as it was. *)
DockMode(p) ==
  IF BoundFor(p) # {} THEN "deliver"
  ELSE IF hunt THEN "findfirst"
  ELSE IF cargo' # {} THEN "busy"
  ELSE IF offers[p] # NoPort /\ HasRoom(cargo') THEN "offer"
  ELSE "visit"

(* openDock.  A delivery outside a hunt may be rewarded with a map. *)
OpenDock(p) ==
  /\ TryDeliver(p)
  /\ LET mode == DockMode(p) IN
     /\ dock' = [mode |-> mode, port |-> p,
                 offer |-> IF mode = "offer" THEN offers[p] ELSE NoPort]
     /\ \/ mode = "deliver" /\ ~hunt /\ hunt' = TRUE /\ pending' = TRUE
        \/ UNCHANGED treasure
  /\ suppress' = p

(* PortScreen:confirm.  A delivery goes straight on to the next job, unless a
   map waits to be shown. *)
CastOff ==
  /\ scene = "world" /\ Focus = "dock"
  /\ dock.mode = "offer" => taken < MaxJobs
  /\ IF dock.mode = "deliver" /\ ~pending
        /\ offers[dock.port] # NoPort /\ HasRoom(cargo)
     THEN /\ OpenDock(dock.port)
          /\ UNCHANGED <<offers, taken>>
     ELSE /\ IF dock.mode = "offer" THEN TryPickup(dock.port)
             ELSE UNCHANGED <<cargo, offers, taken>>
          /\ dock' = NoDock
          /\ UNCHANGED <<paid, treasure, suppress>>
  /\ UNCHANGED <<scene, ports, near, latching, latchT, dropped,
                 pause, album, card, finale, armed>>

-----------------------------------------------------------------------------
(* Frames. *)

ShowCard ==
  /\ AtSea
  /\ pending
  /\ card' = TRUE
  /\ pending' = FALSE
  /\ UNCHANGED <<scene, ports, sea, jobs, hunt, dock, pause, album, finale,
                 armed>>

(* Where the boat can be a frame later.  The ranges of two ports do not meet. *)
Moves == IF near = NoPort THEN ports \cup {NoPort} ELSE {near, NoPort}

(* While the boat is pulled in it stays near, unless it never was, or the
   arrow keys steer it away. *)
MovesLatched ==
  IF near = latching /\ ~Keyboard THEN {near} ELSE Moves

GlideNeverTimesOut == FALSE

(* 2.5 s are past. *)
GlideTimesOut == latchT >= LatchFrames

(* Within 20 of the berth: it is in range of the dock, if the port is one of
   this world. *)
MayBeParked(n) == n = latching \/ latching \notin ports

(* The frame in which the glide ends: the dock opens, and nothing more. *)
ParkAndDock ==
  /\ AtSea
  /\ ~pending
  /\ latching # NoPort
  /\ \E n \in MovesLatched :
       /\ MayBeParked(n) \/ GlideTimesOut
       /\ near' = n
  /\ OpenDock(latching)
  /\ latching' = NoPort
  /\ latchT' = 0
  /\ UNCHANGED <<scene, ports, offers, taken, dropped, pause, album, card,
                 finale, armed>>

(* Any other frame.  A glide goes on until its time is out; near a port the
   boat did not just leave one begins; clear of every port it may dock again.
   Out of a glide the chest may be won, with the finale for the last one, and
   at any time the racer may take it. *)
SailOn ==
  /\ AtSea
  /\ ~pending
  /\ \E n \in IF latching = NoPort THEN Moves ELSE MovesLatched :
       /\ near' = n
       /\ IF latching # NoPort THEN
            /\ ~GlideTimesOut
            /\ latchT' = IF latchT < LatchFrames THEN latchT + 1 ELSE latchT
            /\ UNCHANGED <<latching, suppress>>
          ELSE IF n = NoPort THEN
            /\ suppress' = NoPort
            /\ UNCHANGED <<latching, latchT>>
          ELSE IF n # suppress THEN
            /\ latching' = n
            /\ latchT' = 0
            /\ UNCHANGED suppress
          ELSE UNCHANGED <<latching, latchT, suppress>>
  /\ hunt' \in {h \in BOOLEAN : h => hunt}
  /\ finale' \in {f \in BOOLEAN : f => hunt /\ ~hunt' /\ latching' = NoPort}
  /\ UNCHANGED <<scene, ports, jobs, pending, dock, pause, album, card, armed>>

-----------------------------------------------------------------------------
Next ==
  \/ LoadWorld \/ ExitToMenu \/ CloseWinScreen
  \/ Escape \/ ClosePause \/ PressPlaque \/ ReleasePlaque
  \/ OpenAlbum \/ CloseAlbum \/ CloseMapReveal
  \/ CastOff
  \/ ShowCard \/ ParkAndDock \/ SailOn

Frame == ShowCard \/ ParkAndDock \/ SailOn

(* The game loop goes on calling World:update. *)
Spec == Init /\ [][Next]_vars /\ WF_vars(Frame)

-----------------------------------------------------------------------------
(* One overlay at a time: each of the three ways to the pause menu, two of
   which do not look at the others, and each overlay the world opens by itself
   (the dock, the deferred card, the finale) finds the sea in view. *)
OneModal ==
  scene = "world" =>
    LET overlays == <<pause, album, card, finale, Docked>> IN
    \A k, l \in DOMAIN overlays : overlays[k] /\ overlays[l] => k = l

(* One job at a time: no route through offers, deliveries and the screen that
   follows a delivery puts a second job aboard, whatever the capacity. *)
OneJob == Aboard(cargo) <= 1

(* The open screen stays true to the world it was built from: the offer shown
   is the one that would go aboard and there is room for it, the harbour a
   busy screen names exists and is another one, the hunt it insists on is on,
   and what it paid for is ashore. *)
ScreenIsTrue ==
  scene = "world" =>
    /\ dock.mode = "offer" => /\ dock.offer = offers[dock.port]
                              /\ dock.offer # NoPort
                              /\ HasRoom(cargo)
                              /\ ~hunt
    /\ dock.mode = "busy" => cargo # {} /\ \A j \in cargo : j.to # dock.port
    /\ dock.mode = "findfirst" => hunt
    /\ Docked => BoundFor(dock.port) = {}

(* Every job taken is aboard, was paid for once, or was lost with the boat
   when the world was left. *)
JobsAddUp == taken = Aboard(cargo) + paid + dropped

(* The jobs are proper jobs, one at a time: DeliveryContract. *)
Destination(load) ==
  IF load = {} THEN NoPort ELSE (CHOOSE j \in load : TRUE).to
Contract == INSTANCE DeliveryContract WITH
  Nowhere <- NoPort,
  berth <- dock.port,
  bound <- Destination(cargo),
  lost <- dropped
KeepsJobs == Contract!Spec

(* A glide ends: with the game loop running, a boat that is being pulled in is
   docked, unless an overlay stops the world or the player leaves.  The player
   cannot click it free, so nothing else would. *)
GlideEnds == latching # NoPort ~> latching = NoPort \/ ~AtSea
=============================================================================
