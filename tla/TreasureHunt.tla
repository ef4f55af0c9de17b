-------------------------- MODULE TreasureHunt --------------------------
(***************************************************************************)
(* The treasure hunt of src/scenes/world.lua: maps handed over on          *)
(* deliveries, the race against a pirate to the chest, the finale, and     *)
(* what of it is in the save file.                                         *)
(*                                                                         *)
(* One World:update is one action (ShowCard, ParkAndDock or SailOn,        *)
(* whichever return it takes).  Distances are what the code tests of them: *)
(* the boat's zone around the chest in play, and whether the racer reaches *)
(* it in this frame.  A save is atomic here; SaveStore opens it up.        *)
(* Developer keys are left out: shipped builds do not have them.           *)
(***************************************************************************)
EXTENDS Integers, FiniteSets

CONSTANTS
  Chest,       \* the chests Treasure.build placed
  NoChest,
  Cooldown,    \* config.TREASURE.MAP_COOLDOWN
  ExitFrames   \* bound: frames in the 1.4 s a thief is still in sight

ASSUME ChestAssumption == IsFiniteSet(Chest) /\ NoChest \notin Chest
ASSUME CooldownAssumption == Cooldown \in Nat
ASSUME ExitAssumption == ExitFrames \in Nat \ {0}

VARIABLES
  scene,      \* "off", "menu" or "world"
  progress,   \* Game.state: the two lists of mapState, as the number of times
              \* each chest is in them, and the chest rewards among the coins
  disk,       \* the progress in the save file
  mapped,     \* World.mapped
  found,      \* the chests of World.treasures with found set
  cued,       \* the chests with cued set
  zone,       \* where the boat is, seen from the chest in play
  latching,   \* World.latching is set
  racer,      \* "none", "chase" or "retreat": World.racer and its state
  exit,       \* frames left of World._racerExitT, 0 for nil
  sinceMap,   \* World._sinceMap; every value from Cooldown on, and nil, which
              \* reads as 99, behave alike and are Cooldown
  pending,    \* World.pendingMapReveal
  card,       \* the chest of World.mapReveal
  dock,       \* the mode of World.dock, "none" for nil
  finale,     \* World.winScreen is up
  pause,      \* World.pause is up
  album,      \* World.album is up
  aboard      \* a job is aboard

onBoard == <<zone, latching, aboard>>
race == <<racer, exit, cued>>
chests == <<mapped, found>>
books == <<progress, disk>>
modals == <<card, dock, finale, pause, album>>
vars == <<scene, books, chests, race, onBoard, sinceMap, pending, modals>>

-----------------------------------------------------------------------------
Zone == {"clear", "fringe", "near", "reach"}
    \* beyond 1.4 times RACE_TRIGGER^2; up to there; within RACE_TRIGGER;
    \* within REACH

(* A boat crosses one boundary a frame at most. *)
StepFrom(z) ==
  CASE z = "clear"  -> {"clear", "fringe"}
    [] z = "fringe" -> {"clear", "fringe", "near"}
    [] z = "near"   -> {"fringe", "near", "reach"}
    [] OTHER        -> {"near", "reach"}

List == [Chest -> Nat]
Listed(l) == {c \in Chest : l[c] > 0}
Insert(l, c) == [l EXCEPT ![c] = @ + 1]
RemoveOne(l, c) == [l EXCEPT ![c] = IF @ > 0 THEN @ - 1 ELSE 0]

Fresh ==
  [treasuresMapped |-> [c \in Chest |-> 0],
   treasuresFound  |-> [c \in Chest |-> 0],
   paid            |-> 0]

(* The chests activeTreasure can return; it takes the nearest. *)
Active == mapped \ found

AllTreasuresFound == Chest # {} /\ found = Chest

NoModalButCard == dock = "none" /\ ~finale /\ ~pause /\ ~album

NoModal == dock = "none" /\ card = NoChest /\ ~finale /\ ~pause /\ ~album
AtSea == scene = "world" /\ NoModal

Books ==
  [treasuresMapped : [Chest -> {0, 1}], treasuresFound : [Chest -> {0, 1}],
   paid : 0..Cardinality(Chest)]

TypeOK ==
  /\ scene \in {"off", "menu", "world"}
  /\ {progress, disk} \subseteq Books
  /\ mapped \subseteq Chest
  /\ found \subseteq Chest
  /\ cued \subseteq Chest
  /\ zone \in Zone
  /\ racer \in {"none", "chase", "retreat"}
  /\ exit \in 0..ExitFrames
  /\ sinceMap \in 0..Cooldown
  /\ {pending, card} \subseteq Chest \cup {NoChest}
  /\ dock \in {"none", "deliver", "busy", "offer", "visit", "findfirst"}
  /\ {latching, finale, pause, album, aboard} \subseteq BOOLEAN

Init ==
  /\ scene = "off"
  /\ progress = Fresh /\ disk = Fresh
  /\ mapped = {} /\ found = {} /\ cued = {}
  /\ zone = "clear" /\ latching = FALSE /\ aboard = FALSE
  /\ racer = "none" /\ exit = 0
  /\ sinceMap = Cooldown
  /\ pending = NoChest
  /\ card = NoChest /\ dock = "none"
  /\ finale = FALSE /\ pause = FALSE /\ album = FALSE

-----------------------------------------------------------------------------
(* Starting, leaving and being killed. *)

(* A new process reads the save and shows the title. *)
Start ==
  /\ scene = "off"
  /\ scene' = "menu"
  /\ progress' = disk
  /\ UNCHANGED <<disk, chests, race, onBoard, sinceMap, pending, modals>>

(* World:load.  It leaves latching, _racerExitT and _sinceMap as they were.
   The one-time harbour hint may save. *)
LoadWorld ==
  /\ scene = "menu"
  /\ scene' = "world"
  /\ mapped' = Listed(progress.treasuresMapped)
  /\ found' = Listed(progress.treasuresFound)
  /\ cued' = {}
  /\ IF mapped' \ found' = {} THEN zone' = "clear" ELSE zone' \in Zone
  /\ racer' = "none"
  /\ pending' = NoChest
  /\ card' = NoChest /\ dock' = "none" /\ pause' = FALSE /\ album' = FALSE
  /\ finale' = (Chest # {} /\ found' = Chest)
  /\ aboard' = FALSE
  /\ disk' \in {disk, progress}
  /\ UNCHANGED <<progress, latching, exit, sinceMap>>

OpenPause ==
  /\ AtSea
  /\ pause' = TRUE
  /\ UNCHANGED <<scene, books, chests, race, onBoard, sinceMap, pending,
                 card, dock, finale, album>>

ClosePause ==
  /\ scene = "world" /\ pause
  /\ pause' = FALSE
  /\ UNCHANGED <<scene, books, chests, race, onBoard, sinceMap, pending,
                 card, dock, finale, album>>

(* The treasure row of the shelf, or its key. *)
OpenAlbum ==
  /\ AtSea
  /\ album' = TRUE
  /\ UNCHANGED <<scene, books, chests, race, onBoard, sinceMap, pending,
                 card, dock, finale, pause>>

CloseAlbum ==
  /\ scene = "world" /\ album
  /\ album' = FALSE
  /\ UNCHANGED <<scene, books, chests, race, onBoard, sinceMap, pending,
                 card, dock, finale, pause>>

(* The way out on the pause menu. *)
ExitToMenu ==
  /\ scene = "world" /\ pause
  /\ disk' = progress
  /\ scene' = "menu"
  /\ UNCHANGED <<progress, chests, race, onBoard, sinceMap, pending, modals>>

(* Losing the focus saves, in every scene. *)
Blur ==
  /\ scene # "off"
  /\ disk' = progress
  /\ UNCHANGED <<scene, progress, chests, race, onBoard, sinceMap, pending,
                 modals>>

(* The process ends: all that is left is the save file. *)
Kill ==
  /\ scene # "off"
  /\ scene' = "off"
  /\ progress' = Fresh
  /\ mapped' = {} /\ found' = {} /\ cued' = {}
  /\ zone' = "clear" /\ latching' = FALSE /\ aboard' = FALSE
  /\ racer' = "none" /\ exit' = 0
  /\ sinceMap' = Cooldown
  /\ pending' = NoChest
  /\ card' = NoChest /\ dock' = "none"
  /\ finale' = FALSE /\ pause' = FALSE /\ album' = FALSE
  /\ UNCHANGED disk

-----------------------------------------------------------------------------
(* In harbour. *)

EverHad == \/ Listed(progress.treasuresMapped) # {}
           \/ Listed(progress.treasuresFound) # {}

(* _sinceMap after the delivery: deliveries made during a hunt do not count. *)
Breather(delivered) ==
  IF delivered /\ Active = {} /\ sinceMap < Cooldown
  THEN sinceMap + 1
  ELSE sinceMap

(* mapDue for a roll under MAP_CHANCE. *)
MapDue(delivered) == ~EverHad \/ Breather(delivered) >= Cooldown

HandOverAnyMap(delivered) ==
  /\ delivered
  /\ Active = {}
  /\ MapDue(delivered)
  /\ \E c \in Chest :
       /\ mapped' = mapped \cup {c}
       /\ progress' = [progress EXCEPT !.treasuresMapped = Insert(@, c)]
       /\ pending' = c
  /\ zone' \in Zone
  /\ sinceMap' = 0

(* revealTreasureMap hands over the map of the chest nearest to the port. *)
HandOverMap(delivered) ==
  /\ delivered
  /\ Active = {}
  /\ MapDue(delivered)
  /\ \E c \in Chest \ (found \cup mapped) :
       /\ mapped' = mapped \cup {c}
       /\ progress' = [progress EXCEPT !.treasuresMapped = Insert(@, c)]
       /\ pending' = c
  /\ zone' \in Zone
  /\ sinceMap' = 0

(* It hands over nothing: no delivery, a hunt under way, not due, a roll that
   failed (the first map needs no roll), or no chest left. *)
KeepMaps(delivered) ==
  /\ \/ ~delivered
     \/ Active # {}
     \/ EverHad
     \/ Chest \subseteq found \cup mapped
  /\ sinceMap' = Breather(delivered)
  /\ UNCHANGED <<mapped, progress, pending, zone>>

DockModesWithOffers(delivered) ==
  IF delivered THEN {"deliver"}
  ELSE IF aboard THEN {"busy"}
  ELSE {"offer", "visit"}

(* What the harbourmaster's screen shows. *)
DockModes(delivered) ==
  IF delivered THEN {"deliver"}
  ELSE IF Active # {} THEN {"findfirst"}
  ELSE IF aboard THEN {"busy"}
  ELSE {"offer", "visit"}

(* openDock.  The reward of a delivery saves, and so does a map. *)
OpenDock(delivered) ==
  /\ dock' \in DockModes(delivered)
  /\ aboard' = (aboard /\ ~delivered)
  /\ HandOverMap(delivered) \/ KeepMaps(delivered)
  /\ disk' = IF delivered THEN progress' ELSE disk
  /\ UNCHANGED <<scene, found, race, card, finale, pause, album>>

(* PortScreen:confirm.  A job that is offered goes aboard, and may bring the
   one-time hint, which saves.  After a delivery the next job is offered at
   once, unless a map waits to be shown or the port has none. *)
CastOff ==
  /\ scene = "world" /\ dock # "none"
  /\ \/ /\ dock = "deliver" /\ pending = NoChest
        /\ OpenDock(FALSE)
        /\ UNCHANGED latching
     \/ /\ dock' = "none"
        /\ aboard' = (aboard \/ dock = "offer")
        /\ disk' \in IF dock = "offer" THEN {disk, progress} ELSE {disk}
        /\ UNCHANGED <<scene, progress, chests, race, zone, latching,
                       sinceMap, pending, card, finale, pause, album>>

-----------------------------------------------------------------------------
(* One frame at sea. *)

ShowNoCard ==
  /\ AtSea
  /\ pending # NoChest
  /\ pending' = NoChest
  /\ UNCHANGED <<scene, books, chests, race, onBoard, sinceMap, modals>>

(* The deferred card comes up; nothing else happens in that frame. *)
ShowCard ==
  /\ AtSea
  /\ pending # NoChest
  /\ card' = pending
  /\ pending' = NoChest
  /\ UNCHANGED <<scene, books, chests, race, onBoard, sinceMap, dock, finale,
                 pause, album>>

CloseCard ==
  /\ scene = "world" /\ card # NoChest
  /\ card' = NoChest
  /\ UNCHANGED <<scene, books, chests, race, onBoard, sinceMap, pending, dock,
                 finale, pause, album>>

(* The boat lies in its berth, or has been pulled long enough. *)
ParkAndDock ==
  /\ AtSea
  /\ pending = NoChest
  /\ latching
  /\ latching' = FALSE
  /\ \E delivered \in {d \in BOOLEAN : d => aboard} : OpenDock(delivered)

(* updateRace, with the boat in zone z and latching l: the racer r, its exit x
   and the cues q that come out of it. *)
Race(z, l, r, x, q) ==
  IF exit > 0 THEN
    /\ x = IF racer = "none" THEN 0 ELSE exit - 1
    /\ r = IF x = 0 THEN "none" ELSE racer
    /\ q = cued
  ELSE IF Active = {} THEN
    /\ x = 0
    /\ r \in IF racer = "none" THEN {"none"} ELSE {"retreat", "none"}
    /\ q = cued
  ELSE \E t \in Active :
    LET warns == z \in {"near", "reach"} /\ t \notin cued /\ ~l IN
    /\ x = 0
    /\ r \in CASE racer = "none" /\ warns -> {"none", "chase"}
              [] racer = "retreat" -> {"retreat", "none"}
              [] OTHER -> {racer}
    /\ q = CASE warns -> cued \cup {t}
             [] z = "clear" -> cued \ {t}
             [] OTHER -> cued

GrabTreasureSavingFirst(t, x, q) ==
  /\ found' = found \cup {t}
  /\ progress' = [progress EXCEPT !.treasuresFound = Insert(@, t), !.paid = @ + 1]
  /\ disk' = [progress EXCEPT !.paid = @ + 1]
  /\ racer' = "none" /\ exit' = x /\ cued' = q
  /\ finale' = (Chest # {} /\ found' = Chest)
  /\ UNCHANGED mapped

(* grabTreasure: the racer is gone, the chest pays and that saves; the last
   one brings the finale. *)
GrabTreasure(t, x, q) ==
  /\ found' = found \cup {t}
  /\ progress' = [progress EXCEPT !.treasuresFound = Insert(@, t), !.paid = @ + 1]
  /\ disk' = progress'
  /\ racer' = "none" /\ exit' = x /\ cued' = q
  /\ finale' = (Chest # {} /\ found' = Chest)
  /\ UNCHANGED mapped

StealTreasureKeepingCue(t, q) ==
  /\ mapped' = mapped \ {t}
  /\ progress' = [progress EXCEPT !.treasuresMapped = RemoveOne(@, t)]
  /\ disk' = progress'
  /\ racer' = "retreat" /\ exit' = ExitFrames /\ cued' = q
  /\ UNCHANGED <<found, finale>>

StealTreasureStillListed(t, q) ==
  /\ mapped' = mapped \ {t}
  /\ disk' = progress
  /\ racer' = "retreat" /\ exit' = ExitFrames /\ cued' = q \ {t}
  /\ UNCHANGED <<progress, found, finale>>

(* pirateStealsTreasure: the chest goes back into the pool, which saves, and
   the racer makes off. *)
StealTreasure(t, q) ==
  /\ mapped' = mapped \ {t}
  /\ progress' = [progress EXCEPT !.treasuresMapped = RemoveOne(@, t)]
  /\ disk' = progress'
  /\ racer' = "retreat" /\ exit' = ExitFrames /\ cued' = q \ {t}
  /\ UNCHANGED <<found, finale>>

(* The rest of World:update: the boat moves and may start to glide into a
   berth, the race goes on, and then the player, or else a racer that was out
   before this frame, may be at the chest.  A tie goes to the player. *)
SailOn ==
  /\ AtSea
  /\ pending = NoChest
  /\ \E z \in StepFrom(zone), l \in {b \in BOOLEAN : latching => b},
        r \in {"none", "chase", "retreat"}, x \in 0..ExitFrames,
        q \in SUBSET Chest :
       /\ Race(z, l, r, x, q)
       /\ latching' = l
       /\ \/ z = "reach" /\ ~l /\ \E t \in Active : GrabTreasure(t, x, q)
          \/ /\ z # "reach" \/ l
             /\ racer = "chase" /\ r = "chase"
             /\ \E t \in Active : StealTreasure(t, q)
          \/ /\ z # "reach" \/ l \/ Active = {}
             /\ racer' = r /\ exit' = x /\ cued' = q
             /\ UNCHANGED <<chests, books, finale>>
       /\ zone' = IF mapped' \ found' = {} THEN "clear" ELSE z
  /\ UNCHANGED <<scene, aboard, sinceMap, pending, card, dock, pause, album>>

-----------------------------------------------------------------------------
BackToSea ==
  /\ scene = "world" /\ finale
  /\ finale' = FALSE
  /\ UNCHANGED <<scene, books, chests, race, onBoard, sinceMap, pending, card,
                 dock, pause, album>>

(* closeWinScreen, on "Spill igjen": newGame wipes the progress, saves and
   goes to the title. *)
NewGame ==
  /\ scene = "world" /\ finale
  /\ finale' = FALSE
  /\ progress' = Fresh
  /\ disk' = Fresh
  /\ scene' = "menu"
  /\ UNCHANGED <<chests, race, onBoard, sinceMap, pending, card, dock, pause,
                 album>>

Next ==
  \/ Start \/ LoadWorld \/ OpenPause \/ ClosePause \/ ExitToMenu
  \/ OpenAlbum \/ CloseAlbum
  \/ Blur \/ Kill
  \/ ParkAndDock \/ CastOff
  \/ ShowCard \/ CloseCard \/ SailOn \/ NewGame

Frame == ShowCard \/ ParkAndDock \/ SailOn

(* The game loop goes on calling World:update.  Nothing is assumed of the
   player. *)
Spec == Init /\ [][Next]_vars /\ WF_vars(Frame)

-----------------------------------------------------------------------------
(* The world, the lists of the running game and the save file tell the same
   story, so that a kill between any two handlers neither gives a chest back
   that was paid for nor takes one that was won (load reads only the lists,
   revealTreasureMap and winTreasure write both). *)
OneStory ==
  /\ scene # "off" => disk = progress
  /\ scene = "world" => /\ Listed(progress.treasuresMapped) = mapped
                        /\ Listed(progress.treasuresFound) = found
  /\ progress.paid = Cardinality(Listed(progress.treasuresFound))

(* updateRace's "no chest in play" branch has nothing to send off: a racer in
   the chase always has a chest to race for, one that retreats has just taken
   it and is on its way out; and a chest that went back into the pool has its
   warning armed for the next time. *)
RaceFollowsHunt ==
  scene = "world" =>
    /\ racer = "chase" => Active # {} /\ exit = 0
    /\ racer = "retreat" => exit > 0
    /\ cued \subseteq mapped

(* The deferred card, and the card itself, are for the hunt that is on: no
   frame in between can lose or win the chest (update shows it first). *)
CardIsForTheHunt ==
  scene = "world" => {pending, card} \ {NoChest} \subseteq Active

(* "A completed save would dead-end" (World:load): in the world with every
   chest found the finale is up, whatever was killed or left on the way. *)
NeverDeadEnds ==
  scene = "world" => (finale <=> AllTreasuresFound)

(* "No new oppdrag while a map is live" (openDock), and more: a hunt and a job
   never meet.  No job comes aboard during a hunt, not even from the screen
   that follows a delivery, and no hunt begins with a job aboard; so no
   delivery is ever made during a hunt. *)
HuntOrJob ==
  scene = "world" /\ aboard => Active = {}

(* A granted map is always announced: with the game loop running, a waiting
   card comes up unless the player pauses, opens the album or is gone first.
   (Either overlay may be opened by an event of the batch that closed the
   harbour screen, and stops the frame that would have shown the card.) *)
MapIsAnnounced ==
  pending # NoChest /\ dock = "none" ~>
    card # NoChest \/ pause \/ album \/ scene # "world"

(* The save file sees a proper hunt: HuntContract. *)
Contract == INSTANCE HuntContract WITH
  hunted <- Listed(disk.treasuresMapped) \ Listed(disk.treasuresFound),
  won <- Listed(disk.treasuresFound),
  paid <- disk.paid
KeepsHunt == Contract!Spec
=============================================================================
