------------------------------ MODULE Voyage ------------------------------
(***************************************************************************)
(* From the title to the sea and back (the scenes of src/game.lua), and    *)
(* what a voyage is remembered by: the fog lifted on each map              *)
(* (src/systems/fog.lua, World:flushFog), kept in that map's bucket of the *)
(* save (Game:mapState).                                                   *)
(*                                                                         *)
(* The world is one object for the whole run of the program: what a voyage *)
(* leaves in it, the next World:load, a coroutine over many frames, finds. *)
(* A save is atomic here (SaveStore opens it up).                          *)
(***************************************************************************)
EXTENDS Naturals

CONSTANTS
  Map, Home,     \* data.maps, and the one of saves from before there were maps
  NoMap,
  Cell,          \* the cells of the grid
  Start,         \* cells in view where every voyage starts
  Sights,        \* what may come into view in a frame: sets of cells
  Island, Ring, Heart,  \* the cells around an island, and those inside
  FlushFrames,   \* bound: frames in the 8 s between flushes
  CheckFrames    \* bound: frames in the 4 s between looks at the islands

ASSUME MapAssumption == Home \in Map /\ NoMap \notin Map
ASSUME CellAssumption ==
  /\ Start \subseteq Cell
  /\ Sights \subseteq SUBSET Cell
  /\ Ring \in [Island -> SUBSET Cell] /\ Heart \in [Island -> SUBSET Cell]
ASSUME BoundAssumption == {FlushFrames, CheckFrames} \subseteq Nat

VARIABLES
  scene,    \* Game.sceneName
  sel,      \* Game.state.selectedMap, which is saved when it is set
  maps,     \* the fog of each bucket of Game.state.maps
  disk,     \* the same in the save file
  ms,       \* World.ms: whose bucket; NoMap if newGame has thrown it away
  begun,    \* the coroutine of Loading has
  live,     \* World.fog: the cells lifted
  dirty,    \* World._fogDirty
  saveT,    \* World._fogSaveT
  checkT,   \* World._islandCheckT
  filled,   \* World._islandFilled
  blurred,  \* onBlur ran, and nothing since
  seen,     \* history: on each map, the cells lifted and not lost with a kill
  age       \* history: for how many frames each of them is not in the file

world == <<ms, live, dirty, saveT, checkT, filled>>
histories == <<seen, age>>
vvars == <<scene, sel, maps, disk, ms, begun, live, dirty, saveT, checkT,
           filled, blurred, seen, age>>

Buckets == [Map -> SUBSET Cell]
NoFog == [m \in Map |-> {}]
NoAge == [c \in Cell |-> 0]

TypeOK ==
  /\ scene \in {"off", "menu", "info", "boats", "maps", "loading", "world"}
  /\ sel \in Map
  /\ maps \in Buckets
  /\ disk \in Buckets
  /\ ms \in Map \cup {NoMap}
  /\ begun \in BOOLEAN /\ dirty \in BOOLEAN /\ blurred \in BOOLEAN
  /\ live \subseteq Cell
  /\ saveT \in 0 .. FlushFrames
  /\ checkT \in 0 .. CheckFrames
  /\ filled \subseteq Island
  /\ seen \in Buckets
  /\ age \in [Cell -> Nat]

(* No save, or one from before there were maps: its fog, at the top level of
   the file, is what loadSave lifts on Home. *)
Init ==
  /\ scene = "off"
  /\ sel = Home
  /\ maps = NoFog
  /\ disk \in {NoFog} \cup {[NoFog EXCEPT ![Home] = c] : c \in Sights}
  /\ seen = disk
  /\ ms = NoMap /\ begun = FALSE
  /\ live = {} /\ dirty = FALSE
  /\ saveT = 0 /\ checkT = 0 /\ filled = {}
  /\ blurred = FALSE
  /\ age = NoAge

-----------------------------------------------------------------------------
Save == disk' = maps'

(* What has been seen under way and is not in the save file. *)
Unsaved(m) == seen[m] \ (Start \cup disk[m])

Age == age' = [c \in Cell |-> IF c \in Unsaved(sel)' THEN age[c] + 1 ELSE 0]

(* Game:load: loadSave, then the title. *)
Launch ==
  /\ scene = "off"
  /\ scene' = "menu"
  /\ maps' = disk
  /\ UNCHANGED <<sel, disk, begun, world, blurred, histories>>

(* The process ends, with all that was only in memory. *)
Ends ==
  /\ scene # "off"
  /\ scene' = "off"
  /\ maps' = NoFog
  /\ ms' = NoMap /\ begun' = FALSE
  /\ live' = {} /\ dirty' = FALSE
  /\ saveT' = 0 /\ checkT' = 0 /\ filled' = {}
  /\ blurred' = FALSE
  /\ seen' = [m \in Map |-> seen[m] \cap disk'[m]]
  /\ age' = NoAge
  /\ UNCHANGED sel

Kill == UNCHANGED disk /\ Ends

(* The window is closed, or Escape is pressed where a scene has no use for
   it: a save, but no flush. *)
Quit == disk' = maps /\ Ends

-----------------------------------------------------------------------------
(* Ashore. *)

Doors == {<<"menu", "boats">>, <<"menu", "info">>, <<"info", "menu">>,
          <<"boats", "menu">>, <<"maps", "boats">>}

Walk ==
  /\ \E door \in Doors : scene = door[1] /\ scene' = door[2]
  /\ blurred' = FALSE
  /\ UNCHANGED <<sel, maps, disk, begun, world, histories>>

(* BoatSelect:setSail. *)
ChooseBoat ==
  /\ scene = "boats"
  /\ scene' = "maps"
  /\ UNCHANGED maps /\ Save
  /\ blurred' = FALSE
  /\ UNCHANGED <<sel, begun, world, histories>>

(* MapSelect:pick, of a map one has; then Loading:load. *)
PickMap ==
  /\ scene = "maps"
  /\ scene' = "loading"
  /\ sel' \in Map
  /\ UNCHANGED maps /\ Save
  /\ begun' = FALSE
  /\ blurred' = FALSE
  /\ UNCHANGED <<world, histories>>

-----------------------------------------------------------------------------
(* Loading:update resumes World:load until it is done. *)

(* Its first lines, up to the first Loader.tick that yields. *)
BeginLoad ==
  /\ scene = "loading" /\ ~begun
  /\ begun' = TRUE
  /\ ms' = sel
  /\ blurred' = FALSE
  /\ UNCHANGED <<scene, sel, maps, disk, live, dirty, saveT, checkT, filled,
                 histories>>

(* The fog of the bucket. *)
RestoredNothing == {}
Restored == maps[ms]

Circled(cells, done) == {i \in Island \ done : Ring[i] \subseteq cells}
Within(islands) == UNION {Heart[i] : i \in islands}

(* World._islandFilled: the table is new for every voyage. *)
FilledBeforeKept == filled
FilledBefore == {}

(* The last slice, and the world takes over.  _fogDirty is not reset. *)
FinishLoad ==
  /\ scene = "loading" /\ begun
  /\ scene' = "world"
  /\ begun' = FALSE
  /\ LET lit == Restored \cup Start
         circled == Circled(lit, FilledBefore)
     IN /\ live' = lit \cup Within(circled)
        /\ filled' = FilledBefore \cup circled
        /\ dirty' = (dirty \/ live' # lit)
  /\ saveT' = 0 /\ checkT' = 0
  /\ seen' = [seen EXCEPT ![sel] = @ \cup live']
  /\ age' = NoAge
  /\ blurred' = FALSE
  /\ UNCHANGED <<sel, maps, disk, ms>>

-----------------------------------------------------------------------------
(* At sea. *)

(* ms.fog = fog:serialize(): into the bucket that ms is. *)
Written(cells) == IF ms = NoMap THEN maps ELSE [maps EXCEPT ![ms] = cells]

(* The timers; a timer past its mark is as good as on it. *)
NextCheck == IF checkT = CheckFrames THEN 0 ELSE checkT + 1

NextSaveFromEachSight(due, new) ==
  IF due \/ new THEN 0 ELSE IF saveT < FlushFrames THEN saveT + 1 ELSE saveT
NextSave(due, new) ==
  IF due THEN 0 ELSE IF saveT < FlushFrames THEN saveT + 1 ELSE saveT

(* World:update, or the part of it that lifts fog: what comes into view; the
   flush, when due; an island discovered, which is saved at once; the islands
   sailed around. *)
Lift(lit, due, check) ==
  LET circled == IF check THEN Circled(lit, filled) ELSE {}
  IN /\ live' = lit \cup Within(circled)
     /\ filled' = filled \cup circled
     /\ dirty' = (((dirty \/ lit # live) /\ ~due) \/ live' # lit)
     /\ checkT' = NextCheck
     /\ maps' = IF due THEN Written(lit) ELSE maps
     /\ \E discovered \in BOOLEAN :
          IF due \/ discovered THEN Save ELSE UNCHANGED disk
     /\ seen' = [seen EXCEPT ![sel] = @ \cup live']

Frame ==
  /\ scene = "world"
  /\ \E sight \in Sights :
       LET lit == live \cup sight
           due == (dirty \/ lit # live) /\ saveT = FlushFrames
       IN /\ Lift(lit, due, checkT = CheckFrames)
          /\ saveT' = NextSave(due, lit # live)
  /\ blurred' = FALSE
  /\ UNCHANGED <<scene, sel, ms, begun>>
  /\ Age

FlushFog ==
  /\ maps' = IF dirty THEN Written(live) ELSE maps
  /\ dirty' = FALSE

ExitSavingFirst ==
  /\ scene = "world"
  /\ scene' = "menu"
  /\ FlushFog
  /\ disk' = maps
  /\ age' = NoAge
  /\ blurred' = FALSE
  /\ UNCHANGED <<sel, ms, begun, live, saveT, checkT, filled, seen>>

(* exitToMenu, from the pause menu: flushFog, save. *)
ExitToMenu ==
  /\ scene = "world"
  /\ scene' = "menu"
  /\ FlushFog
  /\ Save
  /\ age' = NoAge
  /\ blurred' = FALSE
  /\ UNCHANGED <<sel, ms, begun, live, saveT, checkT, filled, seen>>

(* "Spill igjen" in the finale: newGame. *)
NewGame ==
  /\ scene = "world"
  /\ scene' = "menu"
  /\ maps' = NoFog
  /\ Save
  /\ ms' = NoMap
  /\ seen' = NoFog /\ age' = NoAge
  /\ blurred' = FALSE
  /\ UNCHANGED <<sel, begun, live, dirty, saveT, checkT, filled>>

-----------------------------------------------------------------------------
(* Anywhere. *)

FlushOnBlurAlways == FlushFog
FlushOnBlur == IF scene = "world" THEN FlushFog ELSE UNCHANGED <<maps, dirty>>

(* onBlur: the world flushes when it is the scene, and everybody saves. *)
Blur ==
  /\ scene # "off"
  /\ FlushOnBlur
  /\ Save
  /\ blurred' = TRUE
  /\ age' = NoAge
  /\ UNCHANGED <<scene, sel, ms, begun, live, saveT, checkT, filled, seen>>

(* Gold, provisions, hints, names: the buckets are saved with them. *)
OtherSave ==
  /\ scene \in {"boats", "loading", "world"}
  /\ UNCHANGED maps
  /\ Save
  /\ UNCHANGED <<scene, sel, begun, world, blurred, histories>>

-----------------------------------------------------------------------------
Next ==
  \/ Launch \/ Kill \/ Quit
  \/ Walk \/ ChooseBoat \/ PickMap \/ BeginLoad \/ FinishLoad
  \/ Frame \/ ExitToMenu \/ NewGame
  \/ Blur \/ OtherSave

(* The game loop goes on. *)
Spec == Init /\ [][Next]_vvars /\ WF_vvars(Frame)

-----------------------------------------------------------------------------
(* "switching maps must never leak exploration between worlds" (defaultState):
   through loads that a blur interrupts, new games and restarts, the bucket of
   a map holds only what was seen on it. *)
NoLeak ==
  \A m \in Map : maps[m] \subseteq seen[m] /\ disk[m] \subseteq seen[m]

(* exitToMenu: "persist exploration", onBlur: "persist everything now": away
   from the helm nothing that was seen is missing from the file, on any map. *)
NothingForgotten ==
  scene # "world" \/ blurred => \A m \in Map : Unsaved(m) = {}

(* "reveals are otherwise only written every ~8s" (flushFog): but that often,
   however much comes into view.  What filling an island lifts comes a frame
   late. *)
SoonSaved == \A c \in Cell : age[c] <= FlushFrames + 1

(* "Sailing right around an island reveals its interior" (checkIslandFill), on
   this voyage or on earlier ones, after a new game as before. *)
CircledIsFilled ==
  \A i \in Island :
    (scene = "world" /\ Ring[i] \subseteq live)
      ~> (Heart[i] \subseteq live \/ scene # "world")

(* The save file sees proper voyages: FogContract. *)
Contract == INSTANCE FogContract WITH
  Nowhere <- NoMap,
  kept <- [m \in Map |-> disk[m] \ Start],
  out <- IF scene = "world" THEN sel ELSE NoMap,
  fresh <- IF scene = "world" THEN live \ (Start \cup disk[sel]) ELSE {}
KeepsFog == Contract!Spec
=============================================================================
