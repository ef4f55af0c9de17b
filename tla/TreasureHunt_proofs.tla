----------------------- MODULE TreasureHunt_proofs -----------------------
(***************************************************************************)
(* Proofs about TreasureHunt, for every finite set of chests, any cooldown *)
(* and any length of a thief's exit.                                       *)
(*                                                                         *)
(* The six state properties need each other, and three facts more: the     *)
(* save file is sound while the program is off, too; at most one chest is  *)
(* hunted; and a job is only on offer when none is.  At the end: that a    *)
(* map that waits is shown next, and why one may come early (HuntCadence). *)
(***************************************************************************)
EXTENDS HuntCadence, FiniteSetTheorems, TLAPS

(* p says of the chests what m (mapped) and f (found) say, with one hunt at
   most and every find paid for once. *)
Story(p, m, f) ==
  /\ p \in [treasuresMapped : [Chest -> {0, 1}],
            treasuresFound : [Chest -> {0, 1}], paid : Nat]
  /\ Listed(p.treasuresMapped) = m
  /\ Listed(p.treasuresFound) = f
  /\ p.paid = Cardinality(f)
  /\ \A c, d \in m \ f : c = d

Sound(p) == Story(p, Listed(p.treasuresMapped), Listed(p.treasuresFound))

Inv ==
  /\ TypeOK
  /\ Sound(progress) /\ Sound(disk)
  /\ scene # "off" => disk = progress
  /\ scene = "world" => Story(progress, mapped, found)
  /\ RaceFollowsHunt
  /\ CardIsForTheHunt
  /\ NeverDeadEnds
  /\ HuntOrJob
  /\ scene = "world" /\ dock = "offer" => Active = {}

-----------------------------------------------------------------------------
(* The operations on the two lists. *)

LEMMA FreshStory == Story(Fresh, {}, {}) /\ Sound(Fresh)
<1>1. Listed([c \in Chest |-> 0]) = {}
  BY DEF Listed
<1>2. Cardinality({}) = 0
  BY FS_EmptySet
<1> QED
  BY <1>1, <1>2 DEF Story, Sound, Fresh

LEMMA InsertNew ==
  ASSUME NEW l \in [Chest -> {0, 1}], NEW c \in Chest, c \notin Listed(l)
  PROVE  /\ Insert(l, c) \in [Chest -> {0, 1}]
         /\ Listed(Insert(l, c)) = Listed(l) \cup {c}
<1>1. l[c] = 0
  BY DEF Listed
<1>2. \A d \in Chest : Insert(l, c)[d] = IF d = c THEN 1 ELSE l[d]
  BY <1>1 DEF Insert
<1> QED
  BY <1>1, <1>2 DEF Insert, Listed

LEMMA RemoveListed ==
  ASSUME NEW l \in [Chest -> {0, 1}], NEW c \in Chest
  PROVE  /\ RemoveOne(l, c) \in [Chest -> {0, 1}]
         /\ Listed(RemoveOne(l, c)) = Listed(l) \ {c}
<1>1. \A d \in Chest : RemoveOne(l, c)[d] = IF d = c THEN 0 ELSE l[d]
  BY DEF RemoveOne
<1> QED
  BY <1>1 DEF RemoveOne, Listed

LEMMA StoryFinite ==
  ASSUME NEW p, NEW m, NEW f, Story(p, m, f)
  PROVE  /\ m \subseteq Chest /\ f \subseteq Chest
         /\ IsFiniteSet(f)
         /\ p.paid \in 0..Cardinality(Chest)
<1>1. m \subseteq Chest /\ f \subseteq Chest
  BY DEF Story, Listed
<1>2. IsFiniteSet(f) /\ Cardinality(f) <= Cardinality(Chest)
  BY <1>1, ChestAssumption, FS_Subset
<1>3. Cardinality(Chest) \in Nat
  BY ChestAssumption, FS_CardinalityType
<1> QED
  BY <1>1, <1>2, <1>3 DEF Story

LEMMA StoryIsSound ==
  ASSUME NEW p, NEW m, NEW f, Story(p, m, f)
  PROVE  Sound(p)
  BY DEF Story, Sound

(* A map handed over when no other is out. *)
LEMMA MapListed ==
  ASSUME NEW p, NEW m, NEW f, Story(p, m, f), m \ f = {},
         NEW c \in Chest \ (f \cup m)
  PROVE  Story([p EXCEPT !.treasuresMapped = Insert(@, c)], m \cup {c}, f)
  BY InsertNew DEF Story

(* The map whose chest a pirate took. *)
LEMMA MapTaken ==
  ASSUME NEW p, NEW m, NEW f, Story(p, m, f), NEW t \in Chest
  PROVE  Story([p EXCEPT !.treasuresMapped = RemoveOne(@, t)], m \ {t}, f)
  BY RemoveListed DEF Story

(* A chest that is won and paid for. *)
LEMMA FoundUpdate ==
  ASSUME NEW p \in [treasuresMapped : [Chest -> {0, 1}],
                    treasuresFound : [Chest -> {0, 1}], paid : Nat],
         NEW l \in [Chest -> {0, 1}], NEW n \in Nat
  PROVE  LET q == [p EXCEPT !.treasuresFound = l, !.paid = n] IN
         /\ q \in [treasuresMapped : [Chest -> {0, 1}],
                   treasuresFound : [Chest -> {0, 1}], paid : Nat]
         /\ q.treasuresMapped = p.treasuresMapped
         /\ q.treasuresFound = l
         /\ q.paid = n
  OBVIOUS

LEMMA ChestWon ==
  ASSUME NEW p, NEW m, NEW f, Story(p, m, f), NEW t \in m \ f
  PROVE  Story([p EXCEPT !.treasuresFound = Insert(@, t), !.paid = @ + 1],
               m, f \cup {t})
<1> DEFINE l == Insert(p.treasuresFound, t)
           n == p.paid + 1
           q == [p EXCEPT !.treasuresFound = l, !.paid = n]
<1>1. Cardinality(f \cup {t}) = Cardinality(f) + 1
  BY StoryFinite, FS_AddElement
<1>2. /\ t \in Chest
      /\ t \notin Listed(p.treasuresFound)
      /\ p.treasuresFound \in [Chest -> {0, 1}]
  BY StoryFinite DEF Story
<1>3. l \in [Chest -> {0, 1}] /\ Listed(l) = f \cup {t}
  BY <1>2, InsertNew DEF Story
<1>4. n \in Nat /\ n = Cardinality(f \cup {t})
  BY <1>1 DEF Story
<1> HIDE DEF l, n
<1>5. /\ q \in [treasuresMapped : [Chest -> {0, 1}],
                treasuresFound : [Chest -> {0, 1}], paid : Nat]
      /\ q.treasuresMapped = p.treasuresMapped
      /\ q.treasuresFound = l
      /\ q.paid = n
  BY <1>3, <1>4, FoundUpdate DEF Story
<1> HIDE DEF q
<1>6. Story(q, m, f \cup {t})
  BY <1>3, <1>4, <1>5 DEF Story
<1> QED
  BY <1>6 DEF q, l, n

(* Sound books have the type TypeOK asks for. *)
LEMMA SoundTyped ==
  ASSUME NEW p, NEW d, Sound(p), Sound(d)
  PROVE  {p, d} \subseteq Books
<1>1. \A q \in {p, d} : q.paid \in 0..Cardinality(Chest)
  BY StoryFinite DEF Sound
<1>2. \A q \in {p, d} : q \in [treasuresMapped : [Chest -> {0, 1}],
                              treasuresFound : [Chest -> {0, 1}], paid : Nat]
  BY DEF Sound, Story
<1> QED
  BY <1>1, <1>2 DEF Books

-----------------------------------------------------------------------------
(* Inv is inductive. *)

LEMMA InitInv == Init => Inv
<1> SUFFICES ASSUME Init PROVE Inv
  OBVIOUS
<1>1. Sound(progress) /\ Sound(disk)
  BY FreshStory DEF Init
<1>2. {progress, disk} \subseteq Books
  BY <1>1, SoundTyped
<1>3. exit \in 0..ExitFrames /\ sinceMap \in 0..Cooldown
  BY CooldownAssumption, ExitAssumption DEF Init
<1>4. TypeOK
  BY <1>2, <1>3 DEF Init, TypeOK, Zone
<1> QED
  BY <1>1, <1>4 DEF Init, Inv, RaceFollowsHunt, CardIsForTheHunt, NeverDeadEnds,
                    HuntOrJob

(* Starting, leaving and being killed. *)
LEMMA StartKeepsInv == Inv /\ Start => Inv'
<1> SUFFICES ASSUME Inv, Start PROVE Inv'
  OBVIOUS
<1>1. Sound(progress)' /\ Sound(disk)'
  BY DEF Inv, Start, books
<1> QED
  BY <1>1 DEF Inv, Start, TypeOK, chests, race, onBoard, modals,
              RaceFollowsHunt, CardIsForTheHunt, NeverDeadEnds, HuntOrJob

LEMMA LoadWorldKeepsInv == Inv /\ LoadWorld => Inv'
<1> SUFFICES ASSUME Inv, LoadWorld PROVE Inv'
  OBVIOUS
<1>1. disk' = progress' /\ progress' = progress
  BY DEF Inv, LoadWorld
<1>2. Story(progress, mapped, found)'
  BY <1>1 DEF Inv, LoadWorld, Sound
<1>3. mapped' \subseteq Chest /\ found' \subseteq Chest
  BY <1>2, StoryFinite
<1>4. TypeOK'
  BY <1>1, <1>3 DEF Inv, LoadWorld, TypeOK, Zone
<1>5. RaceFollowsHunt' /\ CardIsForTheHunt' /\ NeverDeadEnds' /\ HuntOrJob'
  BY DEF LoadWorld, RaceFollowsHunt, CardIsForTheHunt, NeverDeadEnds,
         HuntOrJob, AllTreasuresFound
<1> QED
  BY <1>1, <1>2, <1>4, <1>5 DEF Inv, LoadWorld

LEMMA KillKeepsInv == Inv /\ Kill => Inv'
<1> SUFFICES ASSUME Inv, Kill PROVE Inv'
  OBVIOUS
<1>1. Sound(progress)' /\ Sound(disk)'
  BY FreshStory DEF Inv, Kill
<1>2. ({progress, disk} \subseteq Books)'
  BY <1>1, SoundTyped
<1>3. (exit \in 0..ExitFrames /\ sinceMap \in 0..Cooldown)'
  BY CooldownAssumption, ExitAssumption DEF Kill
<1>4. TypeOK'
  BY <1>2, <1>3 DEF Kill, TypeOK, Zone
<1> QED
  BY <1>1, <1>4 DEF Inv, Kill, RaceFollowsHunt, CardIsForTheHunt,
                    NeverDeadEnds, HuntOrJob

(* What changes neither the chests nor the books. *)
LEMMA OverlaysKeepInv ==
  Inv /\ (OpenPause \/ ClosePause \/ OpenAlbum \/ CloseAlbum \/ ExitToMenu \/ Blur
          \/ ShowCard \/ CloseCard \/ UNCHANGED vars) => Inv'
<1> SUFFICES ASSUME Inv,
                    \/ OpenPause \/ ClosePause \/ OpenAlbum \/ CloseAlbum
                    \/ ExitToMenu \/ Blur \/ ShowCard \/ CloseCard \/ UNCHANGED vars
             PROVE  Inv'
  OBVIOUS
<1> USE DEF vars, books, chests, race, onBoard, modals
<1>1. /\ UNCHANGED <<progress, disk, mapped, found, racer, exit, cued, zone,
                     latching, aboard, sinceMap, dock, finale>>
      /\ \/ scene' = scene
         \/ scene' = "menu" /\ scene = "world"
      /\ pause' \in BOOLEAN /\ album' \in BOOLEAN
      /\ {pending, card}' \subseteq {pending, card, NoChest}
  <2> USE DEF Inv, TypeOK
  <2>1. CASE OpenPause \/ ClosePause \/ OpenAlbum \/ CloseAlbum
    BY <2>1 DEF OpenPause, ClosePause, OpenAlbum, CloseAlbum
  <2>2. CASE ExitToMenu \/ Blur
    BY <2>2 DEF ExitToMenu, Blur
  <2>3. CASE ShowCard \/ CloseCard
    BY <2>3 DEF ShowCard, CloseCard
  <2>4. CASE UNCHANGED vars
    BY <2>4
  <2> QED
    BY <2>1, <2>2, <2>3, <2>4
<1>2. TypeOK'
  BY <1>1 DEF Inv, TypeOK
<1>3. RaceFollowsHunt' /\ CardIsForTheHunt' /\ NeverDeadEnds' /\ HuntOrJob'
  BY <1>1 DEF Inv, RaceFollowsHunt, CardIsForTheHunt, NeverDeadEnds, HuntOrJob,
              AllTreasuresFound, Active
<1> QED
  BY <1>1, <1>2, <1>3 DEF Inv, Active

-----------------------------------------------------------------------------
(* In harbour. *)
LEMMA OpenDockKeepsInv ==
  ASSUME Inv, NEW delivered \in BOOLEAN, OpenDock(delivered), delivered => aboard,
         scene = "world", pending = NoChest, delivered => card = NoChest,
         latching' \in BOOLEAN
  PROVE  Inv'
<1>1. scene' = "world" /\ UNCHANGED <<found, racer, exit, cued, card, finale, pause, album>>
  BY DEF OpenDock, race
<1>2. Story(progress, mapped, found) /\ disk = progress
  BY DEF Inv
<1>3. mapped \subseteq Chest /\ found \subseteq Chest /\ cued \subseteq mapped
  BY <1>2, StoryFinite DEF Inv, RaceFollowsHunt
<1>4. DockModes(delivered) \subseteq {"deliver", "busy", "offer", "visit", "findfirst"}
  BY DEF DockModes
<1>5. CASE HandOverMap(delivered)
  <2>1. PICK c \in Chest \ (found \cup mapped) :
          /\ mapped' = mapped \cup {c}
          /\ progress' = [progress EXCEPT !.treasuresMapped = Insert(@, c)]
          /\ pending' = c
    BY <1>5 DEF HandOverMap
  <2>2. delivered /\ mapped \ found = {} /\ sinceMap' = 0 /\ zone' \in Zone
    BY <1>5 DEF HandOverMap, Active
  <2>3. Story(progress', mapped', found')
    BY <1>1, <1>2, <2>1, <2>2, MapListed
  <2>4. disk' = progress'
    BY <2>2 DEF OpenDock
  <2>5. Sound(progress)' /\ Sound(disk)'
    BY <2>3, <2>4, StoryIsSound
  <2>6. dock' = "deliver" /\ aboard' = FALSE
    BY <2>2 DEF OpenDock, DockModes
  <2>7. ({progress, disk} \subseteq Books)'
    BY <2>5, SoundTyped
  <2>8. TypeOK'
    <3>1. sinceMap' \in 0..Cooldown
      BY <2>2, CooldownAssumption
    <3> QED
      BY <1>1, <1>3, <2>1, <2>2, <2>6, <2>7, <3>1 DEF Inv, TypeOK
  <2>9. RaceFollowsHunt' /\ CardIsForTheHunt' /\ NeverDeadEnds' /\ HuntOrJob'
    BY <1>1, <1>3, <2>1, <2>6 DEF Inv, RaceFollowsHunt, CardIsForTheHunt,
         NeverDeadEnds, HuntOrJob, AllTreasuresFound, Active
  <2> QED
    BY <1>1, <2>3, <2>4, <2>5, <2>6, <2>8, <2>9 DEF Inv
<1>6. CASE KeepMaps(delivered)
  <2>1. UNCHANGED <<mapped, progress, pending, zone>> /\ sinceMap' = Breather(delivered)
    BY <1>6 DEF KeepMaps
  <2>2. disk' = progress'
    BY <1>2, <2>1 DEF OpenDock
  <2>3. dock' = "offer" => ~aboard /\ Active = {}
    BY DEF OpenDock, DockModes
  <2>4. sinceMap' \in 0..Cooldown
    BY <2>1, CooldownAssumption DEF Breather, Inv, TypeOK
  <2>5. aboard' = (aboard /\ ~delivered)
    BY DEF OpenDock
  <2>6. dock' \in {"deliver", "busy", "offer", "visit", "findfirst"}
    BY <1>4 DEF OpenDock
  <2>7. TypeOK'
    BY <1>1, <2>1, <2>2, <2>4, <2>5, <2>6 DEF Inv, TypeOK
  <2>8. RaceFollowsHunt' /\ CardIsForTheHunt' /\ NeverDeadEnds' /\ HuntOrJob'
    BY <1>1, <2>1, <2>5 DEF Inv, RaceFollowsHunt, CardIsForTheHunt,
         NeverDeadEnds, HuntOrJob, AllTreasuresFound, Active
  <2> QED
    BY <1>1, <1>2, <2>1, <2>2, <2>3, <2>7, <2>8 DEF Inv, Active
<1> QED
  BY <1>5, <1>6 DEF OpenDock

LEMMA ParkKeepsInv == Inv /\ ParkAndDock => Inv'
<1> SUFFICES ASSUME Inv, ParkAndDock PROVE Inv'
  OBVIOUS
<1>1. PICK delivered \in {d \in BOOLEAN : d => aboard} : OpenDock(delivered)
  BY DEF ParkAndDock
<1>2. scene = "world" /\ pending = NoChest /\ card = NoChest /\ latching' = FALSE
  BY DEF ParkAndDock, AtSea, NoModal
<1> QED
  BY <1>1, <1>2, OpenDockKeepsInv

LEMMA CastOffKeepsInv == Inv /\ CastOff => Inv'
<1> SUFFICES ASSUME Inv, CastOff PROVE Inv'
  OBVIOUS
<1>1. CASE dock = "deliver" /\ pending = NoChest /\ OpenDock(FALSE) /\ UNCHANGED latching
  <2>1. scene = "world" /\ latching' \in BOOLEAN
    BY <1>1 DEF CastOff, Inv, TypeOK
  <2> QED
    BY <1>1, <2>1, OpenDockKeepsInv
<1>2. CASE /\ dock' = "none"
           /\ aboard' = (aboard \/ dock = "offer")
           /\ disk' \in IF dock = "offer" THEN {disk, progress} ELSE {disk}
           /\ UNCHANGED <<scene, progress, chests, race, zone, latching,
                          sinceMap, pending, card, finale, pause, album>>
  <2>1. disk' = disk /\ scene = "world" /\ scene' = scene
    BY <1>2 DEF CastOff, Inv
  <2>2. UNCHANGED <<mapped, found, racer, exit, cued>>
    BY <1>2 DEF chests, race
  <2>3. TypeOK'
    BY <1>2, <2>1, <2>2 DEF Inv, TypeOK
  <2>4. RaceFollowsHunt' /\ CardIsForTheHunt' /\ NeverDeadEnds' /\ HuntOrJob'
    BY <1>2, <2>1, <2>2 DEF Inv, RaceFollowsHunt, CardIsForTheHunt,
         NeverDeadEnds, HuntOrJob, AllTreasuresFound, Active
  <2> QED
    BY <1>2, <2>1, <2>2, <2>3, <2>4 DEF Inv
<1> QED
  BY <1>1, <1>2 DEF CastOff

LEMMA NewGameKeepsInv == Inv /\ NewGame => Inv'
<1> SUFFICES ASSUME Inv, NewGame PROVE Inv'
  OBVIOUS
<1>1. Sound(progress)' /\ Sound(disk)'
  BY FreshStory DEF NewGame
<1>2. ({progress, disk} \subseteq Books)'
  BY <1>1, SoundTyped
<1>3. TypeOK'
  BY <1>2 DEF NewGame, Inv, TypeOK, chests, race, onBoard
<1> QED
  BY <1>1, <1>3 DEF Inv, NewGame, RaceFollowsHunt, CardIsForTheHunt,
                    NeverDeadEnds, HuntOrJob

-----------------------------------------------------------------------------
(* A frame at sea. *)

(* The race never gets ahead of the hunt. *)
LEMMA RaceShape ==
  ASSUME TypeOK, RaceFollowsHunt, scene = "world",
         NEW z, NEW l, NEW r \in {"none", "chase", "retreat"},
         NEW x \in 0..ExitFrames, NEW q \in SUBSET Chest, Race(z, l, r, x, q)
  PROVE  /\ q \subseteq mapped
         /\ r = "chase" => Active # {} /\ x = 0
         /\ r = "retreat" => x > 0
<1> USE DEF RaceFollowsHunt, TypeOK
<1>1. CASE exit > 0
  BY <1>1, ExitAssumption DEF Race
<1>2. CASE ~(exit > 0) /\ Active = {}
  BY <1>2 DEF Race
<1>3. CASE ~(exit > 0) /\ Active # {}
  <2>1. PICK t \in Active :
          LET warns == z \in {"near", "reach"} /\ t \notin cued /\ ~l IN
          /\ x = 0
          /\ r \in CASE racer = "none" /\ warns -> {"none", "chase"}
                    [] racer = "retreat" -> {"retreat", "none"}
                    [] OTHER -> {racer}
          /\ q = CASE warns -> cued \cup {t}
                   [] z = "clear" -> cued \ {t}
                   [] OTHER -> cued
    BY <1>3 DEF Race
  <2>2. q \subseteq cued \cup {t} /\ t \in mapped
    BY <2>1 DEF Active
  <2>3. r # "retreat"
    BY <1>3, <2>1
  <2> QED
    BY <1>3, <2>1, <2>2, <2>3
<1> QED
  BY <1>1, <1>2, <1>3

LEMMA SailOnKeepsInv == Inv /\ SailOn => Inv'
<1> SUFFICES ASSUME Inv, SailOn PROVE Inv'
  OBVIOUS
<1>1. PICK z \in StepFrom(zone), l \in {b \in BOOLEAN : latching => b},
           r \in {"none", "chase", "retreat"}, x \in 0..ExitFrames,
           q \in SUBSET Chest :
        /\ Race(z, l, r, x, q)
        /\ latching' = l
        /\ \/ z = "reach" /\ ~l /\ \E t \in Active : GrabTreasure(t, x, q)
           \/ /\ z # "reach" \/ l
              /\ racer = "chase" /\ r = "chase"
              /\ \E t \in Active : StealTreasure(t, q)
           \/ /\ z # "reach" \/ l \/ Active = {}
              /\ racer' = r /\ exit' = x /\ cued' = q
              /\ UNCHANGED <<chests, books, finale>>
        /\ zone' = IF mapped' \ found' = {} THEN "clear" ELSE z
  BY DEF SailOn
<1>2. /\ scene = "world" /\ scene' = "world"
      /\ pending = NoChest /\ card = NoChest /\ dock = "none" /\ finale = FALSE
      /\ UNCHANGED <<aboard, sinceMap, pending, card, dock, pause, album>>
  BY DEF SailOn, AtSea, NoModal, Inv, TypeOK
<1>3. /\ q \subseteq mapped
      /\ r = "chase" => Active # {} /\ x = 0
      /\ r = "retreat" => x > 0
  BY <1>1, <1>2, RaceShape DEF Inv
<1>4. zone' \in Zone
  BY <1>1 DEF StepFrom, Zone
<1>5. Story(progress, mapped, found) /\ disk = progress
  BY <1>2 DEF Inv
<1>6. mapped \subseteq Chest /\ found \subseteq Chest
  BY <1>5, StoryFinite
<1>7. latching' \in BOOLEAN
  BY <1>1
<1>8. CASE \E t \in Active : GrabTreasure(t, x, q)
  <2>1. PICK t \in mapped \ found : GrabTreasure(t, x, q)
    BY <1>8 DEF Active
  <2>2. /\ mapped' = mapped /\ found' = found \cup {t} /\ t \in Chest
        /\ racer' = "none" /\ exit' = x /\ cued' = q
        /\ finale' = (Chest # {} /\ found' = Chest)
        /\ disk' = progress'
    BY <1>6, <2>1 DEF GrabTreasure
  <2>3. Story(progress', mapped', found')
    <3>1. Story([progress EXCEPT !.treasuresFound = Insert(@, t), !.paid = @ + 1],
                mapped, found \cup {t})
      BY <1>5, ChestWon
    <3>2. progress' =
            [progress EXCEPT !.treasuresFound = Insert(@, t), !.paid = @ + 1]
      BY <2>1 DEF GrabTreasure
    <3> QED
      BY <2>2, <3>1, <3>2
  <2>4. Sound(progress)' /\ Sound(disk)'
    BY <2>2, <2>3, StoryIsSound
  <2>5. ({progress, disk} \subseteq Books)'
    BY <2>4, SoundTyped
  <2>6. TypeOK'
    BY <1>2, <1>4, <1>6, <1>7, <2>2, <2>5 DEF Inv, TypeOK
  <2>7. RaceFollowsHunt' /\ CardIsForTheHunt' /\ NeverDeadEnds' /\ HuntOrJob'
    BY <1>2, <1>3, <2>2 DEF Inv, RaceFollowsHunt, CardIsForTheHunt,
         NeverDeadEnds, HuntOrJob, AllTreasuresFound, Active
  <2> QED
    BY <1>2, <2>2, <2>3, <2>4, <2>6, <2>7 DEF Inv
<1>9. CASE \E t \in Active : StealTreasure(t, q)
  <2>1. PICK t \in mapped \ found : StealTreasure(t, q)
    BY <1>9 DEF Active
  <2>2. /\ mapped' = mapped \ {t} /\ found' = found /\ t \in Chest
        /\ racer' = "retreat" /\ exit' = ExitFrames /\ cued' = q \ {t}
        /\ finale' = finale
        /\ disk' = progress'
    BY <1>6, <2>1 DEF StealTreasure
  <2>3. Story(progress', mapped', found')
    BY <1>5, <2>1, <2>2, MapTaken DEF StealTreasure
  <2>4. Sound(progress)' /\ Sound(disk)'
    BY <2>2, <2>3, StoryIsSound
  <2>5. ({progress, disk} \subseteq Books)'
    BY <2>4, SoundTyped
  <2>6. exit' \in 0..ExitFrames /\ exit' > 0
    BY <2>2, ExitAssumption
  <2>7. TypeOK'
    BY <1>2, <1>4, <1>6, <1>7, <2>2, <2>5, <2>6 DEF Inv, TypeOK
  <2>8. RaceFollowsHunt' /\ CardIsForTheHunt' /\ NeverDeadEnds' /\ HuntOrJob'
    BY <1>2, <1>3, <2>2, <2>6 DEF Inv, RaceFollowsHunt, CardIsForTheHunt,
         NeverDeadEnds, HuntOrJob, AllTreasuresFound, Active
  <2> QED
    BY <1>2, <2>2, <2>3, <2>4, <2>7, <2>8 DEF Inv
<1>10. CASE /\ racer' = r /\ exit' = x /\ cued' = q
            /\ UNCHANGED <<chests, books, finale>>
  <2>1. UNCHANGED <<mapped, found, progress, disk, finale>>
    BY <1>10 DEF chests, books
  <2>2. TypeOK'
    BY <1>2, <1>4, <1>7, <1>10, <2>1 DEF Inv, TypeOK
  <2>3. RaceFollowsHunt' /\ CardIsForTheHunt' /\ NeverDeadEnds' /\ HuntOrJob'
    BY <1>2, <1>3, <1>10, <2>1 DEF Inv, RaceFollowsHunt, CardIsForTheHunt,
         NeverDeadEnds, HuntOrJob, AllTreasuresFound, Active
  <2> QED
    BY <1>2, <1>5, <2>1, <2>2, <2>3 DEF Inv
<1> QED
  BY <1>1, <1>8, <1>9, <1>10

LEMMA NextKeepsInv == Inv /\ [Next]_vars => Inv'
  BY StartKeepsInv, LoadWorldKeepsInv, KillKeepsInv, OverlaysKeepInv,
     ParkKeepsInv, CastOffKeepsInv, NewGameKeepsInv, SailOnKeepsInv DEF Next

LEMMA InvAlways == Spec => []Inv
  BY InitInv, NextKeepsInv, PTL DEF Spec

-----------------------------------------------------------------------------
(* The properties. *)

(* Every value stays in its set: in particular no chest is ever listed twice,
   and no more rewards are paid than there are chests. *)
THEOREM TypeCorrect == Spec => []TypeOK
<1>1. Inv => TypeOK
  BY DEF Inv
<1> QED
  BY <1>1, InvAlways, PTL

(* World, running game and save file agree on every chest and every reward,
   so that neither a kill nor a way out to the menu can undo or repeat one. *)
THEOREM StoriesAgree == Spec => []OneStory
<1>1. Inv => OneStory
  BY DEF Inv, OneStory, Sound, Story
<1> QED
  BY <1>1, InvAlways, PTL

(* A racer in the chase has a chest to race for, one that retreats is on its
   way out, and a chest back in the pool has its warning armed. *)
THEOREM RacerHasAReason == Spec => []RaceFollowsHunt
<1>1. Inv => RaceFollowsHunt
  BY DEF Inv
<1> QED
  BY <1>1, InvAlways, PTL

(* A card that waits or shows is for the hunt that is on. *)
THEOREM CardsAreCurrent == Spec => []CardIsForTheHunt
<1>1. Inv => CardIsForTheHunt
  BY DEF Inv
<1> QED
  BY <1>1, InvAlways, PTL

(* In the world with every chest found, and only then, the finale is up. *)
THEOREM FinaleExactlyAtTheEnd == Spec => []NeverDeadEnds
<1>1. Inv => NeverDeadEnds
  BY DEF Inv
<1> QED
  BY <1>1, InvAlways, PTL

(* No job is aboard while a chest is hunted. *)
THEOREM NoJobOnAHunt == Spec => []HuntOrJob
<1>1. Inv => HuntOrJob
  BY DEF Inv
<1> QED
  BY <1>1, InvAlways, PTL

-----------------------------------------------------------------------------
(* The save file implements HuntContract. *)

(* In the world, what the file says is what is mapped and found. *)
LEMMA FileTellsTheWorld ==
  ASSUME Inv, scene = "world"
  PROVE  /\ disk = progress
         /\ Listed(disk.treasuresMapped) = mapped
         /\ Listed(disk.treasuresFound) = found
         /\ \A c, d \in mapped \ found : c = d
  BY DEF Inv, Story

LEMMA MapIsGrant ==
  ASSUME Inv, Inv', scene = "world", NEW delivered \in BOOLEAN, OpenDock(delivered)
  PROVE  [Contract!Next]_Contract!hvars
<1>1. scene' = "world" /\ found' = found
  BY DEF OpenDock
<1>2. /\ disk = progress
      /\ Listed(disk.treasuresMapped) = mapped
      /\ Listed(disk.treasuresFound) = found
  BY FileTellsTheWorld
<1>3. /\ disk' = progress'
      /\ Listed(disk'.treasuresMapped) = mapped'
      /\ Listed(disk'.treasuresFound) = found'
  BY <1>1 DEF Inv, Story
<1>4. CASE HandOverMap(delivered)
  <2>1. PICK c \in Chest \ (found \cup mapped) :
          /\ mapped' = mapped \cup {c}
          /\ progress' = [progress EXCEPT !.treasuresMapped = Insert(@, c)]
    BY <1>4 DEF HandOverMap
  <2>2. mapped \ found = {}
    BY <1>4 DEF HandOverMap, Active
  <2>3. disk'.paid = disk.paid
    BY <1>2, <1>3, <2>1 DEF Inv, Sound, Story
  <2>4. mapped' \ found' = {c}
    BY <1>1, <2>1, <2>2
  <2>5. Contract!Grant
    BY <1>1, <1>2, <1>3, <2>1, <2>2, <2>3, <2>4 DEF Contract!Grant
  <2> QED
    BY <2>5 DEF Contract!Next
<1>5. CASE KeepMaps(delivered)
  BY <1>2, <1>3, <1>5 DEF KeepMaps, Contract!hvars
<1> QED
  BY <1>4, <1>5 DEF OpenDock

LEMMA FrameIsWinOrLoss ==
  ASSUME Inv, Inv', SailOn
  PROVE  [Contract!Next]_Contract!hvars
<1>1. scene = "world" /\ scene' = "world"
  BY DEF SailOn, AtSea
<1>2. /\ disk = progress
      /\ Listed(disk.treasuresMapped) = mapped
      /\ Listed(disk.treasuresFound) = found
      /\ \A c, d \in mapped \ found : c = d
  BY <1>1, FileTellsTheWorld
<1>3. /\ disk' = progress'
      /\ Listed(disk'.treasuresMapped) = mapped'
      /\ Listed(disk'.treasuresFound) = found'
  BY <1>1 DEF Inv, Story
<1>4. ASSUME NEW t \in Active, NEW x, NEW q, GrabTreasure(t, x, q)
      PROVE  Contract!Win
  <2>1. mapped \ found = {t}
    BY <1>2, <1>4 DEF Active
  <2>2. mapped' = mapped /\ found' = found \cup {t}
    BY <1>4 DEF GrabTreasure
  <2>3. progress' =
          [progress EXCEPT !.treasuresFound = Insert(@, t), !.paid = @ + 1]
    BY <1>4 DEF GrabTreasure
  <2>4. disk'.paid = disk.paid + 1
    BY <1>2, <1>3, <2>3 DEF Inv, Sound, Story
  <2> QED
    BY <1>2, <1>3, <2>1, <2>2, <2>4 DEF Contract!Win
<1>5. ASSUME NEW t \in Active, NEW q, StealTreasure(t, q)
      PROVE  Contract!Lose
  <2>1. mapped \ found = {t}
    BY <1>2, <1>5 DEF Active
  <2>2. mapped' = mapped \ {t} /\ found' = found
    BY <1>5 DEF StealTreasure
  <2>3. disk'.paid = disk.paid
    BY <1>2, <1>3, <1>5 DEF StealTreasure, Inv, Sound, Story
  <2> QED
    BY <1>2, <1>3, <2>1, <2>2, <2>3 DEF Contract!Lose
<1>6. CASE UNCHANGED <<chests, books, finale>>
  BY <1>6 DEF books, Contract!hvars
<1>7. \/ \E t \in Active, x \in 0..ExitFrames, q \in SUBSET Chest : GrabTreasure(t, x, q)
      \/ \E t \in Active, q \in SUBSET Chest : StealTreasure(t, q)
      \/ UNCHANGED <<chests, books, finale>>
  BY DEF SailOn
<1> QED
  BY <1>4, <1>5, <1>6, <1>7 DEF Contract!Next

LEMMA NewGameStartsOver ==
  ASSUME Inv, NewGame
  PROVE  Contract!StartOver
<1>1. Listed(disk.treasuresFound) = Chest
  BY FileTellsTheWorld DEF NewGame, Inv, NeverDeadEnds, AllTreasuresFound
<1>2. /\ Listed(disk'.treasuresMapped) = {}
      /\ Listed(disk'.treasuresFound) = {}
      /\ disk'.paid = 0
  BY DEF NewGame, Fresh, Listed
<1> QED
  BY <1>1, <1>2 DEF Contract!StartOver

(* Through exits, losses of focus, kills and restarts, the save file only ever
   shows: a map granted when no other is out, its chest lost or won and paid
   for, and a new game once every chest is won. *)
THEOREM ImplementsContract == Spec => KeepsHunt
<1>1. Init => Contract!Init
  BY FreshStory DEF Init, Contract!Init, Sound, Story, Fresh, Listed
<1>2. Inv /\ Inv' /\ [Next]_vars => [Contract!Next]_Contract!hvars
  <2> SUFFICES ASSUME Inv, Inv', [Next]_vars
               PROVE  [Contract!Next]_Contract!hvars
    OBVIOUS
  <2>1. CASE UNCHANGED disk
    BY <2>1 DEF Contract!hvars
  <2>2. CASE \/ Start \/ OpenPause \/ ClosePause \/ OpenAlbum \/ CloseAlbum
             \/ Kill \/ ShowCard \/ CloseCard
    BY <2>1, <2>2 DEF Start, OpenPause, ClosePause, OpenAlbum, CloseAlbum, Kill, ShowCard,
       CloseCard, books
  <2>3. CASE LoadWorld \/ ExitToMenu \/ Blur
    BY <2>1, <2>3 DEF LoadWorld, ExitToMenu, Blur, Inv
  <2>4. CASE ParkAndDock
    <3>1. PICK delivered \in BOOLEAN : OpenDock(delivered)
      BY <2>4 DEF ParkAndDock
    <3> QED
      BY <2>4, <3>1, MapIsGrant DEF ParkAndDock, AtSea
  <2>5. CASE CastOff
    <3>1. scene = "world" /\ (OpenDock(FALSE) \/ disk' \in {disk, progress})
      BY <2>5 DEF CastOff
    <3>2. disk = progress
      BY <3>1 DEF Inv
    <3> QED
      BY <2>1, <3>1, <3>2, MapIsGrant
  <2>6. CASE SailOn
    BY <2>6, FrameIsWinOrLoss
  <2>7. CASE NewGame
    BY <2>7, NewGameStartsOver DEF Contract!Next
  <2>8. CASE UNCHANGED vars
    BY <2>1, <2>8 DEF vars, books
  <2> QED
    BY <2>2, <2>3, <2>4, <2>5, <2>6, <2>7, <2>8 DEF Next
<1> QED
  BY <1>1, <1>2, InvAlways, PTL DEF Spec, KeepsHunt, Contract!Spec
-----------------------------------------------------------------------------
(* A map that waits to be shown is what the next frame at sea shows, and nothing
   else; no dock, overlay, save or shore handler before that frame puts another
   map in its place or drops it, short of the world itself being left. *)
AnnounceStep ==
  pending # NoChest =>
    IF Frame THEN card' = pending /\ pending' = NoChest
    ELSE pending' = pending \/ scene' = "off" \/ scene = "menu"
AnnouncementsWait == [][AnnounceStep]_vars

(* And the next frame is one at sea once the harbourmaster is done, but for what
   the player opens: the pause menu and the album freeze the world as well. *)
ReadyToShow ==
  scene = "world" /\ pending # NoChest /\ dock = "none" =>
    AtSea \/ pause \/ album

(* No card is up where a map waits or can be granted. *)
CardAlone == card # NoChest => dock = "none" /\ pending = NoChest

LEMMA CardAloneAlways == Spec => []CardAlone
<1>1. Init => CardAlone
  BY DEF Init, CardAlone
<1>2. CardAlone /\ [Next]_vars => CardAlone'
  <2> SUFFICES ASSUME CardAlone, [Next]_vars PROVE CardAlone'
    OBVIOUS
  <2> USE DEF CardAlone, modals
  <2>1. CASE ParkAndDock
    BY <2>1 DEF ParkAndDock, AtSea, NoModal, OpenDock
  <2>2. CASE CastOff
    BY <2>2 DEF CastOff, OpenDock
  <2>3. CASE ShowCard \/ CloseCard
    BY <2>3 DEF ShowCard, CloseCard, AtSea, NoModal
  <2>4. CASE UNCHANGED <<card, dock, pending>>
    BY <2>4
  <2>5. CASE LoadWorld \/ Kill
    BY <2>5 DEF LoadWorld, Kill
  <2> QED
    BY <2>1, <2>2, <2>3, <2>4, <2>5 DEF Next, vars, Start, OpenPause, ClosePause,
       OpenAlbum, CloseAlbum, ExitToMenu, Blur, SailOn, NewGame
<1> QED
  BY <1>1, <1>2, PTL DEF Spec

(* The two halves of MapIsAnnounced, but for the frames that go on coming
   (pendingMapReveal in World:update): nothing but what the player does comes
   between a waiting map and its card, and what comes between does not lose it. *)
THEOREM NoMapUnannounced == Spec => AnnouncementsWait /\ []ReadyToShow
<1>1. ASSUME [Next]_vars PROVE AnnounceStep
  <2>1. SUFFICES ASSUME pending # NoChest
                 PROVE  IF Frame THEN card' = pending /\ pending' = NoChest
                        ELSE pending' = pending \/ scene' = "off" \/ scene = "menu"
    BY DEF AnnounceStep
  <2>2. ~ParkAndDock /\ ~SailOn
    BY <2>1 DEF ParkAndDock, SailOn
  <2>3. CASE ShowCard
    BY <2>3 DEF ShowCard, Frame
  <2>4. CASE CastOff
    <3>1. pending' = pending
      BY <2>1, <2>4 DEF CastOff
    <3>2. ~Frame
      BY <2>2, <2>4 DEF CastOff, Frame, ShowCard, AtSea, NoModal
    <3> QED
      BY <3>1, <3>2
  <2>5. CASE ~ShowCard /\ ~CastOff
    BY <1>1, <2>2, <2>5 DEF Next, Frame, Start, LoadWorld, OpenPause, ClosePause, OpenAlbum,
       CloseAlbum, ExitToMenu, Blur, Kill, CloseCard, NewGame, vars
  <2> QED
    BY <2>3, <2>4, <2>5
<1>2. Inv /\ CardAlone => ReadyToShow
  <2> SUFFICES ASSUME Inv, CardAlone, scene = "world", pending # NoChest, dock = "none"
               PROVE  AtSea \/ pause \/ album
    BY DEF ReadyToShow
  <2>1. Active # {}
    BY DEF Inv, CardIsForTheHunt
  <2>2. ~finale
    BY <2>1 DEF Inv, TypeOK, NeverDeadEnds, AllTreasuresFound, Active
  <2> QED
    BY <2>2 DEF CardAlone, AtSea, NoModal
<1> QED
  BY <1>1, <1>2, InvAlways, CardAloneAlways, PTL DEF Spec, AnnouncementsWait

-----------------------------------------------------------------------------
(* What HuntCadence finds has one cause.  Its count of deliveries is never
   behind the world's own, _sinceMap, so the cooldown itself is kept; what
   passes it by is the test for the first map. *)

Paced ==
  /\ trades \in 0..Cooldown
  /\ sinceMap <= trades
  /\ scene = "off" => trades = Cooldown

LEMMA InsertLists ==
  ASSUME NEW l \in [Chest -> {0, 1}], NEW c \in Chest
  PROVE  Listed(Insert(l, c)) # {}
<1>1. Insert(l, c)[c] = l[c] + 1 /\ l[c] + 1 > 0
  BY DEF Insert
<1> QED
  BY <1>1 DEF Listed

(* A map comes out of the dock a glide ends in, and is listed. *)
LEMMA GrantIsHandOver ==
  ASSUME Inv, Next, MapGranted
  PROVE  /\ scene = "world" /\ ~finale
         /\ HandOverMap(TRUE)
         /\ EverHad'
<1>1. PICK c \in Chest : pending' = c /\ pending # c
  BY DEF MapGranted
<1>2. scene = "world" /\ c # NoChest /\ pending' # pending /\ pending' # NoChest
  BY <1>1, ChestAssumption DEF MapGranted
<1>3. ParkAndDock \/ CastOff
  BY <1>2 DEF Next, Start, LoadWorld, OpenPause, ClosePause, OpenAlbum, CloseAlbum,
     ExitToMenu, Blur, Kill,
     ShowCard, CloseCard, SailOn, NewGame
<1>4. PICK delivered \in BOOLEAN : OpenDock(delivered)
  BY <1>2, <1>3 DEF ParkAndDock, CastOff
<1>5. HandOverMap(delivered)
  BY <1>2, <1>4 DEF OpenDock, KeepMaps
<1>6. delivered = TRUE /\ Active = {}
  BY <1>5 DEF HandOverMap
<1>7. PICK d \in Chest :
        progress' = [progress EXCEPT !.treasuresMapped = Insert(@, d)]
  BY <1>5 DEF HandOverMap
<1>8. progress \in Books /\ finale \in BOOLEAN
  BY DEF Inv, TypeOK
<1>9. EverHad'
  <2>1. /\ progress'.treasuresMapped = Insert(progress.treasuresMapped, d)
        /\ progress.treasuresMapped \in [Chest -> {0, 1}]
    BY <1>7, <1>8 DEF Books
  <2> QED
    BY <2>1, InsertLists DEF EverHad
<1>10. ~finale
  <2>1. CASE ParkAndDock
    BY <2>1 DEF ParkAndDock, AtSea, NoModal
  <2>2. CASE CastOff /\ finale
    <3>1. found = Chest
      BY <1>2, <2>2 DEF Inv, NeverDeadEnds, AllTreasuresFound
    <3>2. Chest \ (found \cup mapped) = {}
      BY <3>1
    <3> QED
      BY <1>5, <3>2 DEF HandOverMap
  <2> QED
    BY <1>3, <2>1, <2>2
<1> QED
  BY <1>2, <1>5, <1>6, <1>9, <1>10

(* _sinceMap counts deliveries, starts again with a map, and is lost with the
   process. *)
LEMMA SinceStep ==
  ASSUME Inv, Next
  PROVE  \/ sinceMap' = sinceMap
         \/ sinceMap' = 0
         \/ scene' = "off"
         \/ Delivered /\ Active = {} /\ sinceMap' = sinceMap + 1
<1>1. CASE ParkAndDock
  <2>1. PICK delivered \in BOOLEAN : OpenDock(delivered)
    BY <1>1 DEF ParkAndDock
  <2>2. scene = "world" /\ dock = "none"
    BY <1>1 DEF ParkAndDock, AtSea, NoModal
  <2>3. delivered => dock' = "deliver"
    BY <2>1 DEF OpenDock, DockModes
  <2>4. sinceMap' = 0 \/ sinceMap' = Breather(delivered)
    BY <2>1 DEF OpenDock, HandOverMap, KeepMaps
  <2> QED
    BY <2>2, <2>3, <2>4 DEF Breather, Delivered
<1>2. CASE CastOff
  <2>1. sinceMap' = 0 \/ sinceMap' = Breather(FALSE) \/ sinceMap' = sinceMap
    BY <1>2 DEF CastOff, OpenDock, HandOverMap, KeepMaps
  <2> QED
    BY <2>1 DEF Breather
<1>3. CASE ~ParkAndDock /\ ~CastOff
  BY <1>3 DEF Next, Start, LoadWorld, OpenPause, ClosePause, OpenAlbum, CloseAlbum,
     ExitToMenu, Blur, Kill,
     ShowCard, CloseCard, SailOn, NewGame
<1> QED
  BY <1>1, <1>2, <1>3

LEMMA PacedStep ==
  ASSUME Inv, Inv', Paced, [Next /\ Count]_cvars PROVE Paced'
<1>0. /\ Cooldown \in Nat /\ sinceMap \in 0..Cooldown /\ sinceMap' \in 0..Cooldown
      /\ trades \in 0..Cooldown /\ sinceMap <= trades
  BY CooldownAssumption DEF Inv, TypeOK, Paced
<1>1. CASE UNCHANGED cvars
  BY <1>1 DEF cvars, vars, Paced
<1>2. CASE Next /\ Count /\ (scene' = "off" \/ (scene = "world" /\ finale))
  <2>1. trades' = Cooldown
    BY <1>2 DEF Count
  <2> QED
    BY <1>0, <2>1 DEF Paced
<1>3. CASE Next /\ Count /\ ~(scene' = "off" \/ (scene = "world" /\ finale)) /\ MapGranted
  <2>1. trades' = 0 /\ scene' # "off"
    BY <1>3 DEF Count
  <2>2. sinceMap' = 0
    BY <1>3, GrantIsHandOver DEF HandOverMap
  <2> QED
    BY <1>0, <2>1, <2>2 DEF Paced
<1>4. CASE Next /\ Count /\ ~(scene' = "off" \/ (scene = "world" /\ finale)) /\ ~MapGranted
  <2>1. /\ scene' # "off"
        /\ trades' = IF Delivered /\ Active = {} /\ trades < Cooldown
                     THEN trades + 1 ELSE trades
    BY <1>4 DEF Count
  <2>2. \/ sinceMap' = sinceMap
        \/ sinceMap' = 0
        \/ Delivered /\ Active = {} /\ sinceMap' = sinceMap + 1
    BY <1>4, <2>1, SinceStep
  <2>3. trades' \in 0..Cooldown /\ sinceMap' <= trades'
    BY <1>0, <2>1, <2>2
  <2> QED
    BY <2>1, <2>3 DEF Paced
<1> QED
  BY <1>1, <1>2, <1>3, <1>4

LEMMA PacedAlways == CSpec => [](Inv /\ Paced)
<1>1. Init /\ trades = Cooldown => Paced
  BY CooldownAssumption DEF Init, Paced
<1>2. [Next /\ Count]_cvars => [Next]_vars
  BY DEF cvars
<1>3. CSpec => []Inv
  BY <1>2, InitInv, NextKeepsInv, PTL DEF CSpec, CInit
<1> QED
  BY <1>1, <1>3, PacedStep, PTL DEF CSpec, CInit

(* A map that comes before its time is a first map: none is listed, hunted or won
   (mapDue reads everHad off the two lists). *)
EarlyIsFirst == [][MapGranted => trades + 1 >= Cooldown \/ ~EverHad]_cvars

THEOREM EarlyMapsAreFirstMaps == CSpec => EarlyIsFirst
<1>1. ASSUME Inv, Paced, [Next /\ Count]_cvars
      PROVE  [MapGranted => trades + 1 >= Cooldown \/ ~EverHad]_cvars
  <2>1. CASE UNCHANGED cvars
    BY <2>1
  <2>2. CASE Next /\ MapGranted
    <3>1. ~EverHad \/ Breather(TRUE) >= Cooldown
      BY <1>1, <2>2, GrantIsHandOver DEF HandOverMap, MapDue
    <3>2. /\ Cooldown \in Nat /\ sinceMap \in 0..Cooldown
          /\ trades \in 0..Cooldown /\ sinceMap <= trades
      BY <1>1, CooldownAssumption DEF Inv, TypeOK, Paced
    <3>3. Breather(TRUE) <= sinceMap + 1 /\ Breather(TRUE) \in Nat
      BY <3>2 DEF Breather
    <3>4. ASSUME EverHad PROVE trades + 1 >= Cooldown
      <4> DEFINE counted == Breather(TRUE)
      <4>1. counted >= Cooldown
        BY <3>1, <3>4
      <4>2. counted <= sinceMap + 1 /\ counted \in Nat
        BY <3>3
      <4> HIDE DEF counted
      <4> QED
        BY <3>2, <4>1, <4>2
    <3> QED
      BY <3>4
  <2> QED
    BY <1>1, <2>1, <2>2
<1> QED
  BY <1>1, PacedAlways, PTL DEF CSpec, EarlyIsFirst

(* The racer takes the chest of the only map there has been
   (pirateStealsTreasure), and with it the trace of that map. *)
FirstMapStolen ==
  /\ scene = "world"
  /\ \E t \in mapped : mapped' = mapped \ {t}
  /\ EverHad /\ ~EverHad'

NoFirstMapStolen == [][~FirstMapStolen]_cvars

Remembered == ~EverHad => trades = Cooldown

(* Of all steps only a new game, the end of the process and such a theft make a
   player one who has had no map. *)
LEMMA Forgetting ==
  ASSUME Inv, Next, EverHad, ~EverHad', scene # "off", scene' # "off",
         ~(scene = "world" /\ finale)
  PROVE  FirstMapStolen
<1>0. progress \in Books /\ mapped \subseteq Chest /\ progress' # progress
  BY DEF Inv, TypeOK, EverHad
<1>1. CASE ParkAndDock \/ CastOff
  <2>1. PICK delivered \in BOOLEAN : OpenDock(delivered)
    BY <1>0, <1>1 DEF ParkAndDock, CastOff
  <2>2. HandOverMap(delivered)
    BY <1>0, <2>1 DEF OpenDock, KeepMaps
  <2>3. PICK d \in Chest :
          progress' = [progress EXCEPT !.treasuresMapped = Insert(@, d)]
    BY <2>2 DEF HandOverMap
  <2>4. /\ progress'.treasuresMapped = Insert(progress.treasuresMapped, d)
        /\ progress.treasuresMapped \in [Chest -> {0, 1}]
    BY <1>0, <2>3 DEF Books
  <2> QED
    BY <2>4, InsertLists DEF EverHad
<1>2. CASE SailOn
  <2>1. scene = "world"
    BY <1>2 DEF SailOn, AtSea
  <2>2. PICK t \in Active, x \in 0..ExitFrames, q \in SUBSET Chest :
          GrabTreasure(t, x, q) \/ StealTreasure(t, q)
    BY <1>0, <1>2 DEF SailOn, books
  <2>3. t \in mapped /\ t \in Chest
    BY <1>0 DEF Active
  <2>4. ~GrabTreasure(t, x, q)
    <3>1. SUFFICES ASSUME GrabTreasure(t, x, q) PROVE EverHad'
      OBVIOUS
    <3>2. /\ progress'.treasuresFound = Insert(progress.treasuresFound, t)
          /\ progress.treasuresFound \in [Chest -> {0, 1}]
      BY <1>0, <3>1 DEF GrabTreasure, Books
    <3> QED
      BY <2>3, <3>2, InsertLists DEF EverHad
  <2> QED
    BY <2>1, <2>2, <2>3, <2>4 DEF StealTreasure, FirstMapStolen
<1>3. CASE ~ParkAndDock /\ ~CastOff /\ ~SailOn
  BY <1>0, <1>3 DEF Next, Start, LoadWorld, OpenPause, ClosePause, OpenAlbum, CloseAlbum,
     ExitToMenu, Blur, Kill,
     ShowCard, CloseCard, NewGame, books
<1> QED
  BY <1>1, <1>2, <1>3

LEMMA RememberedStep ==
  ASSUME Inv, Paced, Remembered, [Next /\ Count]_cvars, [~FirstMapStolen]_cvars
  PROVE  Remembered'
<1>1. CASE UNCHANGED cvars
  BY <1>1 DEF cvars, vars, books, Remembered, EverHad
<1>2. CASE Next /\ Count /\ ~UNCHANGED cvars
  <2>1. SUFFICES ASSUME ~EverHad' PROVE trades' = Cooldown
    BY DEF Remembered
  <2>2. CASE scene' = "off" \/ (scene = "world" /\ finale)
    BY <1>2, <2>2 DEF Count
  <2>3. CASE ~(scene' = "off" \/ (scene = "world" /\ finale))
    <3>1. ~MapGranted
      BY <1>2, <2>1, GrantIsHandOver
    <3>2. trades' = IF Delivered /\ Active = {} /\ trades < Cooldown
                    THEN trades + 1 ELSE trades
      BY <1>2, <2>3, <3>1 DEF Count
    <3>3. trades = Cooldown
      <4>1. scene = "off" \/ ~EverHad
        BY <1>2, <2>1, <2>3, Forgetting
      <4> QED
        BY <4>1 DEF Paced, Remembered
    <3>4. ~(trades < Cooldown)
      BY <3>3, CooldownAssumption
    <3> QED
      BY <3>2, <3>3, <3>4
  <2> QED
    BY <2>2, <2>3
<1> QED
  BY <1>1, <1>2

(* "deliveries of NORMAL trading that must pass after a map before another can be
   granted" (config.TREASURE.MAP_COOLDOWN) holds of every game in which the racer
   never takes the chest of the first map. *)
THEOREM OnlyATheftHurries == CSpec /\ NoFirstMapStolen => HuntsKeepTheirDistance
<1>1. Init /\ trades = Cooldown => Remembered
  BY DEF Remembered
<1>2. CSpec /\ NoFirstMapStolen => []Remembered
  BY <1>1, RememberedStep, PacedAlways, PTL DEF CSpec, CInit, NoFirstMapStolen
<1>3. ASSUME Paced, Remembered, [MapGranted => trades + 1 >= Cooldown \/ ~EverHad]_cvars
      PROVE  [MapGranted => trades + 1 >= Cooldown]_cvars
  <2>1. trades = Cooldown => trades + 1 >= Cooldown
    BY CooldownAssumption
  <2> QED
    BY <1>3, <2>1 DEF Remembered
<1> QED
  BY <1>2, <1>3, PacedAlways, EarlyMapsAreFirstMaps, PTL DEF EarlyIsFirst, HuntsKeepTheirDistance
=============================================================================
