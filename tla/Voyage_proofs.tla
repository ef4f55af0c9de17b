-------------------------- MODULE Voyage_proofs --------------------------
(***************************************************************************)
(* The state properties of Voyage and that it keeps FogContract, for any   *)
(* maps, cells and islands, and any time between flushes; then the step    *)
(* behind CircledIsFilled.                                                 *)
(***************************************************************************)
EXTENDS Voyage, TLAPS

(* What is in memory is in the file, unless the program is off: whatever
   changes a bucket saves. *)
Saved == scene # "off" => maps = disk

(* A coroutine that has begun holds the bucket of the selected map. *)
Loads == begun => scene = "loading" /\ ms = sel

Known(m) == seen[m] \subseteq Start \cup disk[m]

Ashore == scene # "world" => \A m \in Map : Known(m)

(* At the helm only the selected map is ahead of its bucket, and only while
   _fogDirty says so. *)
Helm ==
  scene = "world" =>
    /\ ms = sel
    /\ \A m \in Map \ {sel} : Known(m)
    /\ live \subseteq seen[sel]
    /\ seen[sel] \subseteq Start \cup live
    /\ dirty \/ live \subseteq Start \cup maps[sel]
    /\ blurred => ~dirty

(* No cell waits longer than the timer runs. *)
Aged ==
  /\ \A c \in Cell : age[c] <= saveT + 1
  /\ \A c \in Cell : age[c] # 0 => scene = "world" /\ c \in Unsaved(sel)

Inv == TypeOK /\ Saved /\ NoLeak /\ Loads /\ Ashore /\ Helm /\ Aged

-----------------------------------------------------------------------------
(* Operators. *)

(* What filling islands lifts are cells. *)
LEMMA WithinIsCells ==
  ASSUME NEW cells, NEW done
  PROVE  /\ Circled(cells, done) \subseteq Island
         /\ Within(Circled(cells, done)) \subseteq Cell
  BY CellAssumption DEF Circled, Within

(* A flush into the bucket of the selected map touches no other. *)
LEMMA WrittenAtHelm ==
  ASSUME TypeOK, ms = sel, NEW cells \in SUBSET Cell
  PROVE  /\ Written(cells) \in Buckets
         /\ Written(cells)[sel] = cells
         /\ \A m \in Map \ {sel} : Written(cells)[m] = maps[m]
  BY MapAssumption DEF TypeOK, Buckets, Written

LEMMA BoundsAreNat == FlushFrames \in Nat /\ CheckFrames \in Nat
  BY BoundAssumption

LEMMA NoneIsBucket == NoFog \in Buckets /\ NoAge \in [Cell -> Nat]
  BY DEF NoFog, NoAge, Buckets

-----------------------------------------------------------------------------
(* The invariant holds at the start, and no step breaks it. *)

LEMMA InitInv == Init => Inv
<1> SUFFICES ASSUME Init PROVE Inv
  OBVIOUS
<1>1. disk \in Buckets
  <2>1. CASE disk = NoFog
    BY <2>1, NoneIsBucket
  <2>2. ASSUME NEW c \in Sights, disk = [NoFog EXCEPT ![Home] = c]
        PROVE  disk \in Buckets
    <3>1. c \in SUBSET Cell
      BY CellAssumption
    <3> QED
      BY <2>2, <3>1, NoneIsBucket DEF Buckets
  <2> QED
    BY <2>1, <2>2 DEF Init
<1>2. TypeOK
  <2>1. saveT \in 0 .. FlushFrames /\ checkT \in 0 .. CheckFrames
    BY BoundsAreNat DEF Init
  <2>2. sel \in Map /\ maps \in Buckets /\ seen \in Buckets /\ age \in [Cell -> Nat]
    BY <1>1, MapAssumption, NoneIsBucket DEF Init
  <2> QED
    BY <1>1, <2>1, <2>2 DEF Init, TypeOK
<1>3. NoLeak
  BY <1>1 DEF Init, NoLeak, NoFog, Buckets
<1>4. Saved /\ Loads /\ Ashore /\ Helm
  BY <1>1 DEF Init, Saved, Loads, Ashore, Helm, Known
<1>5. Aged
  BY DEF Init, Aged, NoAge
<1> QED
  BY <1>2, <1>3, <1>4, <1>5 DEF Inv

(* Away from the helm, a step that stays away from it and changes neither the
   buckets nor what was seen. *)
LEMMA AshoreStep ==
  ASSUME Inv, TypeOK', scene # "world", scene' # "world",
         disk' = disk, seen' = seen, age' = age, saveT' = saveT,
         scene' # "off" => maps' = disk,
         scene' = "off" => maps' = maps,
         begun' => scene' = "loading" /\ ms' = sel'
  PROVE  Inv'
<1>1. Saved' /\ Loads' /\ Helm'
  BY DEF Saved, Loads, Helm
<1>2. NoLeak'
  BY DEF Inv, NoLeak
<1>3. Ashore'
  BY DEF Inv, Ashore, Known
<1>4. Aged'
  BY DEF Inv, Aged, Unsaved
<1> QED
  BY <1>1, <1>2, <1>3, <1>4 DEF Inv

(* A step by which all that is in memory and all that was seen is in the file. *)
LEMMA SettledStep ==
  ASSUME TypeOK', disk' = maps', age' = NoAge, scene' # "off",
         \A m \in Map : maps'[m] \subseteq seen'[m],
         \A m \in Map : seen'[m] \subseteq Start \cup maps'[m],
         begun' => scene' = "loading" /\ ms' = sel',
         scene' = "world" =>
            /\ ms' = sel' /\ ~dirty'
            /\ live' \subseteq seen'[sel'] /\ seen'[sel'] \subseteq Start \cup live'
            /\ live' \subseteq Start \cup maps'[sel']
  PROVE  Inv'
<1>1. Saved' /\ Loads' /\ NoLeak'
  BY DEF Saved, Loads, NoLeak
<1>2. Ashore' /\ Helm'
  BY DEF Ashore, Helm, Known
<1>3. Aged'
  <2>1. saveT' \in Nat
    BY BoundsAreNat DEF TypeOK
  <2>2. \A c \in Cell : age'[c] = 0
    BY DEF NoAge
  <2> QED
    BY <2>1, <2>2 DEF Aged, Unsaved
<1> QED
  BY <1>1, <1>2, <1>3 DEF Inv

(* Launch, Walk, ChooseBoat, PickMap, BeginLoad, ashore. *)
LEMMA ShoreInv ==
  ASSUME Inv, Launch \/ Walk \/ ChooseBoat \/ PickMap \/ BeginLoad
  PROVE  Inv'
<1>1. CASE Launch
  <2>1. TypeOK'
    BY <1>1 DEF Launch, Inv, TypeOK, world, histories
  <2> QED
    BY <1>1, <2>1, AshoreStep DEF Launch, Inv, Loads, world, histories
<1>2. CASE Walk
  <2>1. /\ scene \in {"menu", "info", "boats", "maps"}
        /\ scene' \in {"menu", "info", "boats"}
    BY <1>2 DEF Walk, Doors
  <2>2. TypeOK'
    BY <1>2, <2>1 DEF Walk, Inv, TypeOK, world, histories
  <2> QED
    BY <1>2, <2>1, <2>2, AshoreStep DEF Walk, Inv, Loads, Saved, world, histories
<1>3. CASE ChooseBoat
  <2>1. TypeOK'
    BY <1>3 DEF ChooseBoat, Save, Inv, TypeOK, world, histories
  <2> QED
    BY <1>3, <2>1, AshoreStep
    DEF ChooseBoat, Save, Inv, Loads, Saved, world, histories
<1>4. CASE PickMap
  <2>1. TypeOK'
    BY <1>4 DEF PickMap, Save, Inv, TypeOK, world, histories
  <2> QED
    BY <1>4, <2>1, AshoreStep
    DEF PickMap, Save, Inv, Saved, world, histories
<1>5. CASE BeginLoad
  <2>1. TypeOK'
    BY <1>5 DEF BeginLoad, Inv, TypeOK, histories
  <2> QED
    BY <1>5, <2>1, AshoreStep DEF BeginLoad, Inv, Saved, histories
<1> QED
  BY <1>1, <1>2, <1>3, <1>4, <1>5

(* The end of the program, with what is in the file kept. *)
LEMMA EndInv ==
  ASSUME Inv, Kill \/ Quit
  PROVE  Inv'
<1>1. Ends /\ disk' = disk
  <2>1. scene # "off"
    BY DEF Kill, Quit, Ends
  <2> QED
    BY <2>1 DEF Kill, Quit, Inv, Saved
<1>2. seen' \in Buckets
  BY <1>1 DEF Ends, Inv, TypeOK, Buckets
<1>3. TypeOK'
  <2>1. saveT' \in 0 .. FlushFrames /\ checkT' \in 0 .. CheckFrames
    BY <1>1, BoundsAreNat DEF Ends
  <2> QED
    BY <1>1, <1>2, <2>1, NoneIsBucket DEF Ends, Inv, TypeOK
<1>4. NoLeak'
  BY <1>1 DEF Ends, Inv, NoLeak, NoFog
<1>5. Saved' /\ Loads' /\ Helm'
  BY <1>1 DEF Ends, Saved, Loads, Helm
<1>6. Ashore'
  BY <1>1 DEF Ends, Ashore, Known
<1>7. Aged'
  <2>1. \A c \in Cell : age'[c] = 0
    BY <1>1 DEF Ends, NoAge
  <2>2. saveT' \in Nat
    BY <1>1 DEF Ends
  <2> QED
    BY <2>1, <2>2 DEF Aged, Unsaved
<1> QED
  BY <1>3, <1>4, <1>5, <1>6, <1>7 DEF Inv

(* A new game: nothing is known and nothing is remembered. *)
LEMMA NewGameInv ==
  ASSUME Inv, NewGame
  PROVE  Inv'
<1>1. TypeOK'
  BY NoneIsBucket DEF NewGame, Save, Inv, TypeOK
<1>2. ~begun
  BY DEF NewGame, Inv, Loads
<1> QED
  BY <1>1, <1>2, SettledStep DEF NewGame, Save, NoFog

(* flushFog, at the helm: afterwards the bucket has all of the live fog, and no
   other bucket has changed. *)
LEMMA FlushAtHelm ==
  ASSUME Inv, scene = "world", FlushFog
  PROVE  /\ maps' \in Buckets
         /\ maps'[sel] \subseteq seen[sel]
         /\ live \subseteq Start \cup maps'[sel]
         /\ \A m \in Map \ {sel} : maps'[m] = maps[m]
<1>1. /\ ms = sel /\ live \subseteq seen[sel] /\ live \in SUBSET Cell
      /\ dirty \/ live \subseteq Start \cup maps[sel]
  BY DEF Inv, Helm, TypeOK
<1>2. CASE dirty
  BY <1>1, <1>2, WrittenAtHelm DEF FlushFog, Inv
<1>3. CASE ~dirty
  BY <1>1, <1>3 DEF FlushFog, Inv, TypeOK, NoLeak
<1> QED
  BY <1>2, <1>3

(* ... so that a save settles everything. *)
LEMMA FlushedAndSaved ==
  ASSUME Inv, scene = "world", FlushFog
  PROVE  /\ \A m \in Map : maps'[m] \subseteq seen[m]
         /\ \A m \in Map : seen[m] \subseteq Start \cup maps'[m]
<1>1. maps = disk /\ sel \in Map
  BY DEF Inv, Saved, TypeOK
<1>2. \A m \in Map \ {sel} : maps'[m] = maps[m] /\ Known(m)
  BY FlushAtHelm DEF Inv, Helm
<1>3. seen[sel] \subseteq Start \cup live
  BY DEF Inv, Helm
<1>4. maps'[sel] \subseteq seen[sel] /\ seen[sel] \subseteq Start \cup maps'[sel]
  BY <1>3, FlushAtHelm
<1> QED
  BY <1>1, <1>2, <1>4 DEF Inv, NoLeak, Known

LEMMA ExitInv ==
  ASSUME Inv, ExitToMenu
  PROVE  Inv'
<1>1. scene = "world" /\ FlushFog
  BY DEF ExitToMenu
<1>2. TypeOK'
  BY <1>1, FlushAtHelm, NoneIsBucket DEF ExitToMenu, FlushFog, Save, Inv, TypeOK
<1>3. ~begun
  BY <1>1 DEF Inv, Loads
<1> QED
  BY <1>1, <1>2, <1>3, FlushedAndSaved, SettledStep DEF ExitToMenu, Save

LEMMA BlurInv ==
  ASSUME Inv, Blur
  PROVE  Inv'
<1>1. CASE scene = "world"
  <2>1. FlushFog
    BY <1>1 DEF Blur, FlushOnBlur
  <2>2. TypeOK'
    BY <1>1, <2>1, FlushAtHelm, NoneIsBucket DEF Blur, FlushFog, Save, Inv, TypeOK
  <2>3. ~begun
    BY <1>1 DEF Inv, Loads
  <2>4. /\ ms = sel /\ live \subseteq seen[sel] /\ seen[sel] \subseteq Start \cup live
        /\ live \subseteq Start \cup maps'[sel]
    BY <1>1, <2>1, FlushAtHelm DEF Inv, Helm
  <2> QED
    BY <1>1, <2>1, <2>2, <2>3, <2>4, FlushedAndSaved, SettledStep
    DEF Blur, Save, FlushFog
<1>2. CASE scene # "world"
  <2>1. maps' = maps /\ maps = disk /\ dirty' = dirty
    BY <1>2 DEF Blur, FlushOnBlur, Inv, Saved
  <2>2. TypeOK'
    BY <2>1, NoneIsBucket DEF Blur, Save, Inv, TypeOK
  <2> QED
    BY <1>2, <2>1, <2>2, SettledStep
    DEF Blur, Save, Inv, NoLeak, Ashore, Known, Loads
<1> QED
  BY <1>1, <1>2

(* Other saves write again what is in the file. *)
LEMMA OtherSaveInv ==
  ASSUME Inv, OtherSave
  PROVE  Inv'
<1>1. maps' = maps /\ disk' = disk
  BY DEF OtherSave, Save, Inv, Saved
<1>2. TypeOK'
  BY <1>1 DEF OtherSave, Inv, TypeOK, world, histories
<1>3. NoLeak' /\ Saved' /\ Loads' /\ Ashore' /\ Helm'
  BY <1>1 DEF OtherSave, Inv, NoLeak, Saved, Loads, Ashore, Helm, Known, world, histories
<1>4. Aged'
  BY <1>1 DEF OtherSave, Inv, Aged, Unsaved, world, histories
<1> QED
  BY <1>2, <1>3, <1>4 DEF Inv

-----------------------------------------------------------------------------
(* The last slice of a load: the fog is that of the bucket, and what more there
   is marks it dirty. *)
LEMMA LoadInv ==
  ASSUME Inv, FinishLoad
  PROVE  Inv'
<1> DEFINE lit == maps[ms] \cup Start
           circled == Circled(lit, FilledBefore)
<1>1. /\ scene = "loading" /\ begun /\ ms = sel /\ sel \in Map
      /\ maps = disk /\ disk[sel] \subseteq seen[sel]
      /\ \A m \in Map : Known(m)
  BY DEF FinishLoad, Inv, Loads, Saved, NoLeak, Ashore, TypeOK
<1>2. /\ live' = lit \cup Within(circled)
      /\ filled' = circled
      /\ dirty' = (dirty \/ live' # lit)
  BY DEF FinishLoad, FilledBefore, Restored
<1>3. lit \subseteq Cell /\ live' \subseteq Cell /\ filled' \subseteq Island
  BY <1>1, <1>2, CellAssumption, WithinIsCells DEF Inv, TypeOK, Buckets
<1>4. /\ seen' \in Buckets
      /\ seen'[sel] = seen[sel] \cup live'
      /\ \A m \in Map \ {sel} : seen'[m] = seen[m]
  BY <1>1, <1>3 DEF FinishLoad, Inv, TypeOK, Buckets
<1>5. TypeOK'
  <2>1. saveT' \in 0 .. FlushFrames /\ checkT' \in 0 .. CheckFrames
    BY BoundsAreNat DEF FinishLoad
  <2>2. dirty' \in BOOLEAN
    BY <1>2 DEF Inv, TypeOK
  <2> QED
    BY <1>3, <1>4, <2>1, <2>2, NoneIsBucket DEF FinishLoad, Inv, TypeOK
<1>6. Saved' /\ Loads' /\ Ashore'
  BY <1>1 DEF FinishLoad, Saved, Loads, Ashore
<1>7. NoLeak'
  BY <1>4 DEF FinishLoad, Inv, NoLeak
<1>8. Helm'
  <2>1. \A m \in Map \ {sel} : Known(m)'
    BY <1>1, <1>4 DEF FinishLoad, Known
  <2>2. seen'[sel] \subseteq Start \cup live'
    BY <1>1, <1>2, <1>4 DEF Known
  <2>3. dirty' \/ live' \subseteq Start \cup maps[sel]
    BY <1>1, <1>2
  <2> QED
    BY <1>1, <1>4, <2>1, <2>2, <2>3 DEF FinishLoad, Helm
<1>9. Aged'
  <2>1. \A c \in Cell : age'[c] = 0
    BY DEF FinishLoad, NoAge
  <2>2. saveT' \in Nat
    BY DEF FinishLoad
  <2> QED
    BY <2>1, <2>2 DEF Aged, Unsaved
<1> QED
  BY <1>5, <1>6, <1>7, <1>8, <1>9 DEF Inv

(* A frame at sea.  A flush, when it is due, leaves of this map only what the
   islands just filled have added; one that is not due finds nothing unsaved
   when the timer has run out. *)
LEMMA FrameInv ==
  ASSUME Inv, Frame
  PROVE  Inv'
<1> PICK sight \in Sights :
      LET lit == live \cup sight
          due == (dirty \/ lit # live) /\ saveT = FlushFrames
      IN /\ Lift(lit, due, checkT = CheckFrames)
         /\ saveT' = NextSave(due, lit # live)
  BY DEF Frame
<1> DEFINE lit == live \cup sight
           due == (dirty \/ lit # live) /\ saveT = FlushFrames
           circled == IF checkT = CheckFrames THEN Circled(lit, filled) ELSE {}
<1>1. /\ scene = "world" /\ scene' = scene /\ sel' = sel /\ ms' = ms /\ begun' = begun
      /\ blurred' = FALSE
  BY DEF Frame
<1>2. /\ ms = sel /\ sel \in Map /\ ~begun
      /\ maps = disk
      /\ live \subseteq seen[sel] /\ seen[sel] \subseteq Start \cup live
      /\ dirty \/ live \subseteq Start \cup maps[sel]
      /\ \A m \in Map \ {sel} : Known(m)
      /\ \A m \in Map : disk[m] \subseteq seen[m]
  BY <1>1 DEF Inv, TypeOK, Loads, Saved, Helm, NoLeak
<1>3. /\ live' = lit \cup Within(circled)
      /\ filled' = filled \cup circled
      /\ dirty' = (((dirty \/ lit # live) /\ ~due) \/ live' # lit)
      /\ checkT' = NextCheck
      /\ maps' = IF due THEN Written(lit) ELSE maps
      /\ seen' = [seen EXCEPT ![sel] = @ \cup live']
      /\ saveT' = NextSave(due, lit # live)
  BY DEF Lift
<1>4. disk' = maps'
  BY <1>2 DEF Lift, Save
<1>5. lit \in SUBSET Cell /\ live' \subseteq Cell /\ filled' \subseteq Island
  <2>1. Within({}) \subseteq Cell
    BY DEF Within
  <2>2. circled \subseteq Island /\ Within(circled) \subseteq Cell
    BY <2>1, WithinIsCells
  <2>3. lit \in SUBSET Cell
    BY CellAssumption DEF Inv, TypeOK
  <2> QED
    BY <1>3, <2>2, <2>3 DEF Inv, TypeOK
<1>6. /\ maps' \in Buckets
      /\ \A m \in Map \ {sel} : maps'[m] = maps[m]
      /\ due => maps'[sel] = lit
      /\ ~due => maps' = maps
  BY <1>2, <1>3, <1>5, WrittenAtHelm DEF Inv, TypeOK
<1>7. /\ seen' \in Buckets
      /\ seen'[sel] = seen[sel] \cup live'
      /\ \A m \in Map \ {sel} : seen'[m] = seen[m]
  BY <1>2, <1>3, <1>5 DEF Inv, TypeOK, Buckets
<1>8. /\ saveT \in Nat /\ saveT' \in 0 .. FlushFrames
      /\ saveT' = IF due THEN 0 ELSE IF saveT < FlushFrames THEN saveT + 1 ELSE saveT
  BY <1>3, BoundsAreNat DEF NextSave, Inv, TypeOK
<1>9. age' = [c \in Cell |-> IF c \in seen'[sel] \ (Start \cup disk'[sel])
                              THEN age[c] + 1 ELSE 0]
  BY <1>1 DEF Frame, Age, Unsaved
<1>10. TypeOK'
  <2>1. checkT' \in 0 .. CheckFrames
    BY <1>3, BoundsAreNat DEF NextCheck, Inv, TypeOK
  <2>2. age' \in [Cell -> Nat]
    BY <1>9 DEF Inv, TypeOK
  <2>3. dirty' \in BOOLEAN
    BY <1>3 DEF Inv, TypeOK
  <2> QED
    BY <1>1, <1>4, <1>5, <1>6, <1>7, <1>8, <2>1, <2>2, <2>3 DEF Inv, TypeOK
<1>11. Saved' /\ Loads' /\ Ashore'
  BY <1>1, <1>2, <1>4 DEF Saved, Loads, Ashore
<1>12. NoLeak'
  <2>1. maps'[sel] \subseteq seen'[sel]
    BY <1>2, <1>3, <1>6, <1>7
  <2> QED
    BY <1>2, <1>4, <1>6, <1>7, <2>1 DEF NoLeak
<1>13. Helm'
  <2>1. \A m \in Map \ {sel} : Known(m)'
    BY <1>2, <1>4, <1>6, <1>7 DEF Known
  <2>2. live' \subseteq seen'[sel] /\ seen'[sel] \subseteq Start \cup live'
    BY <1>2, <1>3, <1>7
  <2>3. dirty' \/ live' \subseteq Start \cup maps'[sel]
    BY <1>2, <1>3, <1>6
  <2> QED
    BY <1>1, <1>2, <2>1, <2>2, <2>3 DEF Helm
<1>14. Aged'
  <2>1. ASSUME NEW c \in Cell
        PROVE  /\ age'[c] <= saveT' + 1
               /\ age'[c] # 0 => c \in seen'[sel] \ (Start \cup disk'[sel])
    <3>1. /\ age[c] \in Nat /\ age[c] <= saveT + 1
          /\ age[c] # 0 => c \in seen[sel] \ (Start \cup disk[sel])
      BY DEF Inv, TypeOK, Aged, Unsaved
    <3>2. CASE c \notin seen'[sel] \ (Start \cup disk'[sel])
      BY <1>8, <1>9, <3>2, BoundsAreNat
    <3>3. CASE c \in seen'[sel] \ (Start \cup disk'[sel]) /\ due
      <4>1. c \notin seen[sel]
        BY <1>2, <1>4, <1>6, <3>3
      <4> QED
        BY <1>8, <1>9, <3>1, <3>3, <4>1
    <3>4. CASE c \in seen'[sel] \ (Start \cup disk'[sel]) /\ ~due /\ saveT < FlushFrames
      BY <1>8, <1>9, <3>1, <3>4
    <3>5. CASE ~due /\ ~(saveT < FlushFrames)
      <4>1. saveT = FlushFrames
        BY <3>5, BoundsAreNat DEF Inv, TypeOK
      <4>2. ~dirty
        BY <3>5, <4>1
      <4>3. age[c] = 0
        BY <1>2, <3>1, <4>2
      <4> QED
        BY <1>8, <1>9, <3>1, <3>5, <4>3
    <3> QED
      BY <3>2, <3>3, <3>4, <3>5
  <2> QED
    BY <1>1, <2>1 DEF Aged, Unsaved
<1> QED
  BY <1>10, <1>11, <1>12, <1>13, <1>14 DEF Inv

LEMMA NextInv == Inv /\ [Next]_vvars => Inv'
<1> SUFFICES ASSUME Inv, [Next]_vvars PROVE Inv'
  OBVIOUS
<1>1. CASE Next
  BY <1>1, ShoreInv, EndInv, LoadInv, FrameInv, ExitInv, NewGameInv, BlurInv,
     OtherSaveInv DEF Next
<1>2. CASE UNCHANGED vvars
  BY <1>2 DEF vvars, world, histories, Inv, TypeOK, Saved, NoLeak, Loads, Ashore, Helm,
     Known, Aged, Unsaved
<1> QED
  BY <1>1, <1>2

-----------------------------------------------------------------------------
LEMMA Invariance == Spec => []Inv
  BY InitInv, NextInv, PTL DEF Spec

(* Type correctness, timers within their bounds among it. *)
THEOREM TypeCorrect == Spec => []TypeOK
  BY Invariance, PTL DEF Inv

(* Switching maps never leaks exploration between worlds (defaultState),
   whatever interrupts a load. *)
THEOREM NothingLeaks == Spec => []NoLeak
  BY Invariance, PTL DEF Inv

(* Away from the helm, and when the focus was lost at it, all that was seen is
   in the file (exitToMenu, onBlur). *)
THEOREM AllIsRemembered == Spec => []NothingForgotten
<1>1. Inv => NothingForgotten
  <2>1. ASSUME Inv, scene # "world" PROVE NothingForgotten
    BY <2>1 DEF Inv, Ashore, Known, NothingForgotten, Unsaved
  <2>2. ASSUME Inv, scene = "world", blurred PROVE \A m \in Map : Known(m)
    BY <2>2 DEF Inv, Helm, Saved, Known
  <2> QED
    BY <2>1, <2>2 DEF Known, NothingForgotten, Unsaved
<1> QED
  BY <1>1, Invariance, PTL

(* Whatever comes into view is in the file when the timer has run out
   (World:update). *)
THEOREM FlushedInTime == Spec => []SoonSaved
<1>1. Inv => SoonSaved
  <2> SUFFICES ASSUME Inv, NEW c \in Cell PROVE age[c] <= FlushFrames + 1
    BY DEF SoonSaved
  <2>1. age[c] \in Nat /\ saveT \in 0 .. FlushFrames /\ age[c] <= saveT + 1
    BY DEF Inv, Aged, TypeOK
  <2> QED
    BY <2>1, BoundsAreNat
<1> QED
  BY <1>1, Invariance, PTL

-----------------------------------------------------------------------------
(* The save file sees proper voyages: each step of Voyage is a step of
   FogContract, or changes nothing it speaks of. *)

Kept == [m \in Map |-> disk[m] \ Start]
Waiting == live \ (Start \cup disk[sel])

LEMMA KeptType == ASSUME Inv PROVE Kept \in [Map -> SUBSET Cell] /\ sel \in Map
  BY DEF Inv, TypeOK, Buckets, Kept

(* A save of the selected map alone. *)
LEMMA KeptOfMap ==
  ASSUME Inv, Inv', NEW cells \in SUBSET Cell, disk'[sel] = cells,
         \A m \in Map \ {sel} : disk'[m] = disk[m]
  PROVE  Kept' = [Kept EXCEPT ![sel] = cells \ Start]
  BY DEF Inv, TypeOK, Buckets, Kept

(* At the helm what is kept of the map is part of the fog. *)
LEMMA KeptIsLive ==
  ASSUME Inv, scene = "world"
  PROVE  /\ disk[sel] \subseteq Start \cup live
         /\ maps = disk /\ sel \in Map
         /\ live \in SUBSET Cell
         /\ ~dirty => Waiting = {}
<1>1. disk[sel] \subseteq seen[sel] /\ seen[sel] \subseteq Start \cup live
  BY DEF Inv, TypeOK, NoLeak, Helm
<1>2. maps = disk /\ (dirty \/ live \subseteq Start \cup maps[sel])
  BY DEF Inv, Saved, Helm
<1> QED
  BY <1>1, <1>2 DEF Inv, TypeOK, Waiting

(* A flush and a save at the helm keep what was waiting, and no more. *)
LEMMA FlushKeeps ==
  ASSUME Inv, Inv', scene = "world", FlushFog, Save
  PROVE  Kept' = [Kept EXCEPT ![sel] = @ \cup Waiting]
<1>1. /\ disk' = maps' /\ Kept \in [Map -> SUBSET Cell] /\ sel \in Map
      /\ \A m \in Map \ {sel} : disk'[m] = disk[m]
  BY KeptType, KeptIsLive, FlushAtHelm DEF Save
<1>2. disk'[sel] \in SUBSET Cell
  BY <1>1 DEF Inv, TypeOK, Buckets
<1>3. disk'[sel] \ Start = Kept[sel] \cup Waiting
  <2>1. CASE dirty
    <3>1. disk'[sel] = live
      BY <1>1, <2>1, KeptIsLive, WrittenAtHelm DEF FlushFog, Inv, Helm
    <3> QED
      BY <1>1, <3>1, KeptIsLive DEF Kept, Waiting
  <2>2. CASE ~dirty
    BY <1>1, <2>2, KeptIsLive DEF FlushFog, Kept
  <2> QED
    BY <2>1, <2>2
<1>4. Kept' = [Kept EXCEPT ![sel] = disk'[sel] \ Start]
  BY <1>1, <1>2, KeptOfMap
<1> QED
  BY <1>1, <1>3, <1>4

(* A frame sees, and, when it flushes, keeps. *)
LEMMA FrameSeesOrKeeps ==
  ASSUME Inv, Inv', Frame
  PROVE  Contract!See \/ Contract!Keep
<1> PICK sight \in Sights :
      LET lit == live \cup sight
          due == (dirty \/ lit # live) /\ saveT = FlushFrames
      IN Lift(lit, due, checkT = CheckFrames)
  BY DEF Frame
<1> DEFINE lit == live \cup sight
           due == (dirty \/ lit # live) /\ saveT = FlushFrames
<1>1. /\ scene = "world" /\ scene' = "world" /\ sel' = sel /\ ms = sel
      /\ sel # NoMap
  BY MapAssumption DEF Frame, Inv, Helm, TypeOK
<1>2. /\ lit \subseteq live' /\ live' \in SUBSET Cell /\ lit \in SUBSET Cell
  BY DEF Lift, Inv, TypeOK
<1>3. /\ maps' = IF due THEN Written(lit) ELSE maps
      /\ disk' = IF due THEN Written(lit) ELSE disk
  BY <1>1, KeptIsLive DEF Lift, Save
<1> HIDE DEF lit, due
<1>4. Waiting' \in SUBSET Cell
  BY <1>2 DEF Waiting
<1>5. CASE ~due
  <2>1. disk' = disk /\ Kept' = Kept
    BY <1>3, <1>5 DEF Kept
  <2>2. Waiting \subseteq Waiting'
    BY <1>1, <1>2, <2>1 DEF Waiting, lit
  <2> QED
    BY <1>1, <1>4, <2>1, <2>2 DEF Contract!See, Kept, Waiting
<1>6. CASE due
  <2>1. disk'[sel] = lit /\ \A m \in Map \ {sel} : disk'[m] = disk[m]
    BY <1>1, <1>2, <1>3, <1>6, KeptIsLive, WrittenAtHelm DEF Inv
  <2>2. Kept' = [Kept EXCEPT ![sel] = lit \ Start]
    BY <1>2, <2>1, KeptOfMap
  <2>3. Kept[sel] \cup Waiting \subseteq lit \ Start
    BY <1>1, KeptIsLive DEF Kept, Waiting, lit
  <2>4. (lit \ Start) \in SUBSET Cell
    BY <1>2
  <2> QED
    BY <1>1, <1>4, <2>2, <2>3, <2>4 DEF Contract!Keep, Kept, Waiting
<1> QED
  BY <1>5, <1>6

(* The ways out of the world. *)
LEMMA WaysOut ==
  ASSUME Inv, Inv', scene = "world", Kill \/ Quit \/ ExitToMenu \/ NewGame
  PROVE  Contract!Next
<1>1. sel # NoMap /\ scene' # "world"
  BY MapAssumption DEF Inv, TypeOK, Kill, Quit, Ends, ExitToMenu, NewGame
<1>2. CASE Kill \/ Quit
  <2>1. disk' = disk
    BY <1>2, KeptIsLive DEF Kill, Quit
  <2> QED
    BY <1>1, <2>1 DEF Contract!Lost, Contract!Next
<1>3. CASE ExitToMenu
  <2>1. Kept' = [Kept EXCEPT ![sel] = @ \cup Waiting]
    BY <1>3, FlushKeeps DEF ExitToMenu
  <2> QED
    BY <1>1, <2>1 DEF Contract!ComeHome, Contract!Next, Kept, Waiting
<1>4. CASE NewGame
  <2>1. Kept' = [m \in Map |-> {}]
    BY <1>4 DEF NewGame, Save, NoFog, Kept
  <2> QED
    BY <1>1, <2>1 DEF Contract!StartOver, Contract!Next, Kept
<1> QED
  BY <1>2, <1>3, <1>4

(* Ashore nothing is saved but what is in the file, and a voyage begins when the
   last slice of the load is done. *)
LEMMA AshoreIsQuiet ==
  ASSUME Inv, Inv', Next, scene # "world"
  PROVE  [Contract!Next]_Contract!fvars
<1>1. disk' = disk
  <2>1. CASE Launch \/ Kill \/ Walk \/ BeginLoad \/ FinishLoad
    BY <2>1 DEF Launch, Kill, Walk, BeginLoad, FinishLoad
  <2>2. CASE Quit \/ ChooseBoat \/ PickMap \/ OtherSave
    BY <2>2 DEF Quit, Ends, ChooseBoat, PickMap, OtherSave, Save, Inv, Saved
  <2>3. CASE Blur
    BY <2>3 DEF Blur, FlushOnBlur, Save, Inv, Saved
  <2> QED
    BY <2>1, <2>2, <2>3 DEF Next, Frame, ExitToMenu, NewGame
<1>2. CASE scene' # "world"
  BY <1>1, <1>2 DEF Contract!fvars
<1>3. CASE scene' = "world"
  <2>1. FinishLoad
    BY <1>3 DEF Next, Launch, Kill, Quit, Ends, Walk, Doors, ChooseBoat, PickMap,
       BeginLoad, Frame, ExitToMenu, NewGame, Blur, OtherSave
  <2>2. sel' = sel /\ sel \in Map /\ live' \subseteq Cell
    BY <2>1 DEF FinishLoad, Inv, TypeOK
  <2>3. live' \ (Start \cup disk'[sel']) \in SUBSET Cell
    BY <2>2
  <2> QED
    BY <1>1, <1>3, <2>2, <2>3 DEF Contract!SetOut, Contract!Next
<1> QED
  BY <1>2, <1>3

LEMMA StepIsVoyage ==
  ASSUME Inv, Inv', Next, scene = "world"
  PROVE  [Contract!Next]_Contract!fvars
<1>1. CASE Frame
  BY <1>1, FrameSeesOrKeeps DEF Contract!Next
<1>2. CASE Kill \/ Quit \/ ExitToMenu \/ NewGame
  BY <1>2, WaysOut
<1>3. CASE Blur
  <2>1. Kept' = [Kept EXCEPT ![sel] = @ \cup Waiting]
    BY <1>3, FlushKeeps DEF Blur, FlushOnBlur
  <2>2. /\ Kept \in [Map -> SUBSET Cell] /\ sel \in Map /\ sel # NoMap
        /\ Waiting \in SUBSET Cell /\ Waiting' \in SUBSET Cell
    BY MapAssumption, KeptType DEF Inv, TypeOK, Waiting
  <2>3. (Kept[sel] \cup Waiting) \in SUBSET Cell
    BY <2>2
  <2>4. scene' = "world" /\ sel' = sel
    BY <1>3 DEF Blur
  <2> QED
    BY <2>1, <2>2, <2>3, <2>4 DEF Contract!Keep, Contract!Next, Kept, Waiting
<1>4. CASE OtherSave
  BY <1>4, KeptIsLive DEF OtherSave, Save, world, Contract!fvars
<1> QED
  BY <1>1, <1>2, <1>3, <1>4 DEF Next, Launch, Walk, Doors, ChooseBoat, PickMap, BeginLoad,
     FinishLoad

(* Through loads that are interrupted, losses of focus, quits and kills: what a
   voyage has seen is kept with its map, all that waits at a time, and nothing
   that was kept is lost but for a new game (flushFog, exitToMenu, onBlur). *)
THEOREM ImplementsContract == Spec => KeepsFog
<1>1. Init => Contract!Init
  <2> SUFFICES ASSUME Init PROVE Contract!Init
    OBVIOUS
  <2>1. Inv
    BY InitInv
  <2>2. Kept \in [Map -> SUBSET Cell]
    BY <2>1, KeptType
  <2>3. \A m \in Map \ {Home} : Kept[m] = {}
    BY DEF Init, NoFog, Kept
  <2> QED
    BY <2>2, <2>3 DEF Init, Contract!Init, Kept
<1>2. Inv /\ Inv' /\ [Next]_vvars => [Contract!Next]_Contract!fvars
  <2>1. ASSUME Inv, Inv', Next PROVE [Contract!Next]_Contract!fvars
    BY <2>1, AshoreIsQuiet, StepIsVoyage
  <2>2. UNCHANGED vvars => UNCHANGED Contract!fvars
    BY DEF vvars, Contract!fvars
  <2> QED
    BY <2>1, <2>2
<1> QED
  BY <1>1, <1>2, Invariance, PTL DEF Spec, KeepsFog, Contract!Spec
-----------------------------------------------------------------------------
(* The variant behind CircledIsFilled. *)

(* An island that counts as filled is: _islandFilled is only ever marked with
   the fog lifted, and fog never comes back under way. *)
FilledIsLifted == scene = "world" => Within(filled) \subseteq live

LEMMA FilledStep ==
  ASSUME FilledIsLifted, [Next]_vvars PROVE FilledIsLifted'
<1>1. CASE FinishLoad
  <2>1. PICK circled : filled' = FilledBefore \cup circled /\ Within(circled) \subseteq live'
    BY <1>1 DEF FinishLoad
  <2>2. Within(filled') \subseteq live'
    BY <2>1 DEF FilledBefore, Within
  <2> QED
    BY <2>2 DEF FilledIsLifted, Within
<1>2. CASE Frame
  <2>1. scene = "world" /\ Within(filled) \subseteq live
    BY <1>2 DEF Frame, FilledIsLifted
  <2>2. PICK circled, lit : /\ live \subseteq lit
                            /\ live' = lit \cup Within(circled)
                            /\ filled' = filled \cup circled
    BY <1>2 DEF Frame, Lift
  <2>3. Within(filled') = Within(filled) \cup Within(circled)
    BY <2>2 DEF Within
  <2> QED
    BY <2>1, <2>2, <2>3 DEF FilledIsLifted, Within
<1>3. CASE scene' # "world"
  BY <1>3 DEF FilledIsLifted
<1>4. CASE scene = "world" /\ UNCHANGED <<live, filled>>
  BY <1>4 DEF FilledIsLifted, Within
<1>5. \/ FinishLoad \/ Frame \/ scene' # "world"
      \/ scene = "world" /\ UNCHANGED <<live, filled>>
      \/ UNCHANGED <<scene, live, filled>>
  BY DEF Next, Launch, Kill, Quit, Ends, Walk, Doors, ChooseBoat, PickMap, BeginLoad,
     ExitToMenu, NewGame, Blur, OtherSave, world, vvars
<1>6. CASE UNCHANGED <<scene, live, filled>>
  BY <1>6 DEF FilledIsLifted, Within
<1> QED
  BY <1>1, <1>2, <1>3, <1>4, <1>5, <1>6

(* At sea with an island sailed around, a frame fills it or brings the look at
   the islands nearer, and the shore stays lifted; nothing but a frame, a blur
   among the rest, sets that look back, for as long as the voyage lasts. *)
LookStep ==
  \A i \in Island : scene = "world" /\ Ring[i] \subseteq live =>
    \/ scene' # "world"
    \/ /\ Ring[i] \subseteq live'
       /\ IF Frame
          THEN \/ Heart[i] \subseteq live'
               \/ checkT' = checkT + 1 /\ checkT' <= CheckFrames
          ELSE UNCHANGED <<live, checkT>>
LookComes == [][LookStep]_vvars

LEMMA LookStepHolds ==
  ASSUME Inv, FilledIsLifted, [Next]_vvars PROVE LookStep
<1> SUFFICES ASSUME NEW i \in Island, scene = "world", Ring[i] \subseteq live,
                    scene' = "world"
             PROVE  /\ Ring[i] \subseteq live'
                    /\ IF Frame
                       THEN \/ Heart[i] \subseteq live'
                            \/ checkT' = checkT + 1 /\ checkT' <= CheckFrames
                       ELSE UNCHANGED <<live, checkT>>
  BY DEF LookStep
<1>1. CASE Frame
  <2>1. PICK sight \in Sights :
          Lift(live \cup sight,
               (dirty \/ live \cup sight # live) /\ saveT = FlushFrames,
               checkT = CheckFrames)
    BY <1>1 DEF Frame
  <2> DEFINE lit == live \cup sight
             circled == IF checkT = CheckFrames THEN Circled(lit, filled) ELSE {}
  <2>2. live' = lit \cup Within(circled) /\ checkT' = NextCheck
    BY <2>1 DEF Lift
  <2>3. Ring[i] \subseteq live'
    BY <2>2
  <2>4. CASE checkT = CheckFrames
    <3>1. CASE i \in filled
      <4>1. Heart[i] \subseteq Within(filled)
        BY <3>1 DEF Within
      <4> QED
        BY <1>1, <2>2, <2>3, <4>1 DEF FilledIsLifted
    <3>2. CASE i \notin filled
      <4>1. i \in circled
        BY <2>4, <3>2 DEF Circled
      <4>2. Heart[i] \subseteq Within(circled)
        BY <4>1 DEF Within
      <4> QED
        BY <1>1, <2>2, <2>3, <4>2
    <3> QED
      BY <3>1, <3>2
  <2>5. CASE checkT # CheckFrames
    <3>1. checkT \in 0 .. CheckFrames /\ CheckFrames \in Nat
      BY BoundsAreNat DEF Inv, TypeOK
    <3>2. checkT' = checkT + 1 /\ checkT' <= CheckFrames
      BY <2>2, <2>5, <3>1 DEF NextCheck
    <3> QED
      BY <1>1, <2>3, <3>2
  <2> QED
    BY <2>4, <2>5
<1>2. CASE ~Frame
  <2>1. UNCHANGED <<live, checkT>>
    BY <1>2 DEF Next, Launch, Kill, Quit, Ends, Walk, Doors, ChooseBoat, PickMap, BeginLoad,
       FinishLoad, ExitToMenu, NewGame, Blur, OtherSave, world, vvars
  <2> QED
    BY <1>2, <2>1
<1> QED
  BY <1>1, <1>2

(* "Sailing right around an island reveals its interior" (checkIslandFill) within
   CheckFrames + 1 frames of the voyage, whatever comes between them. *)
THEOREM IslandsFillInTime == Spec => LookComes
<1>1. Init => FilledIsLifted
  BY DEF Init, FilledIsLifted
<1>2. Spec => []FilledIsLifted
  BY <1>1, FilledStep, PTL DEF Spec
<1>3. Inv /\ FilledIsLifted /\ [Next]_vvars => LookStep
  BY LookStepHolds
<1> QED
  BY <1>2, <1>3, Invariance, PTL DEF Spec, LookComes
==========================================================================
