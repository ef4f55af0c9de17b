------------------------------- MODULE Taps -------------------------------
(***************************************************************************)
(* From the finger to the screen: the engine's event queue, the debounce   *)
(* and the held button (src/game.lua, src/ui/retro.lua), and which screen  *)
(* a press, a release or a key leads from and to.                          *)
(*                                                                         *)
(* Touches arrive whenever they like; a frame takes what has come (Pump),  *)
(* hands it to the scene one by one (Press, Release, Type), and updates    *)
(* and draws (Frame).  Where a finger landed is left open: it hits a       *)
(* button of the screen that gets the press, or none.  What counts is the  *)
(* picture it was aimed at, which every event carries along.               *)
(*                                                                         *)
(* The harbourmaster, the shop and the album are left out: Harbour has how *)
(* the world's overlays get in each other's way.                           *)
(***************************************************************************)
EXTENDS Integers, Sequences

CONSTANTS
  Debounce,     \* the 0.35 s in which Game:mousepressed swallows
  CardFrames,   \* the frames in the 0.35 s (the 0.6 s) of a card, at least
  MaxQueue      \* bound: events that wait

ASSUME DebounceAssumption == Debounce \in Nat \ {0}
ASSUME CardAssumption == CardFrames \in Nat \ {0}
ASSUME QueueAssumption == MaxQueue \in Nat \ {0}

VARIABLES
  screen,     \* the scene, with what lies over it
  armed,      \* Retro._pressed
  cardT,      \* updates of the open card (MapReveal.t, WinScreen.t)
  since,      \* ticks since _sceneSwitchT, Debounce when it is long ago
  spent,      \* ticks of this frame, those before a change of scene in it not
              \* counted, and those from Debounce on
  hitched,    \* history: a frame has hung since the scene changed (Hangs)
  polling,    \* the events pumped are being handled
  batch,      \* how many of them are left
  queue,      \* the events, the oldest first
  touch,      \* what the finger that is down was aimed at
  drawn       \* what the picture on the display shows

input == <<queue, touch>>
clock == <<since, spent, hitched>>
vars == <<screen, armed, cardT, clock, polling, batch, input, drawn>>

NoButton == "none"
NoTouch == "none"

(* The picture was of this screen, of another one of this scene, or of a
   scene that was left since. *)
Aims == {"screen", "scene", "past"}

-----------------------------------------------------------------------------
(* The screens, by scene, and the ways between them. *)

Scene ==
  [menu |-> "menu", quitAsk |-> "menu", info |-> "info",
   boats |-> "boatselect", card |-> "boatselect", gate |-> "boatselect",
   busy |-> "boatselect", naming |-> "boatselect", maps |-> "mapselect",
   loading |-> "loading",
   sea |-> "world", pause |-> "world", reveal |-> "world", finale |-> "world",
   off |-> "off"]

Screens == DOMAIN Scene
Cards == {"reveal", "finale"}

(* The buttons that press in. *)
ButtonsOn ==
  [s \in Screens |->
     CASE s = "menu"    -> {"sign", "hjelp", "avslutt"}
       [] s = "quitAsk" -> {"nei", "ja"}
       [] s = "info"    -> {"tilbake"}
       [] s = "boats"   -> {"nytt", "sail", "back"}
       [] s = "card"    -> {"kjop", "restore", "cardback"}
       [] s = "gate"    -> {"answer", "gateback"}
       [] s = "maps"    -> {"kart", "mapback"}
       [] s = "sea"     -> {"plaque"}
       [] s = "pause"   -> {"fortsett", "ut"}
       [] OTHER         -> {}]

Buttons == UNION {ButtonsOn[s] : s \in Screens}

(* Where each leads when the finger lifts. *)
Releasing ==
  [b \in Buttons |->
     CASE b \in {"sign", "mapback"}           -> {"boats"}
       [] b = "hjelp"                         -> {"info"}
       [] b = "avslutt"                       -> {"quitAsk"}
       [] b \in {"nei", "tilbake", "back", "ut"} -> {"menu"}
       [] b = "ja"                            -> {"off"}
       [] b = "nytt"                          -> {"boats"}
       [] b = "sail"                          -> {"maps", "card"}
       [] b = "kjop"                          -> {"gate"}
       [] b = "restore"                       -> {"busy"}
       [] b = "cardback"                      -> {"boats"}
       [] b = "answer"                        -> {"busy", "gate", "card"}
       [] b = "gateback"                      -> {"card"}
       [] b = "kart"                          -> {"loading", "card", "maps"}
       [] b = "plaque"                        -> {"pause"}
       [] b = "fortsett"                      -> {"sea"}]

(* A press beside the buttons acts at once, where it acts at all. *)
Tapping ==
  [s \in Screens |->
     CASE s = "menu"                 -> {"boats"}
       [] s = "quitAsk"              -> {"quitAsk", "menu"}
       [] s = "boats"                -> {"boats", "naming"}
       [] s \in {"card", "naming"}   -> {s, "boats"}
       [] s = "gate"                 -> {"gate", "card"}
       [] s = "pause"                -> {"pause", "sea"}
       [] s = "reveal"               -> {"sea"}
       [] s = "finale"               -> {"menu"}
       [] OTHER                      -> {s}]

(* Keys: Return and its like, and Escape, which Game:keypressed gives to
   togglePause and onEscape, and else ends the program with. *)
Typing ==
  [s \in Screens |->
     CASE s = "menu"                  -> {"boats", "quitAsk", "off"}
       [] s = "quitAsk"               -> {"menu"}
       [] s = "info"                  -> {"menu"}
       [] s = "boats"                 -> {"maps", "card", "off"}
       [] s = "naming"                -> {"boats", "off"}
       [] s \in {"card", "gate", "busy", "loading"} -> {"off"}
       [] s = "maps"                  -> {"loading", "off"}
       [] s = "sea"                   -> {"pause"}
       [] s = "pause"                 -> {"sea"}
       [] s = "reveal"                -> {"sea"}
       [] s = "finale"                -> {"menu"}
       [] OTHER                       -> {s}]

(* The program moves on by itself: a world is built, a map or the end of the
   game is shown, the store has answered. *)
Updating ==
  [s \in Screens |->
     CASE s = "loading" -> {"loading", "sea", "finale"}
       [] s = "sea"     -> {"sea", "reveal", "finale"}
       [] s = "busy"    -> {"busy", "card", "boats"}
       [] OTHER         -> {s}]

-----------------------------------------------------------------------------
(* Switches. *)

(* What an event was aimed at, once the screen is another. *)
Aged(aim, new) ==
  IF new = screen THEN aim
  ELSE IF Scene[new] = Scene[screen] /\ aim # "past" THEN "scene"
  ELSE "past"

AgedTouch(new) == IF touch = NoTouch THEN NoTouch ELSE Aged(touch, new)

AgedQueue(q, new) ==
  [i \in DOMAIN q |-> [q[i] EXCEPT !.aim = Aged(q[i].aim, new)]]

(* Game:setScene starts the clock of the debounce when the scene is loaded, and
   before it is drawn. *)
SwitchClock(new) ==
  IF Scene[new] = Scene[screen] THEN UNCHANGED clock
  ELSE since' = 0 /\ spent' = 0 /\ hitched' = FALSE

(* It lets go of the button, too.  Within a scene a held button stays held. *)
SwitchKeepingPress(new, held) ==
  /\ screen' = new
  /\ armed' = held
  /\ SwitchClock(new)

Switch(new, held) ==
  /\ screen' = new
  /\ armed' = IF Scene[new] = Scene[screen] THEN held ELSE NoButton
  /\ SwitchClock(new)

(* Loading:update puts the world in place by hand. *)
Install(new) ==
  /\ screen' = new
  /\ UNCHANGED <<armed, clock>>

-----------------------------------------------------------------------------
(* Game:load ends in setScene, and the first frame begins at once. *)
Init ==
  /\ screen = "menu"
  /\ armed = NoButton
  /\ cardT = 0
  /\ since = 0 /\ spent = 0 /\ hitched = FALSE
  /\ polling = FALSE /\ batch = 0
  /\ queue = <<>> /\ touch = NoTouch
  /\ drawn = "past"

Running == screen # "off"

(* The finger and the keyboard (external). *)

Arrives(kind, aim) ==
  /\ Running
  /\ Len(queue) < MaxQueue
  /\ queue' = Append(queue, [kind |-> kind, aim |-> aim])
  /\ UNCHANGED <<screen, armed, cardT, clock, polling, batch, drawn>>

FingerDown ==
  /\ touch = NoTouch
  /\ Arrives("down", drawn)
  /\ touch' = drawn

FingerUp ==
  /\ touch # NoTouch
  /\ Arrives("up", touch)
  /\ touch' = NoTouch

Key ==
  /\ Arrives("key", drawn)
  /\ UNCHANGED touch

(* Half the debounce.  Nothing in the code keeps a frame shorter: the first one
   of a scene parses the boats it shows and bakes its backdrop, in draw, where
   the clock of setScene is running. *)
Hangs(ticks) == 2 * ticks >= Debounce

(* Time passes, before and after each event and each frame is handled.  Only
   the first frame of all begins at once. *)
Tick ==
  /\ Running
  /\ polling \/ drawn # "past"
  /\ spent' = IF spent < Debounce THEN spent + 1 ELSE spent
  /\ since' = IF since < Debounce THEN since + 1 ELSE since
  /\ hitched' = (hitched \/ Hangs(spent'))
  /\ UNCHANGED <<screen, armed, cardT, polling, batch, input, drawn>>

-----------------------------------------------------------------------------
(* A frame (love.run): what has come by now is handled, the rest waits. *)

PumpedAndOne == Len(queue) + 1

Pumped == Len(queue)

Pump ==
  /\ Running
  /\ ~polling
  /\ polling' = TRUE
  /\ batch' = Pumped
  /\ spent' = 0
  /\ UNCHANGED <<screen, armed, cardT, since, hitched, input, drawn>>

(* The oldest event is handled, and the screen becomes `new`. *)
Handle(kind, new) ==
  /\ Running
  /\ polling /\ batch > 0
  /\ Head(queue).kind = kind
  /\ batch' = batch - 1
  /\ queue' = AgedQueue(Tail(queue), new)
  /\ touch' = AgedTouch(new)
  /\ drawn' = Aged(drawn, new)
  /\ UNCHANGED <<cardT, polling>>

SeenAtOnce == TRUE

(* A card waits for its time. *)
Seen == screen \in Cards => cardT >= CardFrames

SwallowsNothing == FALSE

Swallows == since < Debounce

(* Game:mousepressed. *)
Press ==
  \/ /\ Swallows
     /\ Handle("down", screen)
     /\ UNCHANGED <<screen, armed, clock>>
  \/ /\ ~Swallows
     /\ \/ \E b \in ButtonsOn[screen] :
             /\ Handle("down", screen)
             /\ armed' = b
             /\ UNCHANGED <<screen, clock>>
        \/ \E new \in {screen} \cup (IF Seen THEN Tapping[screen] ELSE {}) :
             /\ Handle("down", new)
             /\ Switch(new, armed)

(* Where the held button leads when it is let go: nowhere, if its screen is
   not up.  Only the plaque is asked in every screen of the world, and
   openPause looks for itself. *)
Fires ==
  IF armed \in ButtonsOn[screen] THEN Releasing[armed]
  ELSE {screen}

ReleaseUnended ==
  \E new \in {screen} \cup Fires :
    /\ Handle("up", new)
    /\ Switch(new, IF armed \in ButtonsOn[screen] THEN NoButton ELSE armed)

(* Game:mousereleased: the button fires, unless the finger slid off; in any
   case it is let go. *)
Release ==
  \E new \in {screen} \cup Fires :
    /\ Handle("up", new)
    /\ Switch(new, NoButton)

(* Game:keypressed.  Closing the quit question lets go of its buttons. *)
Type ==
  \E new \in {screen} \cup (IF Seen THEN Typing[screen] ELSE {}) :
    /\ Handle("key", new)
    /\ Switch(new, IF screen = "quitAsk" THEN NoButton ELSE armed)

(* Game:update and Game:draw.  A card that is up counts its time. *)
Frame ==
  /\ Running
  /\ polling /\ batch = 0
  /\ \E new \in Updating[screen] :
       /\ IF screen = "loading" THEN Install(new) ELSE Switch(new, armed)
       /\ queue' = AgedQueue(queue, new)
       /\ touch' = AgedTouch(new)
       /\ cardT' = IF new \notin Cards \/ new # screen THEN 0
                   ELSE IF cardT < CardFrames THEN cardT + 1 ELSE cardT
  /\ drawn' = "screen"
  /\ polling' = FALSE
  /\ UNCHANGED batch

Next ==
  \/ FingerDown \/ FingerUp \/ Key \/ Tick
  \/ Pump \/ Press \/ Release \/ Type \/ Frame

Spec == Init /\ [][Next]_vars

-----------------------------------------------------------------------------
Event == [kind : {"down", "up", "key"}, aim : Aims]

TypeOK ==
  /\ screen \in Screens
  /\ armed \in Buttons \cup {NoButton}
  /\ cardT \in 0..CardFrames
  /\ {since, spent} \subseteq 0..Debounce /\ hitched \in BOOLEAN
  /\ polling \in BOOLEAN
  /\ queue \in Seq(Event) /\ Len(queue) <= MaxQueue
  /\ batch \in 0..Len(queue)
  /\ touch \in Aims \cup {NoTouch} /\ drawn \in Aims

Handling == Press \/ Release \/ Type

(* A tap made on one scene does nothing in the next, as long as no frame has
   hung since the change of scene ("stale click from before/during the scene
   switch", Game:mousepressed): neither a press that was queued while the
   screen changed, nor the release of a finger that went down before, however
   the screens, the keys and the frames fall.  (The exit from the loading
   screen is installed without setScene, so a tap made on it may set the course
   of the boat.) *)
OnlyAHitchLetsThrough ==
  [][/\ Handling /\ Head(queue).aim = "past" /\ Head(queue).kind # "key"
     /\ Scene[screen] # "world"
     /\ ~hitched
     => UNCHANGED <<screen, armed>>]_vars

(* A button never stays in after the finger: while one is held the finger is
   down, or its release is on the way. *)
NeverStuck ==
  armed # NoButton =>
    touch # NoTouch \/ \E i \in DOMAIN queue : queue[i].kind = "up"

(* The button held is one of the scene on show, whatever key or frame changed
   the screen while the finger was down. *)
HeldIsHere ==
  armed # NoButton =>
    \E s \in Screens : Scene[s] = Scene[screen] /\ armed \in ButtonsOn[s]

(* The map card and the finale are closed only by a tap or a key that came
   when they could be seen, however long a frame hangs. *)
CardsAreSeen ==
  [][Handling /\ screen \in Cards /\ screen' # screen => Head(queue).aim = "screen"]_vars
=============================================================================
