# Båtspillet: a verification development

TLA+ models of the core of Båtspillet, the boat game of this repository (Lua on
LÖVE), with TLC configurations that check them on small instances and TLAPS
proofs for every value of the constants. Paths are relative to the repository;
`world.lua`, `game.lua`, `pirate.lua`, ... are below `src/`.

## 1. The system

One process, one thread. LÖVE calls `Game:update` and `Game:draw` once a frame
and the input handlers between frames; everything below is reached from there.
Concurrency is that of an event loop: handlers are atomic, but what the player
presses, which overlay opens by itself, and when the operating system takes the
focus or the process away can come in any order, and state set in one handler is
used many frames later.

| component | state | operations | talks to |
|---|---|---|---|
| save store (`game.lua`, `json.lua`) | `savegame.json`, `.bak`, `_lastGood` | `loadSave`, `save` | every operation that saves; the file system |
| game state (`game.lua`) | gold, `owned`, `cannons`, `ammo`, `food`, boats, names, `premium`, `maps` | `addCoins`, `buy*`, `useAmmo`, `eatFood`, `newGame`, `mapState` | save store |
| scene manager (`game.lua`) | `scene`, `_sceneSwitchT` | `setScene`, input forwarding, `onBlur`, `quit` | all scenes |
| held button (`ui/retro.lua`) | `_pressed` | `press`, `released`, `cancelPress` | every screen with buttons |
| event queue (LÖVE: `Event.cpp`, `callbacks.lua`) | the messages not yet handled | `pump`, `poll`, `push` | scene manager |
| title, help, boat, map and loading scenes | selections, the load coroutine | buttons, `resume` | game state, purchases, world |
| world (`scenes/world.lua`) | everything below, and which overlay is up | `load`, `update`, input handlers | all |
| cargo (`systems/cargo.lua`) | `offers`; `boat.cargo` | `tryPickup`, `tryDeliver` | harbour screen |
| docking | `nearPort`, `latching`, `_latchT`, `dockSuppress`, `dock` | the glide, `openDock`, `PortScreen:confirm`, the shop | cargo, hunt, game state |
| treasure hunt | `mapped`, `found`, `cued`, `racer`, `_racerExitT`, `_sinceMap`, `pendingMapReveal`; the lists in `maps[id]` | `revealTreasureMap`, `updateRace`, `winTreasure`, `pirateStealsTreasure` | docking, game state |
| pirate and cannon | `pirate`, `pirateCooldown`, `boat.balls`, cooldowns | `updatePirate`, `Pirate:update`, `updateCannon`, `tapFire`, `pirateHit`, `cannonHitPirate` | game state |
| boat | position, speed, destination, coast timer, safe spot | `update`, `blockLand`, `collideCircle` | terrain |
| fog and islands | the revealed grid, `_fogDirty`, filled islands | `revealAround`, `flushFog`, discovery | save store |
| purchases (`systems/iap.lua`, `ios/storekit`) | `_cb`, `_restoring`, `_restored`, the event queue | `buy`, `restore`, `update`, StoreKit's callbacks | boat and map choice |
| ambient life | ships, skerries, shark, dolphins | their `update` | boat (collisions) |
| terrain, objects, camera, drawing, assets | caches | worldgen, drawing | -- |

What makes them correct, component by component:

- **save store**: a start finds the last completed save, or the one before it,
  whatever was killed or failed in between;
- **game state**: nothing below zero, everything but shots reaches the file, the
  three records of a cannon agree, also out of old saves;
- **docking and cargo**: a glide ends; the screen opens in harbour; one job at a
  time; what the screen shows stays true; jobs add up;
- **overlays**: one at a time, whatever is pressed while they open; the cards that
  open by themselves are not tapped away unseen;
- **input**: a tap acts in the scene it was made in or nowhere, and no button stays
  held without a finger on it;
- **hunt**: world, running game and file agree; one hunt at a time; no hunt with
  a job aboard; maps are announced; the completed game never dead-ends; hunts
  keep their distance;
- **pirate**: one prize a pirate; it hunts nobody in harbour or without gold;
  balls do not meet the next pirate; every visit ends;
- **purchases**: nothing unpaid is unlocked, a payment is not dropped on its way to
  the save file, the offer is never busy for nothing, a restore gets what was lost;
- **scenes and fog**: what was seen on a map is kept with that map and no other, and is
  not forgotten but for the last seconds at the helm; a circled island is filled.

The behaviours that make this hard are listed one by one, at their lines, in
`PROJECT.json` under `hazards`, with the property that covers each.

## 2. The modules

State variables keep the names of the source. A comment above each says what it
abstracts; `PROJECT.json` maps every definition to the lines it stands for.

### SaveContract, SaveStore, SaveStore_proofs

`SaveStore` is `Game:save` and `Game:loadSave`. A save is several actions,
because a kill may fall between them: `OpenBackup` (the file is truncated),
`CloseBackup`, `OpenMain`, `CloseMain`. A write that returns nothing has failed before
its open truncated the file, which keeps what it held (`BackupUnopened`, `MainUnopened`), or
after it (`BackupFails`, `MainFails`); `Kill` ends the process anywhere. A file holds a state, is
`Absent`, or `Torn`: a strict prefix of the JSON text, which `json.decode` rejects.
`acked` and `before` are histories: the last completed save and the different
one before it. So is `missed`: the backup could not be opened when it was last to be
rotated, and `save`, which drops that result, went on; until the next rotation the backup
may be any number of saves old. `FilesFollowSaves` excepts exactly that.

`SaveContract` has no files: a start finds the last save or the one before.
`KeepsContract` says that `SaveStore` implements it, `up` being `pc # "down"`.

`AnyStrike` decides how unlucky the disk is. `FALSE`: at most one strike (kill or
failed write) in a save, and only in a save that found both files in order (`InOrder`): both
decode, and the backup has not missed its rotation. (`MainUnopened` harms nothing and is
always allowed.) Under it everything holds; without its last part a backup left stale, and
one kill in the next save, would start the game from a state `SaveContract` excludes. `TRUE`
refutes the comment above `Game:save`: see Findings.

### HuntContract, TreasureHunt, HuntCadence, TreasureHunt_proofs

One `World:update` is one action, whichever `return` it takes: `ShowCard` (the
deferred card), `ParkAndDock` (a glide's last frame, which runs `openDock`), or
`SailOn` (motion, `updateRace`, then the chest is won, or stolen, or neither).
`CastOff` is `PortScreen:confirm`, which may open the next screen itself.
`LoadWorld` keeps what `World:load` forgets to reset (`latching`, `_racerExitT`,
`_sinceMap`). A save is one step here; `SaveStore` opens it up. The overlays that stop
`World:update` before the deferred card are all here (`NoModal`): the player may open the
pause menu or the album, which only looks at the hunt, in the batch of events that closed the
harbour screen, and the card then waits.

Where the boat is matters in four zones around the chest in play; whether the
racer arrives this frame is left open. The two lists of `mapState` are bags, so
that an insertion made twice, or a removal of one of two, would show.
`HuntContract` is the hunt as the save file shows it: `Grant`, `Lose`, `Win`,
`StartOver`.

`HuntCadence` adds a count of ordinary deliveries since the last map, for one
question the state alone cannot answer; `TreasureHunt_proofs` extends it.

What the model shows on the way: `HuntOrJob` makes the mid-hunt deliveries
`openDock` and `config.TREASURE` speak of ("Cargo already aboard still gets
delivered") unreachable, and `RaceFollowsHunt` the branch of `updateRace` that
sends off a racer when no chest is in play.

### DeliveryContract, Harbour, MCHarbour, HarbourVisits, Harbour_proofs

The glide (`near`, `latching`, `latchT`, `suppress`), the cargo (`offers`,
`cargo`), the harbour screen (`dock`, a record of mode, port and offer) and the
other overlays, with the input handlers that open and close them. `Focus` is the
order in which every handler asks for the overlay that takes the input.
`PressPlaque` and `ReleasePlaque` are the two halves of the pause button, between
which anything may open; `Escape` is the third way in. `cargo` is a set: the order of
the list matters nowhere, and each job has the number under which it was taken.
`taken`, `paid` and `dropped` count jobs. Of the hunt only its being on is kept.

`Keyboard` tells desktop from touch: arrow keys steer during a glide, taps do not.
`HarbourVisits` adds the ports the boat has come close to since the last load;
`Harbour_proofs` extends it.

`DeliveryContract` is a job seen from the quay: taken in a harbour by a boat that has none,
for another harbour; paid when the boat berths where it was bound, once and nowhere else;
or lost with the boat of the last world. `KeepsJobs` says that `Harbour` implements it: `berth`
is the port of the screen that is up, whatever screens follow each other there, and `bound`
where the one job of `cargo` goes.

### Purse, MCPurse, Purse_proofs

The gold, provisions, cannons and balls of `Game.state`, one action a call, with
the save each call makes; `disk` is the same record in the save file. A cannon is
two actions, `BuyCannon` and `LoadCannon`, with a save each. `OldSaves` are files
from before balls and cannons were counted; `Loaded` is what `loadSave` makes of
them. `armed` is a history: the cannons whose balls came with them.

### PirateFight, MCPirateFight, PirateFight_proofs

EXTENDS `Purse` and composes with it: a frame (`SailOn`) is `updatePirate` and
`Pirate:update` (`PirateTurns`), then `updateCannon` (`CannonTurns`), then a bite
of the provisions, with the save that the frame's `addCoins` or `eatFood` makes
in its place: a shot fired after the prize stays unsaved. Docking, shopping,
leaving, blurs and kills are `Purse`'s actions under `at`. `own` has the balls of ours
in the air, each with the frames it has left; `pirate.time` is `huntT` or `retreatT`.
`Volleys` are the ways the pirate's balls may fly and hit in a frame, `CannonTurns`
those of ours.

Distances are open: any ball may hit in any frame, any shot may be in range, a
pirate may be "far" at any time.

### Iap, Iap_proofs

The premium pack from the offer card to the save file, through four places a
purchase can be: the store's payment queue (`store`), the bridge's `events`,
Lua's one request (`pending`, `restored`), and `premium`, `saved`. Only the
first and the file (`saved`) outlive a kill. Every save writes the flag anew: `Leave` (of
which `setSail` saves and `back` may) and `Escape` (`Game:quit`) are saves that come while a
purchase is on its way. `Update` is `IAP.update`: one event a frame, and only while
a request waits; which request an event belongs to the code cannot tell, and
so the model does not say. `Request` sets the offer to busy whether `IAP.buy` takes
the request or returns: that it always takes it is `BusyIsPending`.

`Escape` is a way for the program to end: `Game:keypressed` takes that key before any
scene but the title and the help page is asked, so that the Escape branches of
`BoatSelect` (one step back, but not when busy), `MapSelect` and the overlays are never
reached.

The store is external: payments may be deferred, refused or made while the program
is off; restores deliver what the account has, then end, or fail half way. `owed` is a
history: a payment made here that no kill has orphaned.

### FogContract, Voyage, MCVoyage, Voyage_proofs

The scenes, and the fog as what a voyage leaves behind. `World` is one object that every
voyage reuses: `ms` (the bucket of the map), `live` (the grid), `dirty` (`_fogDirty`) and
the timers keep what the last voyage left in them until `FinishLoad`, the last slice of
the coroutine that `Loading:update` resumes; `BeginLoad` is the first. Between the two
come blurs, saves, quits and kills. `newGame` drops the buckets (`ms` is `NoMap`: a table
that nothing saves) and leaves the rest. `Frame` is the part of `World:update` that
lifts fog, in its order: what comes into view, the flush when due, an island discovered,
the islands circled (`Lift`).

`seen` and `age` are histories: the cells ever lifted on a map, less those a kill or a
quit has lost, and for how many frames each of them has been missing from the file. The
cells in view at the start are counted as known, for every load lights them again.

`FogContract` has no scenes, timers or buckets: a voyage goes out on one map, sees more, keeps
what it has seen with that map, all that waits at a time, and keeps everything when it comes
home. What is kept is never lost but to a new game; the end of the program takes what was not
kept. `KeepsFog` says that `Voyage` implements it, `kept` being the save file less the
cells in view at the start, and `fresh` what the grid knows more than the file.

### Taps, Taps_proofs

What lies between the finger and the handlers the other modules start from: LÖVE's event
queue, the loop of `love.run`, the debounce of `Game:mousepressed`, the button that
`Retro` holds, and the ways between all the screens. Events come at any time (`FingerDown`,
`FingerUp`, `Key`); `Pump` fixes the batch that a frame handles (`Press`, `Release`,
`Type`, one event each), and `Frame` updates and draws. What comes during the batch waits
for the next, so that a tap may be handled in a screen its player has not seen.

`Scene` gives the screens and the scene of each; `ButtonsOn`, `Releasing`, `Tapping`,
`Typing` and `Updating` are tables: which buttons a screen has, and where the release of a
button, a press beside the buttons, a key, or the program by itself may lead. Where a
finger lands is left open. Every event carries its aim: the screen that was drawn when
the finger went down is still on show (`"screen"`), another of the same scene is
(`"scene"`), or the scene has been left (`"past"`); `Aged` keeps that up to date.

Time is counted in ticks: `since`, since `_sceneSwitchT`, and `spent`, in this frame.
`setScene` sets its clock after the scene's `load`, but a scene does its slow work later, in
its first draw: the boat choice parses the models it shows (`getModel` in
`systems/model3d.lua`), the title bakes its backdrop (`menu.lua`) and the other scenes theirs
(`ui/pixelscene.lua`). A loading screen stands before the world alone. So the
code gives no bound on a frame, and neither does the model: `Tick` may fall anywhere but
before the first frame of all. `hitched` is a history: since the scene changed, a frame has
taken half of the debounce or more (`Hangs`). `OnlyAHitchLetsThrough` says that nothing else
lets a stale tap through: a press comes one frame before it is handled at the most, and two
frames that do not hang are shorter than the debounce. With the condition on `hitched`
dropped TLC finds a tap that came before the new scene was drawn and, that draw having taken
the 0.35 s, presses a button of it. That is short of the aim of the comment in `setScene`
("Clicks queued during a hitched transition would fire on the NEW scene"): the transitions
that hitch in `load` are covered, those that hitch in the first draw are not.

Left out: the harbour screen, the shop and the album (`Harbour` has how the overlays
stand to each other); mouse buttons but the first; a second finger. Quitting ends the
program at once, where LÖVE handles what is in the queue before it. `Loading:update`
installs the world without `setScene`, so that nothing is swallowed and a tap made on
the loading screen may set the boat's course: `OnlyAHitchLetsThrough` excepts the world for it.

## 3. The runs

| run | question | expected |
|---|---|---|
| `save_store` | is one strike in a save that found its files in order survivable? | holds |
| `save_killed_anywhere` | is one anywhere? | `Recoverable` violated |
| `treasure_hunt` | all of the hunt's properties, with a refinement and a liveness property | holds |
| `hunt_cadence` | do hunts keep their distance? | violated |
| `harbour` | overlays, jobs (a refinement), screens, glides | holds |
| `harbour_visits` | does the dock open where the boat came close, over two voyages? | violated |
| `purse_loading` | is a cannon that was paid for loaded? | violated |
| `pirate_fight` | robbery, prize, balls, visits, over all the purse does: what is owned, saved, migrated | holds |
| `voyage` | is the fog kept, by map (a refinement), and are islands filled? | holds |
| `iap` | what is paid for, unlocked, kept, restored | holds |
| `iap_drained` | is every purchase in the queue heard? | violated |
| `taps` | where taps act while screens change, held buttons, cards seen | holds |

Every property of a passing run has a mutant of a modelled definition, in the
module itself and written as the mistake it stands for (`StealTreasureStillListed`,
`SwallowsNothing`, ...), under which the same run finds it violated.

Bounds, and why they are enough:

- `save_store`: four states, so that the save file, the backup, `_lastGood` and
  the state in memory can all differ.
- `treasure_hunt`: the game's four chests and its cooldown of three;
  `ExitFrames` 2 lets a thief's exit span a frame with anything else in it.
  `hunt_cadence` has three chests, which is enough to refute.
- `harbour`: three ports, so that a job may be for the port at hand, the next, or
  another; capacity 2, the smallest at which a second job would fit; two glide
  frames; two jobs.
- `purse_loading` and the purse in `pirate_fight`: prices chosen so that each purchase is within reach at some and out of
  reach at other purses; `MaxCoins`, `MaxAmmo` and `MaxStock` only stop earning
  and buying, never spending.
- `pirate_fight`: two hits drive a pirate off where the game has three, so that a
  first, a last and a surplus hit all happen; three balls of ours and two of the
  pirate's in the air; the times of `config.PIRATE` as a few frames each, in
  their order (`BallLife < RespawnGrace`).
- `voyage`: two maps; an island of two coast cells, which never come into view together,
  and one cell inside; three frames between flushes and two between looks at the islands,
  so that the two timers fall in and out of step.
- `iap`: `MaxMishaps` counts kills, refused and failed requests. Four of them cover a
  kill with a payment out, one with the event queued, and two failures of what is
  tried after that. Requests and events need no bound: each request that is
  made consumes an answer, so that only mishaps let answers pile up.

- `taps`: a debounce of five ticks, so that frames of up to two do not hang, and a stale press
  may come in the last tick it is swallowed in; `spent` and `since` count up to five, past which
  nothing depends on them; cards of two frames, so that one frame is not enough; three
  events, a tap and what comes before or after it. A player who quits ends the behaviour: deadlock is not checked.

Fairness: `WF_vars(Frame)`, or of `SailOn` in `PirateFight`: the game loop
goes on calling `World:update`, which `love.run` does as long as the process
lives. Nothing is assumed of the player or the operating system. In
`PirateFight` pausing, which freezes all of it, is left out, so `VisitEnds`
is about time that passes in the world; so it is with `CircledIsFilled` in
`Voyage`. `Iap` has two specifications. `FairSpec`
assumes that frames go on, that a program that ended is started again, and that the
store (and the parent it asks) answers in the end; the violation needs
no more. `InsistingSpec`, for `RestoreWorks`, adds a player who keeps returning
to the card and to "Gjenopprett kjøp": what is claimed is that insisting helps, not that
anyone insists.

## 4. What is proved

All of it for every value of the constants their assumptions allow. Every invariant and every
action property that a run checks is a theorem, and so are the four refinements. Of the
liveness properties the step they rest on is a theorem: the measure that each frame lowers and
nothing else raises. `JobsAddUp` and the types of `Voyage` and `Iap` are proved, and
not checked by a run of their own (`KeepsJobs` and the other properties break where they would).

`SaveStore_proofs`, for every set of states:

- `TypeCorrect` and `FilesNeverOlder` without any assumption on strikes. `Inv` adds
  to them where each file and `_lastGood` are in every phase of a save. A backup that missed
  its rotation is excepted, for the code gives no bound on its age.
- `SavedIsRecoverable` and `ImplementsContract` under `~AnyStrike`. `Shielded`
  is the strengthening: when something was saved one of the files decodes, and
  while one is being written the other does; a backup counts only if it has not missed its
  rotation. It needs the assumption in
  exactly the steps that write; the violation run shows that it is needed.

`TreasureHunt_proofs`, for every finite set of chests, any cooldown and any exit:

- the six state properties of `treasure_hunt` and `KeepsHunt`. `Inv` is the
  conjunction of the six with three facts that none of them states: the save
  file is sound (`Sound`) while the program is off, too; at most one chest is
  hunted; a job is on offer only when no chest is. `Story` is what links the
  bags to `mapped`, `found` and the gold; the lemmas `MapListed`, `MapTaken` and
  `ChestWon` say what the three updates of the lists do to it, and the proof of
  each action uses them. `KeepsHunt` follows step by step: `MapIsGrant`,
  `FrameIsWinOrLoss`, `NewGameStartsOver`; the last one needs
  `NeverDeadEnds`, for a new game is only a `StartOver` when all is won.
- `NoMapUnannounced`, the two steps behind `MapIsAnnounced`: a map that waits is what the next
  frame at sea shows, and only leaving the world drops it (`AnnouncementsWait`); and once the
  harbour screen is gone the next frame is one at sea, unless the player has opened the
  pause menu or the album (`ReadyToShow`).
- `EarlyMapsAreFirstMaps` and `OnlyATheftHurries`: the cause of finding 2, and that there
  is no other. `Paced` says that the world's count `_sinceMap` is never ahead of the deliveries
  made, so that a map before its time can only come by `everHad`; `Remembered`, that
  without a theft of the only chest listed `everHad` is never forgotten (`Forgetting` goes through
  the steps that could).

`Purse_proofs`, for all provisions, prices, crates and rewards:

- its type correctness, `OnlyShotsUnsaved` and `ArmsAgree`. `ArmsAgree` speaks of memory, which a start
  reads from the file, so `SavedArmsAgree` says it of the file as `Loaded` reads it;
  `LoadingOwned` says that between its two saves a cannon is already owned. Most
  operations save, and for them the lemma `SavingStep` does all but the arithmetic.
- `OnlyAKillUnloads`, the one cause of finding 4: by `Manned`, cannons and cannons armed are
  equal in memory and in the file, but for the one between its saves.
- `CannonsAreKept`: no save is of a purse that lags behind the file.

`Iap_proofs`, for any number of gate tries and mishaps:

- `TypeOK`, `PaidFor`, `BusyIsPending` and `PurchaseKept`. `Backed` is the strengthening: every place a
  purchase passes through (paid transactions, the queue, a restore half done, the
  flag of it) holds only what the account has. The queue enters the proof through three
  lemmas on what is queued after a push, a poll, or neither.
- `UnlocksLast`: what is unlocked stays so. `InStep`, that memory and file agree on the
  flag while the program runs, is what keeps a save from taking it back.
- `PaymentsOutlastAllElse`: nobody but the end of the program writes a payment off. It
  bounds what finding 5 can cost, and what `PurchaseKept` excepts.
- `NoRequestStranded`, for `RestoreWorks`: an event may settle a request it was not meant for,
  and still there is always something under way that settles the one that waits.

`Voyage_proofs`, for any maps, cells and islands, and any time between flushes:

- `TypeOK`, `NoLeak`, `NothingForgotten` and `SoonSaved`. The strengthening says who may be behind whom:
  ashore every bucket is in the file and knows all that was seen (`Saved`, `Ashore`); at
  the helm one map may be ahead of its bucket, and only while `_fogDirty` says so
  (`Helm`); no cell has waited longer than the timer has run (`Aged`). Most actions
  are cases of two lemmas: `AshoreStep` changes nothing that was seen, `SettledStep` ends with
  all of it saved.
- `ImplementsContract`, that is `KeepsFog`, an action at a time from the same invariant: a frame
  that flushes is a `Keep`, one that does not a `See`; a load is a `SetOut` only because the file
  holds what the bucket does.
- `IslandsFillInTime`, the step behind `CircledIsFilled`: a circled island is filled in the
  frame that looks, and each frame until then brings that one nearer. `FilledIsLifted` says
  that an island marked as filled really is, which is what lets a look pass it over.

`PirateFight_proofs`, for any times, hits, prizes and batteries:

- all of `pirate_fight` but `VisitEnds`. `FightInv` adds to `Purse`'s invariant that a ship that
  is about has a state and a beaten one does not chase (`Chases`), where the boat can be in
  each phase of the program (`Places`), and `Quiet`: once the pirate is gone every ball left in
  the air comes down before the quiet time is over, which is what keeps it from the next
  one. The proof of a frame goes through its three parts, `PirateTurns`, `CannonTurns` and
  `Settle`, one lemma each.
- `VisitsAreBounded`, the bound behind `VisitEnds`: `FramesLeft` is what is left of the hunt and
  of the longest retreat; a frame at sea lowers it, whatever is fired and hits, and nothing
  else changes it. `OnTime`, that neither clock is past its mark between frames, keeps it
  from below zero.

`Harbour_proofs`, for any maps with two ports, any capacity, with or without a keyboard:

- `TypeOK`, `OneModal`, `OneJob`, `ScreenIsTrue` and `JobsAddUp`. In `Inv`, `Alone` is
  `OneModal` pair by pair and `TrueToWorld` is `ScreenIsTrue` of the world; `Berthed`, that an offer is only on screen when the
  hold is empty, is what makes `OneJob` hold over a capacity of any size; `Manifest`, that the
  cargo is finite and its numbers are of jobs taken, is what counting needs.
- `ImplementsContract`, that is `KeepsJobs`. `HoldOfOne` turns the set `cargo` into one destination;
  `ScreenIsTrue` says that the port of a screen has nothing left to deliver there, so that the next
  screen is no second `Deliver`; `Served`, that what a port offers goes to another port;
  `NotInMenu`, that no screen is up where worlds are loaded.
- `GlidesShorten`, the step behind `GlideEnds`: a frame ends a glide or brings its time-out
  nearer, and nothing but frames touches it.
- `OnlyALeftoverGlide`, the one cause of finding 3, by `Visited`: a glide, and the berth it ends
  in, is at a port the boat has come close to.

`Taps_proofs`, for any debounce, frames of any length, any cards and queue:

- all of `taps`. Presses and releases come in pairs (`Lifts`): whatever is held, its release
  is after it in the queue or the finger is down; `LiftsHere` says the same of the scene.
  `Timely` bounds the wait: a press that has become stale is handled within two frames of
  the switch, and so within the debounce while none of them has hung. `CardSeen`: once a card counts its time, whatever waits was aimed at it.

Only model-checked: `MapIsAnnounced`, `CircledIsFilled`, `GlideEnds`, `VisitEnds` and `RestoreWorks`, and
the violations. Liveness under fairness needs ENABLED, and the descent along a measure an
induction whose theorem takes an operator for a parameter; both are beyond the provers. For the
first four what is missing is only that descent, from steps that are proved. `RestoreWorks`
has no such measure here: mishaps may undo what was gained, and only their number is bounded.

## 5. Findings

Each run that expects a violation shows one trace. Of findings 2 to 4 the theorem named
says that there is no trace of another kind.

1. **One kill loses the save.** The comment above `Game:save` promises that "a
   write killed mid-flight is recoverable", for the good save was rotated before. But only a
   save that changes something rotates. After a fresh install the first save leaves one file
   and no backup; a second save of the same state does not rotate, and still truncates that
   file. Killed in this write, the game finds no readable file. (A kill is survived in a save
   that found both files in order: `SavedIsRecoverable`. By then a changed save has completed.)
2. **A stolen first map resets the cadence.** `everHad` is read off lists that a
   theft empties. (`OnlyATheftHurries`.)
3. **A glide outlives its world.** `World:load` does not reset `latching`: pause in
   a glide, leave, sail again, and the new boat is pulled to the old port. (`OnlyALeftoverGlide`. Arrow keys steer during a
   glide, too, and its time-out opens the screen wherever the boat then is; `Keyboard` is
   `FALSE` in this run to show that they are not needed.)
4. **A cannon is bought in two saves**, the second of which loads it. (`OnlyAKillUnloads`.)
5. **A late purchase is not heard.** The bridge's queue is polled while a request
   waits, not "once per frame". A payment a parent approves after a restart stays in
   it, paid and locked, until the player presses a button of the card again.
   (`PaymentsOutlastAllElse` bounds the loss: it is not forgotten while the program runs.)

## 6. Not modelled

Real-valued geometry (terrain, motion, steering, the camera) and drawing are
out of TLC's reach or keep no state the game depends on. The game is the Lua below `src/`
(some 17 000 lines, a quarter of them comments or blank) and the StoreKit bridge
`ios/storekit/bt_iap.m`. Everything in C and C++ is
LÖVE and its libraries, vendored below `engine/`, over a million lines written elsewhere:
only what the game leans on is modelled, as the game sees it (the event queue, the frame
loop, the write of a file). Of the game's own code the larger part draws, lays out, builds
terrain or is tables of data, and has no state to check. Tests and build scripts are not part of
the program. Developer keys and the profiler are left out: shipped builds do not have them. The hunt is
modelled on one map: progress is kept by map (`mapState`), and `_sinceMap`, which
is not, behaves on several as on one.

## 7. The plan

What would add most, in order of weight:

1. **Algorithms**: `Treasure.mapDue` and `pickIslands`, `Game.visibleBoats`,
   `cannonRate`, `Pirate.stationOffset`, the ring of an island, `Boat:blockLand` on a
   grid, `Fleet:unblockTreasures`, against reference definitions. Each is a few lines over real numbers with
   little state: less is to be found there than in what is modelled.
2. **Scenes, the rest**: the fallback of `applyMap`, the album and the harbour screen's own
   buttons in `Taps`, boats and their names.
3. **Several maps in one hunt**: `TreasureHunt` on two maps, for `_sinceMap`, which they share.
