--------------------------- MODULE PirateFight ---------------------------
(***************************************************************************)
(* The hunting pirate, the player's cannon, and the gold that changes      *)
(* hands (World:updatePirate, pirateHit and cannonHitPirate, Pirate:update *)
(* and Boat:updateCannon), over the purse of Purse.                        *)
(*                                                                         *)
(* Time is counted in World:update frames, and a frame is one action.      *)
(* Distances and flight paths are left open: any ball in the air may hit   *)
(* or miss in any frame, any shot may be in range, and a pirate may be out *)
(* of reach for long enough at any time.  Pausing freezes all of this, and *)
(* is left out; so are the gold of chests and the developer keys.          *)
(***************************************************************************)
EXTENDS Purse, FiniteSetsExt

CONSTANTS
  ScareHits,     \* config.CANNON.SCARE_HITS
  DropGold,      \* config.PIRATE.DROP_GOLD
  PirateBalls,   \* the most pirate balls in the air: one flies 3.2 s at most,
                 \* and they are fired 2.8 s apart
  BallLife,      \* frames a ball of ours flies at most
  SpawnGrace, RespawnGrace, HuntTime, RetreatMax,   \* config.PIRATE, in frames
  MaxShots       \* bound: our balls in the air

ASSUME FightAssumption ==
  /\ {ScareHits, BallLife, SpawnGrace, RespawnGrace} \subseteq Nat \ {0}
  /\ {DropGold, PirateBalls, HuntTime, RetreatMax, MaxShots} \subseteq Nat
  /\ HitGold > 0
(* 2.8 s against 25 s. *)
ASSUME GraceAssumption == BallLife < RespawnGrace

VARIABLES
  at,        \* "menu", "sea" or "dock"
  pirate,    \* World.pirate: state, hits, balls in the air, and huntT or,
             \* when it retreats, retreatT
  cooldown,  \* World.pirateCooldown
  own        \* Boat.balls: how many frames each has left to fly, 0 for none

fight == <<pirate, cooldown, own>>
vars == <<pvars, at, fight>>

NoPirate == [state |-> "none", hits |-> 0, balls |-> 0, time |-> 0]
NewPirate == [NoPirate EXCEPT !.state = "chase"]

(* A ball of ours has one of MaxShots places while it flies. *)
Shots == 1..MaxShots
NoBalls == [s \in Shots |-> 0]
Flying(balls) == {s \in Shots : balls[s] > 0}

(* fireCannon: the further its target, the longer a ball flies. *)
Fired(balls) ==
  {[balls EXCEPT ![s] = k] : s \in Shots \ Flying(balls), k \in 1..BallLife}


Longest == Max({SpawnGrace, RespawnGrace})

FightTypeOK ==
  /\ TypeOK
  /\ at \in {"menu", "sea", "dock"}
  /\ pirate \in [state : {"none", "chase", "retreat"}, hits : 0..ScareHits,
                 balls : 0..PirateBalls, time : 0..Max({HuntTime, RetreatMax})]
  /\ cooldown \in 0..Longest
  /\ own \in [Shots -> 0..BallLife]

FightInit ==
  /\ Init
  /\ at = "menu"
  /\ pirate = NoPirate
  /\ cooldown = 0
  /\ own = NoBalls

-----------------------------------------------------------------------------
(* Ashore. *)

(* World:load: a new boat, and no pirate for a while. *)
LoadWorld ==
  /\ pc = "play" /\ at = "menu"
  /\ at' = "sea"
  /\ pirate' = NoPirate
  /\ cooldown' = SpawnGrace
  /\ own' = NoBalls
  /\ SaveNow \/ UNCHANGED pvars

ExitToMenu ==
  /\ at = "sea"
  /\ at' = "menu"
  /\ SaveNow \/ NewGame
  /\ UNCHANGED fight

SwitchOn == Start /\ UNCHANGED <<at, fight>>

SwitchOff ==
  /\ Kill
  /\ at' = "menu"
  /\ pirate' = NoPirate /\ cooldown' = 0 /\ own' = NoBalls

Blur == SaveNow /\ UNCHANGED <<at, fight>>

Shop ==
  /\ at = "dock"
  /\ BuyFood \/ BuyAmmo \/ BuyCannon \/ LoadCannon
  /\ UNCHANGED <<at, fight>>

(* PortScreen:confirm.  The one-time hint about the arrow saves. *)
CastOff ==
  /\ pc = "play" /\ at = "dock"
  /\ at' = "sea"
  /\ SaveNow \/ UNCHANGED pvars
  /\ UNCHANGED fight

GraceOnlyAtSea == cooldown

(* Harbours are always safe: a pirate breaks off when the boat docks. *)
GraceAfterDock == IF pirate = NoPirate THEN cooldown ELSE RespawnGrace

(* openDock, with or without a delivery. *)
OpenDock ==
  /\ pc = "play" /\ at = "sea"
  /\ at' = "dock"
  /\ pirate' = NoPirate
  /\ cooldown' = GraceAfterDock
  /\ Earn \/ UNCHANGED pvars
  /\ UNCHANGED own

-----------------------------------------------------------------------------
(* A frame at sea: first the pirate. *)

Flee(p) ==
  IF p.state = "chase" THEN [p EXCEPT !.state = "retreat", !.time = 0] ELSE p

RobbedOfMore(coins, hits) == coins - hits * HitGold

(* pirateHit, for every ball that hits in this frame. *)
RobbedOf(coins, hits) ==
  IF hits * HitGold < coins THEN coins - hits * HitGold ELSE 0

RobsOn(p, hits, coins) == p

(* With nothing left to steal it leaves. *)
Robs(p, hits, coins) == IF hits > 0 /\ coins = 0 THEN Flee(p) ELSE p

RetreatsAnew(p, far) ==
  IF p.state = "chase"
  THEN IF far \/ p.time > HuntTime THEN Flee(p) ELSE p
  ELSE IF far THEN NoPirate
  ELSE IF p.time > RetreatMax THEN [p EXCEPT !.time = 0] ELSE p

(* The end of Pirate:update: it gives up when it has been left behind (`far`)
   or its time is up, and is gone for good when it is far off or has fled for
   long enough. *)
Tires(p, far) ==
  IF p.state = "chase"
  THEN IF far \/ p.time > HuntTime THEN Flee(p) ELSE p
  ELSE IF far \/ p.time > RetreatMax THEN NoPirate ELSE p

(* Pirate:update may fire a ball, and of those in the air some hit, some fall
   short and the others fly on. *)
Volleys ==
  {a \in [fired : {0, 1}, hits : 0..PirateBalls, left : 0..PirateBalls] :
     /\ a.fired = 1 => pirate.state = "chase" /\ pirate.balls < PirateBalls
     /\ a.hits + a.left <= pirate.balls + a.fired}

(* What comes out of it: the pirate and the coins. *)
AfterVolley(a, far) ==
  LET c == RobbedOf(purse.coins, a.hits)
      p == Robs([pirate EXCEPT !.balls = a.left], a.hits, c)
  IN [pirate |-> Tires([p EXCEPT !.time = @ + 1], far), coins |-> c]

PirateUpdates == {AfterVolley(a, far) : a \in Volleys, far \in BOOLEAN}

(* What updatePirate may bring: the pirate, the coins and the quiet time.
   With no pirate about, one may turn up when the boat sails with gold aboard
   and the quiet time is over. *)
PirateTurns ==
  IF pirate # NoPirate THEN
    {[pirate |-> u.pirate, coins |-> u.coins,
      cooldown |-> IF u.pirate = NoPirate THEN RespawnGrace ELSE cooldown] :
       u \in PirateUpdates}
  ELSE
    LET quieter == IF cooldown > 0 THEN cooldown - 1 ELSE 0
        about == {NoPirate} \cup
                 IF quieter = 0 /\ purse.coins <= MaxCoins THEN {NewPirate} ELSE {}
        turn(p, g) == [pirate |-> p, coins |-> purse.coins, cooldown |-> g]
    IN {turn(NoPirate, cooldown)} \cup
       IF purse.coins > 0 THEN {turn(p, quieter) : p \in about} ELSE {}

-----------------------------------------------------------------------------
(* Then the cannon. *)

Prize(scared) == IF scared THEN DropGold ELSE 0

StruckNotDriven(p, hits) == [p EXCEPT !.hits = Min({@ + hits, ScareHits})]

(* cannonHitPirate, for every ball that hits in this frame: once it flees the
   pirate takes no more of them. *)
Struck(p, hits) ==
  LET n == Min({p.hits + hits, ScareHits}) IN
  IF n = ScareHits THEN [Flee(p) EXCEPT !.hits = n]
  ELSE [p EXCEPT !.hits = n]

(* A ball that hits is spent; the others have a frame less to fly. *)
Onward(balls, hit) ==
  [s \in Shots |-> IF s \in hit \/ balls[s] = 0 THEN 0 ELSE balls[s] - 1]

(* Only a pirate in the chase is a target, and it is one for the whole
   frame. *)
Strikes(p) == IF p.state = "chase" THEN SUBSET Flying(own) ELSE {{}}

CannonTurn(p, hit, balls, fired) ==
  [pirate |-> IF hit # {} THEN Struck(p, Cardinality(hit)) ELSE p,
   own    |-> balls,
   won    |-> Prize(hit # {} /\ p.hits + Cardinality(hit) >= ScareHits),
   fired  |-> fired]

MayFire(p) == p.state = "chase" /\ purse.ammo > 0

(* What updateCannon may bring, with a cannon aboard and p the pirate of this
   frame: the pirate, our balls, the gold it drops and the balls fired. *)
CannonTurns(p) ==
  UNION {
    {CannonTurn(p, hit, Onward(own, hit), 0)} \cup
    {CannonTurn(p, hit, balls, 1) :
       balls \in IF MayFire(p) THEN Fired(Onward(own, hit)) ELSE {}} :
      hit \in Strikes(p)}

NoCannon(p) == [pirate |-> p, own |-> own, won |-> 0, fired |-> 0]

(* A tap on the pirate fires at once. *)
TapFire ==
  /\ at = "sea"
  /\ pirate.state = "chase"
  /\ UseAmmo
  /\ own' \in Fired(own)
  /\ UNCHANGED <<at, pirate, cooldown>>

-----------------------------------------------------------------------------
RobberySaved(lost, won) == won > 0

(* Both go through addCoins, which saves; a shot saves nothing. *)
GoldSaved(lost, won) == lost > 0 \/ won > 0

(* A frame's robberies leave so many coins; then a prize is won, a ball fired
   and a bite of the provisions taken (updateEating, which saves). *)
Settle(coins, won, fired, left) ==
  LET gold == [purse EXCEPT !.coins = coins + won] IN
  /\ purse' = [gold EXCEPT !.ammo = @ - fired, !.food = left]
  /\ disk' = IF left # purse.food THEN purse'
             ELSE IF GoldSaved(purse.coins - coins, won) THEN gold
             ELSE disk

(* World:update out of a glide's last frame: the pirate, the cannon, and what
   they do to the purse. *)
SailOn ==
  /\ pc = "play" /\ at = "sea"
  /\ \E u \in PirateTurns :
     \E v \in IF purse.owned THEN CannonTurns(u.pirate) ELSE {NoCannon(u.pirate)},
        left \in {purse.food} \cup Eaten(purse.food) :
       /\ pirate' = v.pirate
       /\ cooldown' = u.cooldown
       /\ own' = v.own
       /\ Settle(u.coins, v.won, v.fired, left)
  /\ UNCHANGED <<pc, at>>

FightNext ==
  \/ SwitchOn \/ SwitchOff \/ Blur
  \/ LoadWorld \/ ExitToMenu
  \/ OpenDock \/ Shop \/ CastOff
  \/ TapFire \/ SailOn

(* The game loop calls World:update, and the player does not leave the game
   paused for good. *)
FightSpec == FightInit /\ [][FightNext]_vars /\ WF_vars(SailOn)

-----------------------------------------------------------------------------
(* "Harbours are always safe" (openDock), and "going broke makes the pirate
   give up" (above pirateHit), whatever made the player broke: nobody hunts a
   boat in harbour or without gold. *)
HuntsOnlyTheRich ==
  /\ at = "dock" => pirate = NoPirate
  /\ at = "sea" /\ pirate.state = "chase" => purse.coins > 0

(* "the prize": gold comes in at sea only when the last of ScareHits balls
   drives off a pirate that was in the chase, once for that pirate, however
   many balls are in the air and however they hit. *)
PrizeOnce ==
  [][at = "sea" /\ at' = "sea" /\ purse'.coins > purse.coins =>
       /\ pirate.state = "chase" /\ pirate.hits < ScareHits
       /\ pirate'.state = "retreat" /\ pirate'.hits = ScareHits
       /\ purse'.coins <= purse.coins + DropGold]_vars

(* A ball fired at one pirate never meets the next: none is in the air when a
   pirate turns up, harbour visits in between included. *)
NoBallOutlivesItsPirate ==
  [][pirate = NoPirate /\ pirate' # NoPirate => own = NoBalls]_vars

(* "robbery visits are bounded", "bounded either way: chasing a fleeing pirate
   can't keep it alive" (Pirate:update): every pirate is gone in the end, shot
   at or not. *)
VisitEnds == pirate # NoPirate /\ at = "sea" ~> pirate = NoPirate \/ at # "sea"
==========================================================================
