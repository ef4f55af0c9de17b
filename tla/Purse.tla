------------------------------ MODULE Purse ------------------------------
(***************************************************************************)
(* What the player owns, and when it reaches the save file: the gold,      *)
(* provisions, cannons and cannonballs of Game.state (src/game.lua), and   *)
(* the shop that sells them (src/ui/portscreen.lua).                       *)
(*                                                                         *)
(* Each operation is one call into Game and saves as that call does; a     *)
(* save is atomic here (SaveStore opens it up).  Buying a cannon is two    *)
(* calls, and so two saves.  PirateFight puts these operations to work.    *)
(***************************************************************************)
EXTENDS Integers

CONSTANTS
  Food,         \* the provisions of data/shop.lua
  FoodPrice, CannonPrice, AmmoPrice,
  Crate,        \* balls in a crate of kanonkuler
  StartAmmo,    \* config.CANNON.START_AMMO
  HitGold,      \* config.PIRATE.HIT_GOLD
  Reward,       \* what deliveries, chests and beaten pirates pay
  Missing,      \* a key that an old save file does not have
  MaxCoins, MaxAmmo, MaxStock   \* bounds: nothing is earned, bought or laid
                                \* in beyond these

ASSUME PricesAssumption ==
  /\ FoodPrice \in [Food -> Nat]
  /\ {CannonPrice, AmmoPrice, Crate, StartAmmo, HitGold} \subseteq Nat
  /\ Reward \subseteq Nat
ASSUME MissingAssumption == Missing \notin Nat
ASSUME BoundsAssumption == {MaxCoins, MaxAmmo, MaxStock} \subseteq Nat

VARIABLES
  pc,      \* "off", "play", or "loading": between the two saves of a cannon
  purse,   \* Game.state: coins, owned.cannon, cannons, ammo, food
  disk     \* the same in the save file

pvars == <<pc, purse, disk>>

(* `armed` is a history: the cannons aboard whose balls came with them. *)
Purses(count) ==
  [coins : Nat, owned : BOOLEAN, cannons : count, ammo : count,
   food : [Food -> Nat], armed : Nat]

TypeOK ==
  /\ pc \in {"off", "play", "loading"}
  /\ purse \in Purses(Nat)
  /\ disk \in Purses(Nat \cup {Missing})

DefaultState ==
  [coins |-> 0, owned |-> FALSE, cannons |-> 0, ammo |-> 0,
   food |-> [f \in Food |-> 0], armed |-> 0]

(* Saves written before balls, or cannons, were counted. *)
OldSave(o, n) ==
  [DefaultState EXCEPT !.owned = o, !.cannons = IF o THEN Missing ELSE 0,
                       !.ammo = n, !.armed = IF o THEN 1 ELSE 0]

OldSaves == {OldSave(FALSE, Missing), OldSave(TRUE, Missing), OldSave(TRUE, 1)}

Init ==
  /\ pc = "off"
  /\ purse = DefaultState
  /\ disk \in {DefaultState} \cup OldSaves

-----------------------------------------------------------------------------
(* The program starts and ends. *)

NoMigration(d) ==
  [d EXCEPT !.ammo = IF @ # Missing THEN @
                     ELSE IF d.owned THEN StartAmmo ELSE 0,
            !.cannons = IF @ # Missing THEN @ ELSE 0]

(* loadSave: a cannon owner of an old save starts loaded, that cannon
   counted. *)
Loaded(d) ==
  [d EXCEPT !.ammo = IF @ # Missing THEN @
                     ELSE IF d.owned THEN StartAmmo ELSE 0,
            !.cannons = IF @ # Missing THEN @
                        ELSE IF d.owned THEN 1 ELSE 0]

Start ==
  /\ pc = "off"
  /\ pc' = "play"
  /\ purse' = Loaded(disk)
  /\ UNCHANGED disk

(* Between two handlers, or between the two saves of a cannon. *)
Kill ==
  /\ pc # "off"
  /\ pc' = "off"
  /\ purse' = DefaultState
  /\ UNCHANGED disk

Save == disk' = purse'

(* onBlur, quit, a new discovery, ...: a save with nothing else here. *)
SaveNow ==
  /\ pc = "play"
  /\ UNCHANGED <<pc, purse>>
  /\ Save

(* newGame keeps none of this. *)
NewGame ==
  /\ pc = "play"
  /\ purse' = DefaultState
  /\ Save
  /\ UNCHANGED pc

-----------------------------------------------------------------------------
(* Gold. *)

AddCoins(n) ==
  /\ purse' = [purse EXCEPT !.coins = @ + n]
  /\ Save

Earn ==
  /\ pc = "play"
  /\ purse.coins <= MaxCoins
  /\ \E n \in Reward : AddCoins(n)
  /\ UNCHANGED pc

Loss(coins) == IF HitGold < coins THEN HitGold ELSE coins

(* pirateHit: with nothing to lose nothing is saved. *)
Robbed ==
  /\ pc = "play"
  /\ IF Loss(purse.coins) > 0
     THEN AddCoins(-Loss(purse.coins))
     ELSE UNCHANGED <<purse, disk>>
  /\ UNCHANGED pc

-----------------------------------------------------------------------------
(* What is used up. *)

(* useAmmo does not save. *)
UseAmmo ==
  /\ pc = "play"
  /\ purse.owned
  /\ purse.ammo > 0
  /\ purse' = [purse EXCEPT !.ammo = @ - 1]
  /\ UNCHANGED <<pc, disk>>

(* What eatFood may leave of the provisions: it takes one of the largest
   stock. *)
Eaten(food) ==
  {[food EXCEPT ![f] = @ - 1] :
     f \in {g \in Food : food[g] > 0 /\ \A h \in Food : food[h] <= food[g]}}

EatFood ==
  /\ pc = "play"
  /\ \E left \in Eaten(purse.food) : purse' = [purse EXCEPT !.food = left]
  /\ Save
  /\ UNCHANGED pc

-----------------------------------------------------------------------------
(* The shop: tryBuy. *)

CanPay(price) == pc = "play" /\ purse.coins >= price

BuyFood ==
  /\ \E f \in Food :
       /\ CanPay(FoodPrice[f])
       /\ purse.food[f] < MaxStock
       /\ purse' = [purse EXCEPT !.coins = @ - FoodPrice[f], !.food[f] = @ + 1]
  /\ Save
  /\ UNCHANGED pc

(* The crates of kanonkuler are only on show with a cannon aboard.  The gold
   and the balls are in one save. *)
BuyAmmo ==
  /\ CanPay(AmmoPrice)
  /\ purse.cannons >= 1
  /\ purse.ammo <= MaxAmmo
  /\ purse' = [purse EXCEPT !.coins = @ - AmmoPrice, !.ammo = @ + Crate]
  /\ Save
  /\ UNCHANGED pc

(* A cannon: buyCannon saves ... *)
BuyCannon ==
  /\ CanPay(CannonPrice)
  /\ purse.ammo <= MaxAmmo /\ purse.cannons < MaxStock
  /\ purse' = [purse EXCEPT !.coins = @ - CannonPrice,
                            !.owned = TRUE, !.cannons = @ + 1]
  /\ Save
  /\ pc' = "loading"

(* ... and then addAmmo does. *)
LoadCannon ==
  /\ pc = "loading"
  /\ purse' = [purse EXCEPT !.ammo = @ + StartAmmo, !.armed = @ + 1]
  /\ Save
  /\ pc' = "play"

-----------------------------------------------------------------------------
Next ==
  \/ Start \/ Kill \/ SaveNow \/ NewGame
  \/ Earn \/ Robbed
  \/ UseAmmo \/ EatFood
  \/ BuyFood \/ BuyAmmo \/ BuyCannon \/ LoadCannon

Spec == Init /\ [][Next]_pvars

-----------------------------------------------------------------------------
(* "The count rides along on the next natural save" (useAmmo), and nothing but
   the count: a kill takes nothing the player has.  All that memory and the
   save file ever disagree about are shots already fired, which a restart
   gives back.  An old save agrees with what it is read as. *)
OnlyShotsUnsaved ==
  pc # "off" =>
    LET saved == Loaded(disk) IN
    /\ saved = [purse EXCEPT !.ammo = saved.ammo]
    /\ saved.ammo >= purse.ammo

(* The three records of a cannon agree, whatever the age of the save: owned
   (which lets the cannon fire), cannons (which sets its pace and puts crates
   on show), and the balls, which nobody has without one. *)
ArmsAgree ==
  /\ purse.owned <=> purse.cannons > 0
  /\ purse.ammo > 0 => purse.owned

(* "comes loaded" (tryBuy) and "balls included with each cannon"
   (config.CANNON.START_AMMO): every cannon in the save a start reads has had
   its balls. *)
ComesLoaded == pc = "off" => disk.armed = Loaded(disk).cannons
==========================================================================
