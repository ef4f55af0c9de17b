--------------------------- MODULE Purse_proofs ---------------------------
(***************************************************************************)
(* The purse for all prices, stocks and old saves: types, OnlyShotsUnsaved *)
(* and ArmsAgree.  ArmsAgree speaks of memory; SavedArmsAgree says it of   *)
(* what the save file would be read as, which the next start makes memory, *)
(* and LoadingOwned that the balls of a cannon come after the cannon.      *)
(* Then the one cause of the cannon that comes empty (PurseLoading), and   *)
(* that cannons last.                                                      *)
(***************************************************************************)
EXTENDS Purse, TLAPS

Agree(p) ==
  /\ p.owned <=> p.cannons > 0
  /\ p.ammo > 0 => p.owned

SavedArmsAgree == Agree(Loaded(disk))

LoadingOwned == pc = "loading" => purse.owned

Inv == TypeOK /\ OnlyShotsUnsaved /\ ArmsAgree /\ SavedArmsAgree /\ LoadingOwned

(* loadSave leaves a count in place of every missing key, and a save with all
   its keys alone. *)
LEMMA LoadedType ==
  ASSUME NEW d \in Purses(Nat \cup {Missing}) PROVE Loaded(d) \in Purses(Nat)
BY PricesAssumption, MissingAssumption DEF Purses, Loaded

LEMMA LoadedSame ==
  ASSUME NEW d \in Purses(Nat) PROVE Loaded(d) = d /\ d \in Purses(Nat \cup {Missing})
BY MissingAssumption DEF Purses, Loaded

LEMMA DefaultType == DefaultState \in Purses(Nat) /\ Agree(DefaultState)
BY DEF DefaultState, Purses, Agree

(* An operation that saves leaves nothing to disagree about: the new purse
   need only be one in which the arms agree. *)
LEMMA SavingStep ==
  ASSUME purse' \in Purses(Nat), Save, Agree(purse)', pc' \in {"play", "loading"},
         LoadingOwned'
  PROVE  Inv'
<1>1. disk' \in Purses(Nat \cup {Missing}) /\ Loaded(disk)' = purse'
  BY LoadedSame DEF Save, Loaded
<1>2. OnlyShotsUnsaved'
  <2>1. purse' = [purse' EXCEPT !.ammo = purse'.ammo] /\ purse'.ammo \in Nat
    BY DEF Purses
  <2> QED BY <1>1, <2>1 DEF OnlyShotsUnsaved
<1> QED BY <1>1, <1>2 DEF Inv, TypeOK, ArmsAgree, SavedArmsAgree, Agree

LEMMA EatenType ==
  ASSUME NEW food \in [Food -> Nat], NEW left \in Eaten(food) PROVE left \in [Food -> Nat]
<1>1. PICK f \in Food : food[f] > 0 /\ left = [food EXCEPT ![f] = food[f] - 1]
  BY DEF Eaten
<1>2. food[f] - 1 \in Nat
  BY <1>1
<1> QED BY <1>1, <1>2

-----------------------------------------------------------------------------
LEMMA InitInv == Init => Inv
<1> SUFFICES ASSUME Init PROVE Inv
  OBVIOUS
<1>1. CASE disk = DefaultState
  BY <1>1, DefaultType, LoadedSame DEF Init, Inv, TypeOK, OnlyShotsUnsaved, ArmsAgree,
     SavedArmsAgree, LoadingOwned, Agree
<1>2. CASE disk \in OldSaves
  <2>1. PICK o \in BOOLEAN, n \in {Missing, 1} :
          /\ o \/ n = Missing
          /\ disk = OldSave(o, n)
    BY <1>2 DEF OldSaves
  <2>2. disk \in Purses(Nat \cup {Missing})
    <3>1. disk = [coins |-> 0, owned |-> o, cannons |-> IF o THEN Missing ELSE 0,
                  ammo |-> n, food |-> [f \in Food |-> 0],
                  armed |-> IF o THEN 1 ELSE 0]
      BY <2>1 DEF OldSave, DefaultState
    <3>2. (IF o THEN Missing ELSE 0) \in Nat \cup {Missing} /\ n \in Nat \cup {Missing}
          /\ (IF o THEN 1 ELSE 0) \in Nat /\ [f \in Food |-> 0] \in [Food -> Nat]
      OBVIOUS
    <3> QED BY <3>1, <3>2 DEF Purses
  <2>3. SavedArmsAgree
    BY <2>1, PricesAssumption, MissingAssumption DEF OldSave, DefaultState, SavedArmsAgree, LoadingOwned, Agree,
       Loaded
  <2> QED
    BY <2>2, <2>3, DefaultType DEF Init, Inv, TypeOK, OnlyShotsUnsaved, ArmsAgree,
       SavedArmsAgree, LoadingOwned, Agree
<1> QED BY <1>1, <1>2 DEF Init

LEMMA StepInv == Inv /\ [Next]_pvars => Inv'
<1> SUFFICES ASSUME Inv, [Next]_pvars PROVE Inv'
  OBVIOUS
<1>0. /\ purse \in Purses(Nat) /\ disk \in Purses(Nat \cup {Missing})
      /\ OnlyShotsUnsaved /\ Agree(purse) /\ SavedArmsAgree /\ LoadingOwned
  BY DEF Inv, TypeOK, ArmsAgree, Agree
<1>1. CASE Start
  <2>1. purse' \in Purses(Nat) /\ purse' = Loaded(disk)' /\ Agree(purse)'
    BY <1>0, <1>1, LoadedType DEF Start, SavedArmsAgree, LoadingOwned, Agree, Loaded
  <2>2. purse' = [purse' EXCEPT !.ammo = purse'.ammo] /\ purse'.ammo \in Nat
    BY <2>1 DEF Purses
  <2> QED BY <1>0, <1>1, <2>1, <2>2 DEF Start, Inv, TypeOK, OnlyShotsUnsaved, ArmsAgree,
             SavedArmsAgree, LoadingOwned, Agree
<1>2. CASE Kill
  BY <1>0, <1>2, DefaultType DEF Kill, Inv, TypeOK, OnlyShotsUnsaved, ArmsAgree,
     SavedArmsAgree, LoadingOwned, Agree, Loaded
<1>3. CASE SaveNow \/ NewGame
  BY <1>0, <1>3, SavingStep, DefaultType DEF SaveNow, NewGame, LoadingOwned, Agree
<1>4. CASE Earn
  <2>1. PICK n \in Reward : AddCoins(n)
    BY <1>4 DEF Earn
  <2>2. purse.coins + n \in Nat
    BY <1>0, <2>1, PricesAssumption DEF Purses
  <2>3. purse' \in Purses(Nat) /\ Agree(purse)'
    BY <1>0, <2>1, <2>2 DEF AddCoins, Purses, Agree
  <2> QED BY <1>4, <2>1, <2>3, SavingStep DEF Earn, AddCoins, LoadingOwned
<1>5. CASE Robbed
  <2>1. CASE Loss(purse.coins) > 0
    <3>1. purse.coins + (-Loss(purse.coins)) \in Nat
      BY <1>0, PricesAssumption DEF Loss, Purses
    <3>2. purse' \in Purses(Nat) /\ Agree(purse)' /\ Save
      BY <1>0, <1>5, <2>1, <3>1 DEF Robbed, AddCoins, Purses, Agree
    <3> QED BY <1>5, <3>2, SavingStep DEF Robbed, LoadingOwned
  <2>2. CASE ~(Loss(purse.coins) > 0)
    BY <1>5, <2>2 DEF Robbed, Inv, TypeOK, OnlyShotsUnsaved, ArmsAgree, SavedArmsAgree, LoadingOwned,
       Agree, Loaded
  <2> QED BY <2>1, <2>2
<1>6. CASE UseAmmo
  <2>1. purse.ammo - 1 \in Nat /\ purse' = [purse EXCEPT !.ammo = purse.ammo - 1]
    BY <1>0, <1>6 DEF UseAmmo, Purses
  <2>2. purse' \in Purses(Nat) /\ Agree(purse)'
    BY <1>0, <1>6, <2>1 DEF UseAmmo, Purses, Agree
  <2>3. Loaded(disk) \in Purses(Nat) /\ Loaded(disk)' = Loaded(disk)
    BY <1>0, <1>6, LoadedType DEF UseAmmo, Loaded
  <2>4. /\ Loaded(disk) = [purse EXCEPT !.ammo = Loaded(disk).ammo]
        /\ Loaded(disk).ammo >= purse.ammo
    BY <1>0, <1>6 DEF UseAmmo, OnlyShotsUnsaved
  <2>5. /\ Loaded(disk) = [purse' EXCEPT !.ammo = Loaded(disk).ammo]
        /\ Loaded(disk).ammo >= purse'.ammo
    <3>1. \A n : [purse' EXCEPT !.ammo = n] = [purse EXCEPT !.ammo = n]
      BY <1>0, <2>1 DEF Purses
    <3>2. purse'.ammo = purse.ammo - 1 /\ purse.ammo \in Nat /\ Loaded(disk).ammo \in Nat
      BY <1>0, <2>1, <2>3 DEF Purses
    <3>3. Loaded(disk).ammo >= purse'.ammo
      BY <2>4, <3>2
    <3> QED BY <2>4, <3>1, <3>3, Zenon
  <2> QED BY <1>0, <1>6, <2>2, <2>3, <2>5 DEF UseAmmo, Inv, TypeOK, OnlyShotsUnsaved,
             ArmsAgree, SavedArmsAgree, LoadingOwned, Agree
<1>7. CASE EatFood
  <2>1. PICK left \in Eaten(purse.food) : purse' = [purse EXCEPT !.food = left]
    BY <1>7 DEF EatFood
  <2>2. left \in [Food -> Nat]
    BY <1>0, EatenType DEF Purses
  <2>3. purse' \in Purses(Nat) /\ Agree(purse)'
    BY <1>0, <2>1, <2>2 DEF Purses, Agree
  <2> QED BY <1>7, <2>3, SavingStep DEF EatFood, LoadingOwned
<1>8. CASE BuyFood
  <2>1. PICK f \in Food :
          /\ purse.coins >= FoodPrice[f]
          /\ purse' = [purse EXCEPT !.coins = @ - FoodPrice[f], !.food[f] = @ + 1]
    BY <1>8 DEF BuyFood, CanPay
  <2>2. /\ purse.coins - FoodPrice[f] \in Nat
        /\ [purse.food EXCEPT ![f] = @ + 1] \in [Food -> Nat]
    BY <1>0, <2>1, PricesAssumption DEF Purses
  <2>3. purse' \in Purses(Nat) /\ Agree(purse)'
    BY <1>0, <2>1, <2>2 DEF Purses, Agree
  <2> QED BY <1>8, <2>3, SavingStep DEF BuyFood, CanPay, LoadingOwned
<1>9. CASE BuyAmmo
  <2>1. purse.coins - AmmoPrice \in Nat /\ purse.ammo + Crate \in Nat
    BY <1>0, <1>9, PricesAssumption DEF BuyAmmo, CanPay, Purses
  <2>2. purse' \in Purses(Nat)
    BY <1>0, <1>9, <2>1 DEF BuyAmmo, Purses
  <2>3. purse'.owned = purse.owned /\ purse'.cannons = purse.cannons /\ purse.cannons \in Nat
    BY <1>0, <1>9 DEF BuyAmmo, Purses
  <2>4. Agree(purse)'
    BY <1>0, <1>9, <2>3 DEF BuyAmmo, Agree
  <2> QED BY <1>9, <2>2, <2>4, SavingStep DEF BuyAmmo, CanPay, LoadingOwned
<1>10. CASE BuyCannon
  <2>1. purse.coins - CannonPrice \in Nat /\ purse.cannons + 1 \in Nat
    BY <1>0, <1>10, PricesAssumption DEF BuyCannon, CanPay, Purses
  <2>2. purse' \in Purses(Nat)
    BY <1>0, <1>10, <2>1 DEF BuyCannon, Purses
  <2>3. purse'.owned /\ purse'.cannons = purse.cannons + 1 /\ purse.cannons \in Nat
    BY <1>0, <1>10 DEF BuyCannon, Purses
  <2>4. Agree(purse)' /\ LoadingOwned'
    BY <2>3 DEF LoadingOwned, Agree
  <2> QED BY <1>10, <2>2, <2>4, SavingStep DEF BuyCannon
<1>11. CASE LoadCannon
  <2>1. purse.ammo + StartAmmo \in Nat /\ purse.armed + 1 \in Nat
    BY <1>0, PricesAssumption DEF Purses
  <2>2. purse' \in Purses(Nat) /\ Agree(purse)'
    BY <1>0, <1>11, <2>1 DEF LoadCannon, LoadingOwned, Purses, Agree
  <2> QED BY <1>11, <2>2, SavingStep DEF LoadCannon, LoadingOwned
<1>12. CASE UNCHANGED pvars
  BY <1>12 DEF pvars, Inv, TypeOK, OnlyShotsUnsaved, ArmsAgree, SavedArmsAgree, LoadingOwned, Agree,
     Loaded
<1> QED
  BY <1>1, <1>2, <1>3, <1>4, <1>5, <1>6, <1>7, <1>8, <1>9, <1>10, <1>11, <1>12 DEF Next
-----------------------------------------------------------------------------
LEMMA InvHolds == Spec => []Inv
BY InitInv, StepInv, PTL DEF Spec

(* Counts stay counts, whatever is bought, earned, lost, eaten or fired. *)
THEOREM TypeCorrect == Spec => []TypeOK
<1>1. Inv => TypeOK
  BY DEF Inv
<1> QED BY <1>1, InvHolds, PTL

(* useAmmo's "The count rides along on the next natural save": memory and save
   file differ by shots fired, and by nothing else. *)
THEOREM OnlyShotsAreUnsaved == Spec => []OnlyShotsUnsaved
<1>1. Inv => OnlyShotsUnsaved
  BY DEF Inv
<1> QED BY <1>1, InvHolds, PTL

(* Cannons, the right to fire them and balls agree, with every old save. *)
THEOREM ArmsAlwaysAgree == Spec => []ArmsAgree
<1>1. Inv => ArmsAgree
  BY DEF Inv
<1> QED BY <1>1, InvHolds, PTL
-----------------------------------------------------------------------------
(* What makes ComesLoaded fail (PurseLoading) is one kill: the one between the
   two saves of a cannon.  Where that never happens, the cannons and the balls
   that came with them are counted alike, in memory and in the file. *)
NeverKilledLoading == [][Kill => pc # "loading"]_pvars

Manned ==
  /\ pc = "play" => purse.armed = purse.cannons
  /\ pc = "loading" => purse.armed + 1 = purse.cannons
  /\ pc # "loading" => disk.armed = Loaded(disk).cannons

LEMMA MannedInit == Init => Manned
<1> SUFFICES ASSUME Init PROVE disk.armed = Loaded(disk).cannons
  BY DEF Init, Manned
<1>1. CASE disk = DefaultState
  BY <1>1, MissingAssumption DEF DefaultState, Loaded
<1>2. CASE disk \in OldSaves
  BY <1>2, MissingAssumption DEF OldSaves, OldSave, DefaultState, Loaded
<1> QED BY <1>1, <1>2 DEF Init

(* A save of a purse that is in play is of one as it should be. *)
LEMMA MannedSave ==
  ASSUME purse' \in Purses(Nat), Save, pc' = "play", purse'.armed = purse'.cannons
  PROVE  Manned'
<1>1. Loaded(disk)' = purse'
  BY LoadedSame DEF Save, Loaded
<1> QED BY <1>1 DEF Manned, Save

LEMMA MannedStep ==
  ASSUME Inv, Manned, Inv', [Next]_pvars, Kill => pc # "loading"
  PROVE  Manned'
<1>0. /\ purse \in Purses(Nat) /\ disk \in Purses(Nat \cup {Missing})
      /\ purse' \in Purses(Nat)
  BY DEF Inv, TypeOK
<1>1. CASE Start
  <2>1. Loaded(disk).armed = disk.armed
    BY <1>0 DEF Loaded, Purses
  <2> QED BY <1>1, <2>1 DEF Start, Manned, Loaded
<1>2. CASE Kill
  BY <1>2 DEF Kill, Manned, Loaded
<1>3. CASE NewGame
  BY <1>0, <1>3, MannedSave DEF NewGame, DefaultState
<1>4. CASE SaveNow \/ Earn \/ EatFood \/ BuyFood \/ BuyAmmo
  <2>1. pc = "play" /\ pc' = "play" /\ Save
    BY <1>4 DEF SaveNow, Earn, AddCoins, EatFood, BuyFood, BuyAmmo, CanPay
  <2>2. purse'.armed = purse.armed /\ purse'.cannons = purse.cannons
    <3>1. CASE SaveNow
      BY <3>1 DEF SaveNow
    <3>2. CASE Earn
      BY <1>0, <3>2 DEF Earn, AddCoins, Purses
    <3>3. CASE EatFood
      BY <1>0, <3>3 DEF EatFood, Purses
    <3>4. CASE BuyFood
      BY <1>0, <3>4 DEF BuyFood, Purses
    <3>5. CASE BuyAmmo
      BY <1>0, <3>5 DEF BuyAmmo, Purses
    <3> QED BY <1>4, <3>1, <3>2, <3>3, <3>4, <3>5
  <2> QED BY <1>0, <2>1, <2>2, MannedSave DEF Manned
<1>5. CASE Robbed
  <2>1. CASE Loss(purse.coins) > 0
    <3>1. pc = "play" /\ pc' = "play" /\ Save
          /\ purse'.armed = purse.armed /\ purse'.cannons = purse.cannons
      BY <1>0, <1>5, <2>1 DEF Robbed, AddCoins, Purses
    <3> QED BY <1>0, <3>1, MannedSave DEF Manned
  <2>2. CASE ~(Loss(purse.coins) > 0)
    BY <1>5, <2>2 DEF Robbed, Manned, Loaded
  <2> QED BY <2>1, <2>2
<1>6. CASE UseAmmo
  <2>1. pc = "play" /\ pc' = "play" /\ disk' = disk
        /\ purse'.armed = purse.armed /\ purse'.cannons = purse.cannons
    BY <1>0, <1>6 DEF UseAmmo, Purses
  <2> QED BY <2>1 DEF Manned, Loaded
<1>7. CASE BuyCannon
  <2>1. pc = "play" /\ pc' = "loading"
        /\ purse'.armed = purse.armed /\ purse'.cannons = purse.cannons + 1
    BY <1>0, <1>7 DEF BuyCannon, CanPay, Purses
  <2> QED BY <2>1 DEF Manned
<1>8. CASE LoadCannon
  <2>1. pc = "loading" /\ pc' = "play" /\ Save
        /\ purse'.armed = purse.armed + 1 /\ purse'.cannons = purse.cannons
    BY <1>0, <1>8 DEF LoadCannon, Purses
  <2> QED BY <1>0, <2>1, MannedSave DEF Manned
<1>9. CASE UNCHANGED pvars
  BY <1>9 DEF pvars, Manned, Loaded
<1> QED BY <1>1, <1>2, <1>3, <1>4, <1>5, <1>6, <1>7, <1>8, <1>9 DEF Next

(* "comes loaded" (tryBuy): of every cannon, old saves' included, but for one
   paid for in the instant of a kill. *)
THEOREM OnlyAKillUnloads == Spec /\ NeverKilledLoading => []ComesLoaded
<1>1. Inv /\ Inv' /\ Manned /\ [Next]_pvars /\ [Kill => pc # "loading"]_pvars => Manned'
  <2>1. CASE UNCHANGED pvars
    BY <2>1 DEF pvars, Manned, Loaded
  <2> QED BY <2>1, MannedStep
<1>2. Manned => ComesLoaded
  BY DEF Manned, ComesLoaded
<1> QED BY <1>1, <1>2, MannedInit, InvHolds, PTL DEF Spec, NeverKilledLoading
-----------------------------------------------------------------------------
(* A cannon that is in the save file is there to stay: only a new game removes it.
   No save is ever of a purse that lags behind the file (Game:save writes all of
   Game.state), whichever kill, restart or migration came before. *)
Armament == Loaded(disk).cannons
CannonsLast == [][~NewGame => Armament' >= Armament]_pvars

LEMMA FileFollows ==
  ASSUME Inv, pc # "off" PROVE Armament = purse.cannons /\ Armament \in Nat
<1>1. Loaded(disk) = [purse EXCEPT !.ammo = Loaded(disk).ammo]
  BY DEF Inv, OnlyShotsUnsaved
<1>2. purse \in Purses(Nat)
  BY DEF Inv, TypeOK
<1> QED BY <1>1, <1>2 DEF Armament, Purses

THEOREM CannonsAreKept == Spec => CannonsLast
<1>1. ASSUME Inv, Inv', [Next]_pvars, ~NewGame
      PROVE  Armament' >= Armament
  <2>0. Loaded(disk) \in Purses(Nat) /\ Armament \in Nat
    BY <1>1, LoadedType DEF Inv, TypeOK, Purses, Armament
  <2>1. CASE disk' = disk
    BY <2>0, <2>1 DEF Armament, Loaded
  <2>2. CASE pc # "off" /\ pc' # "off" /\ purse'.cannons >= purse.cannons
    <3>1. Armament = purse.cannons
      BY <1>1, <2>2, FileFollows
    <3>2. Armament' = purse'.cannons
      BY <1>1, <2>2, FileFollows DEF Armament, Inv, TypeOK, OnlyShotsUnsaved, Purses
    <3> QED BY <2>2, <3>1, <3>2
  <2>3. CASE disk' # disk
    <3>1. purse \in Purses(Nat) /\ purse.cannons \in Nat
      BY <1>1 DEF Inv, TypeOK, Purses
    <3>2. pc # "off" /\ pc' # "off"
      BY <1>1, <2>3 DEF Next, pvars, Start, Kill, SaveNow, Earn, Robbed, UseAmmo, EatFood,
         BuyFood, BuyAmmo, BuyCannon, LoadCannon, CanPay
    <3>3. purse'.cannons = purse.cannons \/ purse'.cannons = purse.cannons + 1
      BY <1>1, <2>3, <3>1 DEF Next, pvars, Start, Kill, SaveNow, Earn, Robbed, AddCoins,
         UseAmmo, EatFood, BuyFood, BuyAmmo, BuyCannon, LoadCannon, Purses
    <3> QED BY <2>2, <3>1, <3>2, <3>3
  <2> QED BY <2>1, <2>3
<1> QED BY <1>1, InvHolds, PTL DEF Spec, CannonsLast
=============================================================================
