------------------------ MODULE PirateFight_proofs ------------------------
(***************************************************************************)
(* The state properties and the two action properties of PirateFight, for  *)
(* all prices, prizes and times.  Every action but a frame at sea is an    *)
(* operation of Purse, or leaves the purse alone, so the invariant of      *)
(* Purse_proofs carries over, and SailOn is the one step to look into.     *)
(* At the end the variant behind VisitEnds.                                *)
(***************************************************************************)
EXTENDS PirateFight, Purse_proofs, FiniteSetTheorems

(* Out of the program there is no voyage; only a docked boat is being armed. *)
Places ==
  /\ pc = "off" => at = "menu"
  /\ pc = "loading" => at = "dock"

(* There is a state for being about, and a beaten pirate does not chase. *)
Chases ==
  /\ pirate # NoPirate => pirate.state # "none"
  /\ pirate.state = "chase" => pirate.hits < ScareHits

(* Only a cannon fires; and once a pirate is gone the quiet time outlasts
   every ball left in the air. *)
Quiet ==
  at # "menu" =>
    /\ Flying(own) # {} => purse.owned
    /\ pirate = NoPirate => \A s \in Flying(own) : own[s] < cooldown

FightInv ==
  FightTypeOK /\ Inv /\ HuntsOnlyTheRich /\ Places /\ Chases /\ Quiet

-----------------------------------------------------------------------------
(* Operators. *)

LEMMA MaxOfTwo ==
  ASSUME NEW a \in Nat, NEW b \in Nat
  PROVE  Max({a, b}) \in Nat /\ Max({a, b}) >= a /\ Max({a, b}) >= b
<1>1. \E x \in {a, b} : \A y \in {a, b} : x >= y
  <2>1. CASE a >= b
    BY <2>1
  <2>2. CASE ~(a >= b)
    BY <2>2
  <2> QED BY <2>1, <2>2
<1>2. /\ Max({a, b}) \in {a, b}
      /\ \A y \in {a, b} : Max({a, b}) >= y
  BY <1>1 DEF Max
<1> QED BY <1>2

LEMMA MinOfTwo ==
  ASSUME NEW a \in Nat, NEW b \in Nat
  PROVE  /\ Min({a, b}) = IF a <= b THEN a ELSE b
<1>1. \E x \in {a, b} : \A y \in {a, b} : x =< y
  <2>1. CASE a <= b
    BY <2>1
  <2>2. CASE ~(a <= b)
    BY <2>2
  <2> QED BY <2>1, <2>2
<1>2. /\ Min({a, b}) \in {a, b}
      /\ \A y \in {a, b} : Min({a, b}) =< y
  BY <1>1 DEF Min
<1> QED BY <1>2

PirateTypes ==
  [state : {"none", "chase", "retreat"}, hits : 0..ScareHits,
   balls : 0..PirateBalls, time : 0..Max({HuntTime, RetreatMax})]

LEMMA TimesAreNat ==
  /\ Max({HuntTime, RetreatMax}) \in Nat
  /\ HuntTime \in Nat /\ RetreatMax \in Nat
  /\ HuntTime <= Max({HuntTime, RetreatMax})
  /\ RetreatMax <= Max({HuntTime, RetreatMax})
  /\ Longest \in Nat /\ SpawnGrace <= Longest /\ RespawnGrace <= Longest
  /\ SpawnGrace \in Nat /\ RespawnGrace \in Nat
<1>1. HuntTime \in Nat /\ RetreatMax \in Nat /\ SpawnGrace \in Nat /\ RespawnGrace \in Nat
  BY FightAssumption
<1> QED BY <1>1, MaxOfTwo DEF Longest

LEMMA NewPirateTypes ==
  /\ NoPirate \in PirateTypes /\ NewPirate \in PirateTypes
  /\ NewPirate # NoPirate /\ NoPirate.state = "none"
  /\ NewPirate.state = "chase" /\ NewPirate.hits = 0
BY FightAssumption, TimesAreNat DEF NoPirate, NewPirate, PirateTypes

LEMMA FleeKeeps ==
  ASSUME NEW p \in PirateTypes
  PROVE  /\ Flee(p) \in PirateTypes
         /\ Flee(p).state # "chase"
         /\ Flee(p).hits = p.hits
         /\ p.state # "none" => Flee(p).state = "retreat"
         /\ p.state = "none" => Flee(p).state = "none"
<1>1. CASE p.state = "chase"
  <2>1. Flee(p) = [state |-> "retreat", hits |-> p.hits, balls |-> p.balls, time |-> 0]
    BY <1>1 DEF Flee, PirateTypes
  <2>2. Flee(p) \in PirateTypes
    BY <2>1, TimesAreNat DEF PirateTypes
  <2> QED BY <1>1, <2>1, <2>2
<1>2. CASE p.state # "chase"
  BY <1>2 DEF Flee, PirateTypes
<1> QED BY <1>1, <1>2

(* A frame of the pirate, whatever its balls do. *)
LEMMA TiresKeeps ==
  ASSUME NEW p \in PirateTypes, NEW far \in BOOLEAN, p.state # "none"
  PROVE  LET q == Tires([p EXCEPT !.time = @ + 1], far) IN
         /\ q \in PirateTypes
         /\ q # NoPirate => q.state # "none" /\ q.hits = p.hits
         /\ q.state = "chase" => p.state = "chase"
<1> DEFINE r == [p EXCEPT !.time = @ + 1]
<1>1. /\ r.state = p.state /\ r.hits = p.hits /\ r.time = p.time + 1
      /\ r.balls = p.balls /\ p.time \in Nat
  BY TimesAreNat DEF PirateTypes
<1>2. CASE p.state = "chase" /\ (far \/ r.time > HuntTime)
  <2>1. Flee(r) = [state |-> "retreat", hits |-> p.hits, balls |-> p.balls, time |-> 0]
    BY <1>1, <1>2 DEF Flee, PirateTypes
  <2>2. Flee(r) \in PirateTypes
    BY <2>1, TimesAreNat DEF PirateTypes
  <2> QED BY <1>1, <1>2, <2>1, <2>2 DEF Tires
<1>3. CASE p.state = "chase" /\ ~(far \/ r.time > HuntTime)
  <2>1. r \in PirateTypes
    BY <1>1, <1>3, TimesAreNat DEF PirateTypes
  <2> QED BY <1>1, <1>3, <2>1 DEF Tires
<1>4. CASE p.state # "chase" /\ ~(far \/ r.time > RetreatMax)
  <2>1. r \in PirateTypes
    BY <1>1, <1>4, TimesAreNat DEF PirateTypes
  <2> QED BY <1>1, <1>4, <2>1 DEF Tires
<1>5. CASE p.state # "chase" /\ (far \/ r.time > RetreatMax)
  BY <1>1, <1>5, NewPirateTypes DEF Tires
<1> QED BY <1>2, <1>3, <1>4, <1>5

LEMMA RobbedKeeps ==
  ASSUME NEW coins \in Nat, NEW hits \in Nat
  PROVE  /\ RobbedOf(coins, hits) \in Nat /\ RobbedOf(coins, hits) <= coins
         /\ hits = 0 => RobbedOf(coins, hits) = coins
<1>1. HitGold \in Nat
  BY PricesAssumption
<1>2. hits * HitGold \in Nat
  BY <1>1
<1>3. hits = 0 => hits * HitGold = 0
  BY <1>1
<1> QED BY <1>2, <1>3 DEF RobbedOf
LEMMA StruckKeeps ==
  ASSUME NEW p \in PirateTypes, NEW hits \in Nat
  PROVE  /\ Struck(p, hits) \in PirateTypes
         /\ p.state # "none" => Struck(p, hits).state # "none"
         /\ Struck(p, hits).state = "chase" =>
              p.state = "chase" /\ Struck(p, hits).hits < ScareHits
         /\ p.hits + hits >= ScareHits => Struck(p, hits).hits = ScareHits
         /\ p.hits + hits >= ScareHits /\ p.state = "chase"
              => Struck(p, hits).state = "retreat"
<1> DEFINE n == Min({p.hits + hits, ScareHits})
<1>1. ScareHits \in Nat \ {0} /\ p.hits \in 0..ScareHits
  BY FightAssumption DEF PirateTypes
<1>2. n = IF p.hits + hits <= ScareHits THEN p.hits + hits ELSE ScareHits
  BY <1>1, MinOfTwo
<1>3. n \in 0..ScareHits /\ (p.hits + hits >= ScareHits <=> n = ScareHits)
  BY <1>1, <1>2
<1> HIDE DEF n
<1>4. CASE n = ScareHits
  <2>1. Struck(p, hits) = [Flee(p) EXCEPT !.hits = ScareHits]
    BY <1>4 DEF Struck, n
  <2>2. Flee(p) \in PirateTypes
    BY FleeKeeps
  <2>3. /\ Struck(p, hits) \in PirateTypes
        /\ Struck(p, hits).state = Flee(p).state
        /\ Struck(p, hits).hits = ScareHits
    BY <1>1, <2>1, <2>2 DEF PirateTypes
  <2> QED BY <1>3, <2>3, FleeKeeps
<1>5. CASE n # ScareHits
  <2>1. Struck(p, hits) = [p EXCEPT !.hits = n]
    BY <1>5 DEF Struck, n
  <2>2. /\ Struck(p, hits) \in PirateTypes
        /\ Struck(p, hits).state = p.state
        /\ Struck(p, hits).hits = n
    BY <1>3, <2>1 DEF PirateTypes
  <2> QED BY <1>1, <1>3, <1>5, <2>2
<1> QED BY <1>4, <1>5

(* Our balls. *)
LEMMA BallsKeep ==
  ASSUME NEW balls \in [Shots -> 0..BallLife], NEW hit \in SUBSET Flying(balls)
  PROVE  /\ Onward(balls, hit) \in [Shots -> 0..BallLife]
         /\ \A s \in Flying(Onward(balls, hit)) :
              s \in Flying(balls) /\ Onward(balls, hit)[s] = balls[s] - 1
         /\ Cardinality(hit) \in Nat /\ (hit # {} => Cardinality(hit) > 0)
<1>1. BallLife \in Nat /\ MaxShots \in Nat
  BY FightAssumption
<1>2. IsFiniteSet(hit)
  <2>1. IsFiniteSet(1..MaxShots)
    BY <1>1, FS_Interval
  <2>2. hit \in SUBSET (1..MaxShots)
    BY DEF Shots, Flying
  <2> QED BY <2>1, <2>2, FS_Subset
<1>3. Cardinality(hit) \in Nat /\ (hit # {} => Cardinality(hit) > 0)
  BY <1>2, FS_CardinalityType, FS_EmptySet
<1>4. Onward(balls, hit) \in [Shots -> 0..BallLife]
  <2>1. ASSUME NEW s \in Shots
        PROVE  (IF s \in hit \/ balls[s] = 0 THEN 0 ELSE balls[s] - 1) \in 0..BallLife
    BY <1>1
  <2> QED BY <2>1 DEF Onward
<1>5. ASSUME NEW s \in Flying(Onward(balls, hit))
      PROVE  s \in Flying(balls) /\ Onward(balls, hit)[s] = balls[s] - 1
  <2>1. s \in Shots /\ Onward(balls, hit)[s] > 0
    BY DEF Flying
  <2>2. Onward(balls, hit)[s] = IF s \in hit \/ balls[s] = 0 THEN 0 ELSE balls[s] - 1
    BY <2>1 DEF Onward
  <2> QED BY <1>1, <2>1, <2>2 DEF Flying
<1> QED BY <1>3, <1>4, <1>5

LEMMA FiredTypes ==
  ASSUME NEW balls \in [Shots -> 0..BallLife], NEW more \in Fired(balls)
  PROVE  more \in [Shots -> 0..BallLife]
<1>1. BallLife \in Nat
  BY FightAssumption
<1> QED BY <1>1 DEF Fired

LEMMA NoBallsTypes == NoBalls \in [Shots -> 0..BallLife] /\ Flying(NoBalls) = {}
<1>1. BallLife \in Nat
  BY FightAssumption
<1> QED BY <1>1 DEF NoBalls, Flying

-----------------------------------------------------------------------------
(* The two halves of a frame at sea. *)

(* What updatePirate brings. *)
LEMMA PirateTurnsKeep ==
  ASSUME FightInv, at = "sea", NEW u \in PirateTurns
  PROVE  /\ u.pirate \in PirateTypes
         /\ u.coins \in Nat /\ u.coins <= purse.coins
         /\ u.cooldown \in 0..Longest
         /\ u.pirate # NoPirate => u.pirate.state # "none"
         /\ u.pirate.state = "chase" => u.coins > 0 /\ u.pirate.hits < ScareHits
         /\ u.pirate = NoPirate => \A s \in Flying(own) : own[s] - 1 < u.cooldown
         /\ pirate = NoPirate /\ u.pirate # NoPirate => Flying(own) = {}
         /\ u.pirate.state = "chase" /\ Flying(own) # {} =>
              pirate.state = "chase" /\ u.pirate.hits = pirate.hits
<1>0. /\ pirate \in PirateTypes /\ cooldown \in 0..Longest
      /\ own \in [Shots -> 0..BallLife] /\ purse.coins \in Nat
      /\ BallLife \in Nat /\ BallLife < RespawnGrace /\ ScareHits \in Nat \ {0}
      /\ pirate # NoPirate => pirate.state # "none"
      /\ pirate.state = "chase" => pirate.hits < ScareHits /\ purse.coins > 0
      /\ pirate = NoPirate => \A s \in Flying(own) : own[s] < cooldown
  BY FightAssumption, GraceAssumption
     DEF FightInv, FightTypeOK, TypeOK, Purses, PirateTypes, HuntsOnlyTheRich, Chases, Quiet
<1>1. CASE pirate # NoPirate
  <2>1. PICK v \in PirateUpdates :
          u = [pirate |-> v.pirate, coins |-> v.coins,
               cooldown |-> IF v.pirate = NoPirate THEN RespawnGrace ELSE cooldown]
    BY <1>1 DEF PirateTurns
  <2>2. PICK a \in Volleys, far \in BOOLEAN : v = AfterVolley(a, far)
    BY DEF PirateUpdates
  <2> DEFINE hits == a.hits
             c == RobbedOf(purse.coins, hits)
             r == [pirate EXCEPT !.balls = a.left]
             p == Robs(r, hits, c)
  <2>3. hits \in Nat /\ a.left \in 0..PirateBalls
    <3>1. a \in [fired : {0, 1}, hits : 0..PirateBalls, left : 0..PirateBalls]
      BY DEF Volleys
    <3>2. a.hits \in 0..PirateBalls /\ a.left \in 0..PirateBalls
      BY <3>1
    <3> QED BY <3>2
  <2> HIDE DEF hits
  <2>4. c \in Nat /\ c <= purse.coins /\ (hits = 0 => c = purse.coins)
    BY <1>0, <2>3, RobbedKeeps
  <2>5. /\ r \in PirateTypes /\ r.state = pirate.state /\ r.hits = pirate.hits
    BY <1>0, <2>3 DEF PirateTypes
  <2>6. /\ p \in PirateTypes /\ p.state # "none" /\ p.hits = pirate.hits
        /\ p.state = "chase" => pirate.state = "chase" /\ c > 0
    <3>1. CASE hits > 0 /\ c = 0
      <4>1. p = Flee(r)
        BY <3>1 DEF Robs
      <4> HIDE DEF r, p, c
      <4> QED BY <1>0, <1>1, <2>5, <4>1, FleeKeeps
    <3>2. CASE ~(hits > 0 /\ c = 0)
      <4>1. p = r
        BY <3>2 DEF Robs
      <4>2. hits = 0 \/ c > 0
        BY <2>3, <2>4, <3>2
      <4> HIDE DEF r, p, c
      <4> QED BY <1>0, <1>1, <2>4, <2>5, <4>1, <4>2
    <3> QED BY <3>1, <3>2
  <2> HIDE DEF c, r, p
  <2>7. v = [pirate |-> Tires([p EXCEPT !.time = @ + 1], far), coins |-> c]
    BY <2>2 DEF c, r, p, hits, AfterVolley
  <2>8. /\ v.pirate \in PirateTypes /\ v.coins = c
        /\ v.pirate # NoPirate => v.pirate.state # "none" /\ v.pirate.hits = pirate.hits
        /\ v.pirate.state = "chase" => pirate.state = "chase" /\ c > 0
    BY <2>6, <2>7, TiresKeeps
  <2>9. /\ u.pirate = v.pirate /\ u.coins = c
        /\ u.cooldown = IF v.pirate = NoPirate THEN RespawnGrace ELSE cooldown
    BY <2>1, <2>8
  <2>10. u.cooldown \in 0..Longest
    BY <1>0, <2>9, TimesAreNat
  <2>11. u.pirate = NoPirate => \A s \in Flying(own) : own[s] - 1 < u.cooldown
    BY <1>0, <2>9, TimesAreNat DEF Flying
  <2>12. u.pirate.state = "chase" => u.pirate.hits = pirate.hits
    BY <2>8, <2>9, NewPirateTypes
  <2> QED BY <1>0, <1>1, <2>4, <2>8, <2>9, <2>10, <2>11, <2>12
<1>2. CASE pirate = NoPirate
  <2> DEFINE quieter == IF cooldown > 0 THEN cooldown - 1 ELSE 0
  <2>1. /\ u.coins = purse.coins
        /\ u.pirate \in {NoPirate, NewPirate}
        /\ u.cooldown \in {cooldown, quieter}
        /\ u.pirate = NewPirate => quieter = 0 /\ purse.coins > 0
    <3>1. CASE u = [pirate |-> NoPirate, coins |-> purse.coins, cooldown |-> cooldown]
      BY <3>1, NewPirateTypes
    <3>2. CASE /\ purse.coins > 0
               /\ \E q \in {NoPirate} \cup
                      IF quieter = 0 /\ purse.coins <= MaxCoins THEN {NewPirate} ELSE {} :
                    u = [pirate |-> q, coins |-> purse.coins, cooldown |-> quieter]
      BY <3>2, NewPirateTypes
    <3> QED BY <1>2, <3>1, <3>2 DEF PirateTurns
  <2>2. quieter \in 0..Longest /\ (cooldown <= quieter + 1) /\ cooldown \in Nat
    BY <1>0, TimesAreNat
  <2> HIDE DEF quieter
  <2>3. u.cooldown \in 0..Longest
    BY <1>0, <2>1, <2>2
  <2>4. \A s \in Flying(own) : own[s] - 1 < u.cooldown
    BY <1>0, <1>2, <2>1, <2>2 DEF Flying
  <2>5. quieter = 0 => Flying(own) = {}
    BY <1>0, <1>2, <2>2 DEF Flying
  <2> QED BY <1>0, <2>1, <2>3, <2>4, <2>5, NewPirateTypes
<1> QED BY <1>1, <1>2
(* What updateCannon brings. *)
LEMMA CannonTurnsKeep ==
  ASSUME own \in [Shots -> 0..BallLife],
         NEW p \in PirateTypes, p.state = "chase" => p.hits < ScareHits,
         NEW v \in CannonTurns(p)
  PROVE  /\ v.pirate \in PirateTypes /\ v.own \in [Shots -> 0..BallLife]
         /\ v.won \in {0, DropGold} /\ v.fired \in {0, 1}
         /\ v.fired = 1 => purse.ammo > 0
         /\ p.state # "none" => v.pirate.state # "none"
         /\ v.pirate.state = "chase" => p.state = "chase" /\ v.pirate.hits < ScareHits
         /\ p.state # "chase" =>
              /\ v.pirate = p
              /\ \A s \in Flying(v.own) : s \in Flying(own) /\ v.own[s] = own[s] - 1
         /\ v.won > 0 =>
              /\ p.state = "chase" /\ Flying(own) # {}
              /\ v.pirate.state = "retreat" /\ v.pirate.hits = ScareHits
<1>1. PICK hit \in Strikes(p) :
        v \in {CannonTurn(p, hit, Onward(own, hit), 0)} \cup
              {CannonTurn(p, hit, balls, 1) :
                 balls \in IF MayFire(p) THEN Fired(Onward(own, hit)) ELSE {}}
  BY DEF CannonTurns
<1>0. PICK fired \in {0, 1}, balls \in {Onward(own, hit)} \cup Fired(Onward(own, hit)) :
        /\ v = CannonTurn(p, hit, balls, fired)
        /\ fired = 0 => balls = Onward(own, hit)
        /\ fired = 1 => MayFire(p)
  <2>2. CASE v = CannonTurn(p, hit, Onward(own, hit), 0)
    BY <2>2
  <2>3. CASE v \in {CannonTurn(p, hit, balls, 1) :
                      balls \in IF MayFire(p) THEN Fired(Onward(own, hit)) ELSE {}}
    BY <2>3
  <2> QED BY <1>1, <2>2, <2>3
<1>2. hit \in SUBSET Flying(own) /\ (p.state # "chase" => hit = {})
  BY DEF Strikes
<1>3. balls \in [Shots -> 0..BallLife]
  BY <1>2, BallsKeep, FiredTypes
<1>4. /\ Cardinality(hit) \in Nat /\ (hit # {} => Cardinality(hit) > 0)
      /\ \A s \in Flying(Onward(own, hit)) :
           s \in Flying(own) /\ Onward(own, hit)[s] = own[s] - 1
  BY <1>2, BallsKeep
<1>5. /\ v.own = balls /\ v.fired = fired
      /\ v.pirate = IF hit # {} THEN Struck(p, Cardinality(hit)) ELSE p
      /\ v.won = Prize(hit # {} /\ p.hits + Cardinality(hit) >= ScareHits)
  BY <1>0 DEF CannonTurn
<1>6. CASE hit = {}
  BY <1>0, <1>2, <1>3, <1>4, <1>5, <1>6 DEF Prize, MayFire
<1>7. CASE hit # {}
  <2>1. p.state = "chase" /\ Flying(own) # {}
    BY <1>2, <1>7
  <2>2. v.won > 0 => p.hits + Cardinality(hit) >= ScareHits
    BY <1>5 DEF Prize
  <2>3. v.pirate = Struck(p, Cardinality(hit))
    BY <1>5, <1>7
  <2>4. v.won \in {0, DropGold}
    BY <1>5 DEF Prize
  <2> QED BY <1>0, <1>3, <1>4, <1>5, <2>1, <2>2, <2>3, <2>4, StruckKeeps DEF MayFire
<1> QED BY <1>6, <1>7
(* What a frame does to the purse: robbed down to c, a prize, a shot, a bite. *)
LEMMA FramePurse ==
  ASSUME Inv, pc = "play", UNCHANGED pc,
         NEW c \in Nat, c <= purse.coins, NEW won \in Nat,
         NEW fired \in {0, 1}, fired = 1 => purse.ammo > 0,
         NEW left \in {purse.food} \cup Eaten(purse.food),
         Settle(c, won, fired, left)
  PROVE  /\ Inv'
         /\ purse'.coins = c + won /\ purse'.owned = purse.owned
<1>0. /\ purse \in Purses(Nat) /\ disk \in Purses(Nat \cup {Missing})
      /\ OnlyShotsUnsaved /\ Agree(purse) /\ SavedArmsAgree
  BY DEF Inv, TypeOK, ArmsAgree, Agree
<1> DEFINE gold == [purse EXCEPT !.coins = c + won]
<1>9. /\ purse' = [gold EXCEPT !.ammo = @ - fired, !.food = left]
      /\ disk' = IF left # purse.food THEN purse'
                 ELSE IF GoldSaved(purse.coins - c, won) THEN gold
                 ELSE disk
  BY DEF Settle
<1>10. gold = [purse EXCEPT !.coins = c + won]
  OBVIOUS
<1> HIDE DEF gold
<1>1. left \in [Food -> Nat]
  BY <1>0, EatenType DEF Purses
<1>2. gold \in Purses(Nat) /\ Agree(gold)
  BY <1>0, <1>10 DEF Purses, Agree
<1>3. gold.ammo = purse.ammo /\ gold.food = purse.food /\ purse.ammo \in Nat
  BY <1>0, <1>10 DEF Purses
<1>4. purse.ammo - fired \in Nat /\ purse.ammo - fired <= purse.ammo
  BY <1>3
<1>5. purse' = [coins |-> c + won, owned |-> purse.owned, cannons |-> purse.cannons,
                ammo |-> purse.ammo - fired, food |-> left, armed |-> purse.armed]
  BY <1>0, <1>9, <1>10 DEF Purses
<1>6. purse' \in Purses(Nat) /\ Agree(purse)'
  BY <1>0, <1>1, <1>4, <1>5 DEF Purses, Agree
<1>7. CASE left # purse.food
  <2>1. Save
    BY <1>7, <1>9 DEF Save
  <2> QED BY <1>5, <1>6, <2>1, SavingStep DEF LoadingOwned
<1>8. CASE left = purse.food
  <2>1. /\ purse'.ammo = gold.ammo - fired /\ purse'.ammo <= gold.ammo
        /\ gold = [purse' EXCEPT !.ammo = gold.ammo]
    BY <1>0, <1>3, <1>4, <1>5, <1>8, <1>10 DEF Purses
  <2>2. CASE GoldSaved(purse.coins - c, won)
    <3>1. disk' = gold
      BY <1>8, <1>9, <2>2
    <3>2. Loaded(disk)' = gold /\ disk' \in Purses(Nat \cup {Missing})
      BY <1>2, <3>1, LoadedSame DEF Loaded
    <3> QED
      BY <1>2, <1>5, <1>6, <2>1, <3>2
         DEF Inv, TypeOK, OnlyShotsUnsaved, ArmsAgree, SavedArmsAgree, LoadingOwned, Agree
  <2>3. CASE ~GoldSaved(purse.coins - c, won)
    <3>1. disk' = disk /\ Loaded(disk)' = Loaded(disk)
      BY <1>8, <1>9, <2>3 DEF Loaded
    <3>2. c = purse.coins /\ won = 0 /\ gold = purse /\ c + won = purse.coins
      <4>1. purse.coins \in Nat
        BY <1>0 DEF Purses
      <4>2. c = purse.coins /\ won = 0
        BY <2>3, <4>1 DEF GoldSaved
      <4>3. c + won = purse.coins
        BY <4>1, <4>2
      <4>4. gold = [purse EXCEPT !.coins = purse.coins]
        BY <1>10, <4>3
      <4>5. gold = purse
        BY <1>0, <4>4 DEF Purses
      <4> QED BY <4>2, <4>3, <4>5
    <3>3. /\ Loaded(disk) = [purse EXCEPT !.ammo = Loaded(disk).ammo]
          /\ Loaded(disk).ammo >= purse.ammo
      BY <1>0 DEF OnlyShotsUnsaved
    <3>4. Loaded(disk).ammo \in Nat /\ Loaded(disk).ammo >= purse'.ammo
      BY <1>0, <1>3, <2>1, <3>2, <3>3, LoadedType DEF Purses
    <3>5. \A n : [purse' EXCEPT !.ammo = n] = [purse EXCEPT !.ammo = n]
      <4>1. purse' = [coins |-> purse.coins, owned |-> purse.owned,
                      cannons |-> purse.cannons, ammo |-> purse.ammo - fired,
                      food |-> purse.food, armed |-> purse.armed]
        BY <1>5, <1>8, <3>2
      <4>2. [purse EXCEPT !.ammo = purse.ammo - fired] =
              [coins |-> purse.coins, owned |-> purse.owned,
               cannons |-> purse.cannons, ammo |-> purse.ammo - fired,
               food |-> purse.food, armed |-> purse.armed]
        BY <1>0 DEF Purses
      <4>3. purse.ammo - fired \in Nat
        BY <1>4
      <4>4. purse' = [purse EXCEPT !.ammo = purse.ammo - fired]
        BY <4>1, <4>2, Zenon
      <4> QED BY <1>0, <4>3, <4>4 DEF Purses
    <3>6. Loaded(disk) = [purse' EXCEPT !.ammo = Loaded(disk).ammo]
      BY <3>3, <3>5, Zenon
    <3> QED
      BY <1>0, <1>5, <1>6, <3>1, <3>4, <3>6
         DEF Inv, TypeOK, OnlyShotsUnsaved, ArmsAgree, SavedArmsAgree, LoadingOwned, Agree
  <2> QED BY <2>2, <2>3
<1> QED BY <1>5, <1>7, <1>8
-----------------------------------------------------------------------------
(* A frame at sea. *)

(* The properties of a step that PrizeOnce and NoBallOutlivesItsPirate ask of
   every one. *)
PrizeStep ==
  at = "sea" /\ at' = "sea" /\ purse'.coins > purse.coins =>
    /\ pirate.state = "chase" /\ pirate.hits < ScareHits
    /\ pirate'.state = "retreat" /\ pirate'.hits = ScareHits
    /\ purse'.coins <= purse.coins + DropGold

ArrivalStep == pirate = NoPirate /\ pirate' # NoPirate => own = NoBalls

LEMMA NoneFlying ==
  ASSUME own \in [Shots -> 0..BallLife], Flying(own) = {} PROVE own = NoBalls
<1>1. BallLife \in Nat
  BY FightAssumption
<1>2. ASSUME NEW s \in Shots PROVE own[s] = 0
  BY <1>1 DEF Flying
<1> QED BY <1>2 DEF NoBalls

LEMMA SailOnKeeps ==
  ASSUME FightInv, SailOn PROVE FightInv' /\ PrizeStep /\ ArrivalStep
<1>0. /\ pc = "play" /\ at = "sea" /\ pc' = pc /\ at' = at
      /\ own \in [Shots -> 0..BallLife] /\ purse \in Purses(Nat) /\ purse.coins \in Nat
      /\ DropGold \in Nat
      /\ Flying(own) # {} => purse.owned
  BY FightAssumption DEF SailOn, FightInv, FightTypeOK, TypeOK, Purses, Quiet
<1>11. PICK u \in PirateTurns :
       \E v \in IF purse.owned THEN CannonTurns(u.pirate) ELSE {NoCannon(u.pirate)},
          left \in {purse.food} \cup Eaten(purse.food) :
        /\ pirate' = v.pirate
        /\ cooldown' = u.cooldown
        /\ own' = v.own
        /\ Settle(u.coins, v.won, v.fired, left)
  BY DEF SailOn
<1>1. PICK v \in IF purse.owned THEN CannonTurns(u.pirate) ELSE {NoCannon(u.pirate)},
           left \in {purse.food} \cup Eaten(purse.food) :
        /\ pirate' = v.pirate
        /\ cooldown' = u.cooldown
        /\ own' = v.own
        /\ Settle(u.coins, v.won, v.fired, left)
  BY <1>11
<1> DEFINE p == u.pirate
<1>2. /\ p \in PirateTypes
      /\ u.coins \in Nat /\ u.coins <= purse.coins
      /\ u.cooldown \in 0..Longest
      /\ p # NoPirate => p.state # "none"
      /\ p.state = "chase" => u.coins > 0 /\ p.hits < ScareHits
      /\ p = NoPirate => \A s \in Flying(own) : own[s] - 1 < u.cooldown
      /\ pirate = NoPirate /\ p # NoPirate => Flying(own) = {}
      /\ p.state = "chase" /\ Flying(own) # {} =>
           pirate.state = "chase" /\ p.hits = pirate.hits
  BY <1>0, PirateTurnsKeep
<1> HIDE DEF p
<1>3. /\ v.pirate \in PirateTypes /\ v.own \in [Shots -> 0..BallLife]
      /\ v.won \in {0, DropGold} /\ v.fired \in {0, 1}
      /\ v.fired = 1 => purse.ammo > 0
      /\ p.state # "none" => v.pirate.state # "none"
      /\ v.pirate.state = "chase" => p.state = "chase" /\ v.pirate.hits < ScareHits
      /\ p.state # "chase" =>
           /\ v.pirate = p
           /\ \A s \in Flying(v.own) : s \in Flying(own) /\ v.own[s] = own[s] - 1
      /\ v.won > 0 =>
           /\ p.state = "chase" /\ Flying(own) # {}
           /\ v.pirate.state = "retreat" /\ v.pirate.hits = ScareHits
      /\ Flying(v.own) # {} => purse.owned
  <2>1. CASE purse.owned
    BY <1>0, <1>1, <1>2, <2>1, CannonTurnsKeep DEF p
  <2>2. CASE ~purse.owned
    <3>1. v = NoCannon(p) /\ Flying(own) = {}
      BY <1>0, <1>1, <2>2 DEF p
    <3>2. v.pirate = p /\ v.own = own /\ v.won = 0 /\ v.fired = 0
      BY <3>1 DEF NoCannon
    <3> QED BY <1>0, <1>2, <3>1, <3>2
  <2> QED BY <2>1, <2>2
<1>4. Inv' /\ purse'.coins = u.coins + v.won /\ purse'.owned = purse.owned
  <2>1. Inv /\ v.won \in Nat /\ Settle(u.coins, v.won, v.fired, left)
    BY <1>0, <1>1, <1>3 DEF FightInv
  <2> QED BY <1>0, <1>2, <1>3, <2>1, FramePurse
<1>5. pirate' = v.pirate /\ cooldown' = u.cooldown /\ own' = v.own
  BY <1>1
<1>6. FightTypeOK'
  BY <1>0, <1>2, <1>3, <1>4, <1>5 DEF FightTypeOK, Inv, PirateTypes
<1>7. HuntsOnlyTheRich' /\ Chases' /\ Places'
  <2>1. v.pirate.state = "chase" => u.coins + v.won > 0
    BY <1>0, <1>2, <1>3
  <2>2. v.pirate # NoPirate => v.pirate.state # "none"
    <3>1. CASE p = NoPirate
      BY <1>3, <3>1, NewPirateTypes
    <3>2. CASE p # NoPirate
      BY <1>2, <1>3, <3>2
    <3> QED BY <3>1, <3>2
  <2> QED BY <1>0, <1>3, <1>4, <1>5, <2>1, <2>2 DEF HuntsOnlyTheRich, Chases, Places
<1>8. Quiet'
  <2>1. ASSUME v.pirate = NoPirate, NEW s \in Flying(v.own)
        PROVE  v.own[s] < u.cooldown
    <3>1. p = NoPirate
      BY <1>2, <1>3, <2>1, NewPirateTypes
    <3>2. p.state # "chase"
      BY <3>1, NewPirateTypes
    <3>3. s \in Flying(own) /\ v.own[s] = own[s] - 1
      BY <1>3, <3>2
    <3>4. own[s] - 1 < u.cooldown
      BY <1>2, <3>1, <3>3
    <3> QED BY <3>3, <3>4
  <2>2. Flying(own') = Flying(v.own) /\ Flying(own)' = Flying(v.own)
    BY <1>5 DEF Flying
  <2> QED BY <1>3, <1>4, <1>5, <2>1, <2>2 DEF Quiet
<1>9. PrizeStep
  <2>1. ASSUME purse'.coins > purse.coins PROVE v.won > 0 /\ v.won = DropGold
    BY <1>0, <1>2, <1>3, <1>4, <2>1
  <2>2. ASSUME purse'.coins > purse.coins
        PROVE  pirate.state = "chase" /\ pirate.hits < ScareHits
    BY <1>2, <1>3, <2>1, <2>2
  <2>3. ASSUME purse'.coins > purse.coins
        PROVE  purse'.coins <= purse.coins + DropGold
    BY <1>0, <1>2, <1>4, <2>1, <2>3
  <2> QED BY <1>3, <1>5, <2>1, <2>2, <2>3 DEF PrizeStep
<1>10. ArrivalStep
  <2>1. ASSUME pirate = NoPirate, v.pirate # NoPirate PROVE Flying(own) = {}
    <3>1. CASE p = NoPirate
      BY <1>3, <2>1, <3>1, NewPirateTypes
    <3>2. CASE p # NoPirate
      BY <1>2, <2>1, <3>2
    <3> QED BY <3>1, <3>2
  <2> QED BY <1>0, <1>5, <2>1, NoneFlying DEF ArrivalStep
<1> QED BY <1>0, <1>4, <1>6, <1>7, <1>8, <1>9, <1>10 DEF FightInv
-----------------------------------------------------------------------------
(* The other actions. *)

LEMMA FightInitInv == FightInit => FightInv
<1> SUFFICES ASSUME FightInit PROVE FightInv
  OBVIOUS
<1>1. Inv /\ pc = "off" /\ at = "menu" /\ pirate = NoPirate /\ cooldown = 0 /\ own = NoBalls
  BY InitInv DEF FightInit, Init
<1>2. FightTypeOK
  BY <1>1, NewPirateTypes, NoBallsTypes, TimesAreNat DEF FightTypeOK, Inv, PirateTypes
<1> QED
  BY <1>1, <1>2, NewPirateTypes
     DEF FightInv, HuntsOnlyTheRich, Places, Chases, Quiet

(* An operation of Purse, whatever the boat and the pirate do. *)
LEMMA PurseStep == ASSUME Inv, [Next]_pvars PROVE Inv' /\ TypeOK'
BY StepInv DEF Inv

LEMMA SaveStep ==
  ASSUME Inv, SaveNow \/ UNCHANGED pvars PROVE Inv' /\ purse' = purse /\ pc' = pc
BY PurseStep DEF SaveNow, Next, pvars

LEMMA StepKeeps ==
  ASSUME FightInv, [FightNext]_vars PROVE FightInv' /\ PrizeStep /\ ArrivalStep
<1>0. /\ Inv /\ at \in {"menu", "sea", "dock"} /\ purse.coins \in Nat
      /\ pirate \in PirateTypes /\ cooldown \in 0..Longest /\ own \in [Shots -> 0..BallLife]
      /\ HuntsOnlyTheRich /\ Places /\ Chases /\ Quiet
  BY DEF FightInv, FightTypeOK, TypeOK, Purses, PirateTypes
<1> DEFINE Goal == FightInv' /\ PrizeStep /\ ArrivalStep
(* What is left to show when the pirate, the balls and the quiet time stay. *)
<1>a. ASSUME UNCHANGED fight, Inv', at' \in {"menu", "sea", "dock"},
             HuntsOnlyTheRich', Places', Quiet',
             at = "sea" /\ at' = "sea" => purse'.coins = purse.coins
      PROVE  Goal
  <2>1. FightTypeOK' /\ Chases'
    BY <1>0, <1>a DEF fight, FightTypeOK, Inv, Chases, PirateTypes
  <2>2. PrizeStep /\ ArrivalStep
    BY <1>0, <1>a DEF fight, PrizeStep, ArrivalStep
  <2> QED BY <1>a, <2>1, <2>2 DEF FightInv
(* The same with no pirate left. *)
<1>b. ASSUME pirate' = NoPirate, cooldown' \in 0..Longest,
             own' \in [Shots -> 0..BallLife],
             Inv', at' \in {"menu", "sea", "dock"}, Places', Quiet',
             ~(at = "sea" /\ at' = "sea")
      PROVE  Goal
  <2>1. FightTypeOK' /\ Chases' /\ HuntsOnlyTheRich'
    BY <1>b, NewPirateTypes
       DEF FightTypeOK, Inv, Chases, PirateTypes, HuntsOnlyTheRich
  <2>2. PrizeStep /\ ArrivalStep
    BY <1>b DEF PrizeStep, ArrivalStep
  <2> QED BY <1>b, <2>1, <2>2 DEF FightInv
<1>1. CASE SwitchOn
  <2>1. Inv' /\ at = "menu" /\ at' = "menu" /\ pc' = "play" /\ UNCHANGED fight
    BY <1>0, <1>1, PurseStep DEF SwitchOn, Start, Next, Places
  <2>2. HuntsOnlyTheRich' /\ Places' /\ Quiet'
    BY <2>1 DEF HuntsOnlyTheRich, Places, Quiet
  <2> QED BY <1>a, <2>1, <2>2
<1>2. CASE SwitchOff
  <2>1. Inv' /\ at' = "menu" /\ pc' = "off"
    BY <1>0, <1>2, PurseStep DEF SwitchOff, Kill, Next
  <2>2. pirate' = NoPirate /\ cooldown' \in 0..Longest /\ own' \in [Shots -> 0..BallLife]
    BY <1>2, TimesAreNat, NoBallsTypes DEF SwitchOff
  <2>3. Places' /\ Quiet'
    BY <2>1 DEF Places, Quiet
  <2> QED BY <1>b, <2>1, <2>2, <2>3
<1>3. CASE Blur
  <2>1. Inv' /\ purse' = purse /\ pc' = pc /\ at' = at /\ UNCHANGED fight
    BY <1>0, <1>3, SaveStep DEF Blur
  <2>2. HuntsOnlyTheRich' /\ Places' /\ Quiet'
    BY <1>0, <2>1 DEF HuntsOnlyTheRich, Places, Quiet, fight, Flying
  <2> QED BY <1>0, <1>a, <2>1, <2>2
<1>4. CASE LoadWorld
  <2>1. Inv' /\ pc = "play" /\ pc' = pc /\ at = "menu" /\ at' = "sea"
    BY <1>0, <1>4, SaveStep DEF LoadWorld
  <2>2. /\ pirate' = NoPirate /\ cooldown' \in 0..Longest
        /\ own' \in [Shots -> 0..BallLife] /\ Flying(own)' = {}
    BY <1>4, TimesAreNat, NoBallsTypes DEF LoadWorld, Flying
  <2>3. Places' /\ Quiet'
    BY <2>1, <2>2 DEF Places, Quiet
  <2> QED BY <1>b, <2>1, <2>2, <2>3
<1>5. CASE ExitToMenu
  <2>1. Inv' /\ pc' = "play" /\ at' = "menu" /\ UNCHANGED fight
    BY <1>0, <1>5, PurseStep DEF ExitToMenu, SaveNow, NewGame, Next
  <2>2. HuntsOnlyTheRich' /\ Places' /\ Quiet'
    BY <2>1 DEF HuntsOnlyTheRich, Places, Quiet
  <2> QED BY <1>a, <2>1, <2>2
<1>6. CASE OpenDock
  <2>1. Inv' /\ pc' = "play" /\ at = "sea" /\ at' = "dock" /\ purse'.owned = purse.owned
    <3>1. CASE Earn
      <4>1. Inv'
        BY <1>0, <3>1, PurseStep DEF Next
      <4>2. purse'.owned = purse.owned
        BY <1>0, <3>1 DEF Earn, AddCoins, Inv, TypeOK, Purses
      <4> QED BY <1>6, <3>1, <4>1, <4>2 DEF OpenDock, Earn
    <3>2. CASE UNCHANGED pvars
      BY <1>0, <1>6, <3>2, PurseStep DEF OpenDock, pvars
    <3> QED BY <1>6, <3>1, <3>2 DEF OpenDock
  <2>2. /\ pirate' = NoPirate /\ own' = own
        /\ cooldown' = IF pirate = NoPirate THEN cooldown ELSE RespawnGrace
    BY <1>6 DEF OpenDock, GraceAfterDock
  <2>3. cooldown' \in 0..Longest
    BY <1>0, <2>2, TimesAreNat
  <2>4. Quiet'
    <3>1. BallLife \in Nat /\ BallLife < RespawnGrace
      BY FightAssumption, GraceAssumption
    <3>2. \A s \in Flying(own) : own[s] < cooldown'
      BY <1>0, <2>1, <2>2, <3>1, TimesAreNat DEF Quiet, Flying
    <3>3. Flying(own)' = Flying(own)
      BY <2>2 DEF Flying
    <3> QED BY <1>0, <2>1, <2>2, <3>2, <3>3 DEF Quiet
  <2>5. Places'
    BY <2>1 DEF Places
  <2> QED BY <1>0, <1>b, <2>1, <2>2, <2>3, <2>4, <2>5
<1>7. CASE Shop
  <2>1. Inv' /\ pc' # "off" /\ at = "dock" /\ at' = "dock" /\ UNCHANGED fight
    BY <1>0, <1>7, PurseStep
       DEF Shop, BuyFood, BuyAmmo, BuyCannon, LoadCannon, CanPay, Next
  <2>2. purse.owned => purse'.owned
    <3>1. purse \in Purses(Nat)
      BY <1>0 DEF Inv, TypeOK
    <3>2. CASE BuyFood
      BY <3>1, <3>2 DEF BuyFood, Purses
    <3>3. CASE BuyAmmo
      BY <3>1, <3>3 DEF BuyAmmo, Purses
    <3>4. CASE BuyCannon
      BY <3>1, <3>4 DEF BuyCannon, Purses
    <3>5. CASE LoadCannon
      BY <3>1, <3>5 DEF LoadCannon, Purses
    <3> QED BY <1>7, <3>2, <3>3, <3>4, <3>5 DEF Shop
  <2>3. HuntsOnlyTheRich' /\ Places' /\ Quiet'
    BY <1>0, <2>1, <2>2 DEF HuntsOnlyTheRich, Places, Quiet, fight, Flying
  <2> QED BY <1>a, <2>1, <2>3
<1>8. CASE CastOff
  <2>1. /\ Inv' /\ purse' = purse /\ pc' = pc /\ pc = "play"
        /\ at = "dock" /\ at' = "sea" /\ UNCHANGED fight
    BY <1>0, <1>8, SaveStep DEF CastOff
  <2>2. pirate' = NoPirate
    BY <1>0, <2>1 DEF HuntsOnlyTheRich, fight
  <2>3. HuntsOnlyTheRich' /\ Places' /\ Quiet'
    BY <1>0, <2>1, <2>2, NewPirateTypes DEF HuntsOnlyTheRich, Places, Quiet, fight, Flying
  <2> QED BY <1>a, <2>1, <2>3
<1>9. CASE TapFire
  <2>1. /\ Inv' /\ pc' = pc /\ at = "sea" /\ at' = at
        /\ pirate' = pirate /\ cooldown' = cooldown /\ pirate.state = "chase"
        /\ own' \in [Shots -> 0..BallLife]
    BY <1>0, <1>9, PurseStep, FiredTypes DEF TapFire, UseAmmo, Next
  <2>2. purse.owned /\ purse'.owned = purse.owned /\ purse'.coins = purse.coins
    BY <1>0, <1>9 DEF TapFire, UseAmmo, Inv, TypeOK, Purses
  <2>3. pirate # NoPirate
    BY <2>1, NewPirateTypes
  <2>4. FightTypeOK'
    BY <1>0, <2>1 DEF FightTypeOK, Inv, PirateTypes
  <2>5. HuntsOnlyTheRich' /\ Places' /\ Chases' /\ Quiet'
    BY <1>0, <2>1, <2>2, <2>3 DEF HuntsOnlyTheRich, Places, Chases, Quiet
  <2>6. PrizeStep /\ ArrivalStep
    BY <1>0, <2>1, <2>2, <2>3 DEF PrizeStep, ArrivalStep
  <2> QED BY <2>1, <2>4, <2>5, <2>6 DEF FightInv
<1>10. CASE SailOn
  BY <1>10, SailOnKeeps
<1>11. CASE UNCHANGED vars
  <2>1. Inv' /\ purse' = purse /\ pc' = pc /\ at' = at /\ UNCHANGED fight
    BY <1>0, <1>11, SaveStep DEF vars
  <2>2. HuntsOnlyTheRich' /\ Places' /\ Quiet'
    BY <1>0, <2>1 DEF HuntsOnlyTheRich, Places, Quiet, fight, Flying
  <2> QED BY <1>0, <1>a, <2>1, <2>2
<1> QED
  BY <1>1, <1>2, <1>3, <1>4, <1>5, <1>6, <1>7, <1>8, <1>9, <1>10, <1>11 DEF FightNext

-----------------------------------------------------------------------------
LEMMA FightInvHolds == FightSpec => []FightInv
BY FightInitInv, StepKeeps, PTL DEF FightSpec

(* Every count stays in its range: no robbery takes the gold below zero, no
   clock of the pirate runs on. *)
THEOREM FightTypeCorrect == FightSpec => []FightTypeOK
<1>1. FightInv => FightTypeOK
  BY DEF FightInv
<1> QED BY <1>1, FightInvHolds, PTL

(* openDock's "Harbours are always safe" and pirateHit's "going broke makes the
   pirate give up": nobody hunts a boat in harbour or without gold. *)
THEOREM HuntsOnlyRichBoats == FightSpec => []HuntsOnlyTheRich
<1>1. FightInv => HuntsOnlyTheRich
  BY DEF FightInv
<1> QED BY <1>1, FightInvHolds, PTL

(* What Purse_proofs shows of one operation after the other also holds of a
   frame, in which several of them meet: a kill at sea takes nothing and gives
   back only shots, and the records of a cannon agree. *)
THEOREM FightSavesAll == FightSpec => [](OnlyShotsUnsaved /\ ArmsAgree)
<1>1. FightInv => OnlyShotsUnsaved /\ ArmsAgree
  BY DEF FightInv, Inv
<1> QED BY <1>1, FightInvHolds, PTL

(* One prize a pirate, for driving it off (cannonHitPirate). *)
THEOREM OnePrize == FightSpec => PrizeOnce
<1>1. FightInv /\ [FightNext]_vars => PrizeStep
  BY StepKeeps
<1>2. FightSpec => [][PrizeStep]_vars
  BY <1>1, FightInvHolds, PTL DEF FightSpec
<1> QED BY <1>2 DEF PrizeOnce, PrizeStep

(* The balls fired at one pirate are gone when the next turns up: the quiet
   time outlasts the longest flight (updateCannon, config.PIRATE). *)
THEOREM BallsEndWithTheirPirate == FightSpec => NoBallOutlivesItsPirate
<1>1. FightInv /\ [FightNext]_vars => ArrivalStep
  BY StepKeeps
<1>2. FightSpec => [][ArrivalStep]_vars
  BY <1>1, FightInvHolds, PTL DEF FightSpec
<1> QED BY <1>2 DEF NoBallOutlivesItsPirate, ArrivalStep
-----------------------------------------------------------------------------
(* The variant of a visit. *)

(* The clocks of Pirate:update are checked in every frame that moves them. *)
OnTime(p) ==
  /\ p.state = "chase" => p.time <= HuntTime
  /\ p.state = "retreat" => p.time <= RetreatMax

(* The most frames at sea a pirate can still be about. *)
FramesLeft(p) ==
  IF p.state = "chase" THEN (HuntTime - p.time) + RetreatMax + 2
  ELSE IF p.state = "retreat" THEN (RetreatMax - p.time) + 1
  ELSE 0

LEMMA LeftIsNat ==
  ASSUME NEW p \in PirateTypes, OnTime(p)
  PROVE  /\ FramesLeft(p) \in 0..(HuntTime + RetreatMax + 2)
         /\ p.state # "none" => FramesLeft(p) > 0
         /\ p.state = "chase" => FramesLeft(p) > RetreatMax + 1
         /\ HuntTime \in Nat /\ RetreatMax \in Nat /\ p.time \in Nat
<1>1. p.time \in Nat /\ HuntTime \in Nat /\ RetreatMax \in Nat
  BY TimesAreNat DEF PirateTypes
<1>2. p.state \in {"none", "chase", "retreat"}
  BY DEF PirateTypes
<1> QED BY <1>1, <1>2 DEF OnTime, FramesLeft

(* To flee is to have less time left, however late in the chase. *)
LEMMA FleeShortens ==
  ASSUME NEW p \in PirateTypes, OnTime(p)
  PROVE  OnTime(Flee(p)) /\ FramesLeft(Flee(p)) <= FramesLeft(p)
<1>1. CASE p.state = "chase"
  <2>1. Flee(p).state = "retreat" /\ Flee(p).time = 0
    BY <1>1 DEF Flee, PirateTypes
  <2> QED BY <1>1, <2>1, LeftIsNat DEF OnTime, FramesLeft
<1>2. CASE p.state # "chase"
  <2>1. Flee(p) = p
    BY <1>2 DEF Flee
  <2> QED BY <2>1, LeftIsNat
<1> QED BY <1>1, <1>2

(* A frame of the pirate. *)
LEMMA TiresShortens ==
  ASSUME NEW p \in PirateTypes, OnTime(p), NEW far \in BOOLEAN, p.state # "none",
         NEW q, q = Tires([p EXCEPT !.time = @ + 1], far)
  PROVE  OnTime(q) /\ FramesLeft(q) < FramesLeft(p)
<1> DEFINE r == [p EXCEPT !.time = @ + 1]
<1>1. r.state = p.state /\ r.time = p.time + 1 /\ p.state \in {"chase", "retreat"}
  BY DEF PirateTypes
<1>2. /\ p.time \in Nat /\ HuntTime \in Nat /\ RetreatMax \in Nat
      /\ FramesLeft(p) > 0
      /\ p.state = "chase" => FramesLeft(p) > RetreatMax + 1
  BY LeftIsNat
<1>3. CASE p.state = "chase" /\ (far \/ r.time > HuntTime)
  <2>1. q = Flee(r)
    BY <1>1, <1>3 DEF Tires
  <2>2. q.state = "retreat" /\ q.time = 0
    BY <1>1, <1>3, <2>1 DEF Flee, PirateTypes
  <2> QED BY <1>2, <1>3, <2>2 DEF OnTime, FramesLeft
<1>4. CASE p.state = "chase" /\ ~(far \/ r.time > HuntTime)
  <2>1. q.state = "chase" /\ q.time = p.time + 1 /\ ~(p.time + 1 > HuntTime)
    BY <1>1, <1>4 DEF Tires
  <2> QED BY <1>2, <1>4, <2>1 DEF OnTime, FramesLeft
<1>5. CASE p.state # "chase" /\ ~(far \/ r.time > RetreatMax)
  <2>1. q.state = "retreat" /\ q.time = p.time + 1 /\ ~(p.time + 1 > RetreatMax)
    BY <1>1, <1>5 DEF Tires
  <2> QED BY <1>1, <1>2, <1>5, <2>1 DEF OnTime, FramesLeft
<1>6. CASE p.state # "chase" /\ (far \/ r.time > RetreatMax)
  <2>1. q = NoPirate /\ q.state = "none"
    BY <1>1, <1>6, NewPirateTypes DEF Tires
  <2> QED BY <1>2, <2>1 DEF OnTime, FramesLeft
<1> QED BY <1>3, <1>4, <1>5, <1>6

LEMMA StruckShortens ==
  ASSUME NEW p \in PirateTypes, OnTime(p), NEW hits \in Nat
  PROVE  OnTime(Struck(p, hits)) /\ FramesLeft(Struck(p, hits)) <= FramesLeft(p)
<1>1. CASE Min({p.hits + hits, ScareHits}) = ScareHits
  <2>1. Flee(p) \in PirateTypes
    BY FleeKeeps
  <2>2. Struck(p, hits) = [Flee(p) EXCEPT !.hits = ScareHits]
    BY <1>1 DEF Struck
  <2>3. Struck(p, hits).state = Flee(p).state /\ Struck(p, hits).time = Flee(p).time
    BY <2>1, <2>2 DEF PirateTypes
  <2> QED BY <2>3, FleeShortens DEF OnTime, FramesLeft
<1>2. CASE Min({p.hits + hits, ScareHits}) # ScareHits
  <2>1. Struck(p, hits) = [p EXCEPT !.hits = Min({p.hits + hits, ScareHits})]
    BY <1>2 DEF Struck
  <2>2. Struck(p, hits).state = p.state /\ Struck(p, hits).time = p.time
    BY <2>1 DEF PirateTypes
  <2>3. FramesLeft(p) \in Int
    BY LeftIsNat
  <2> QED BY <2>2, <2>3 DEF OnTime, FramesLeft
<1> QED BY <1>1, <1>2

(* updatePirate, and then updateCannon. *)
LEMMA TurnsShorten ==
  ASSUME FightInv, OnTime(pirate), at = "sea", NEW u \in PirateTurns
  PROVE  /\ OnTime(u.pirate)
         /\ pirate # NoPirate => FramesLeft(u.pirate) < FramesLeft(pirate)
<1>1. pirate \in PirateTypes /\ (pirate # NoPirate => pirate.state # "none")
  BY DEF FightInv, FightTypeOK, PirateTypes, Chases
<1>2. CASE pirate # NoPirate
  <2>1. PICK w \in PirateUpdates :
          u = [pirate |-> w.pirate, coins |-> w.coins,
               cooldown |-> IF w.pirate = NoPirate THEN RespawnGrace ELSE cooldown]
    BY <1>2 DEF PirateTurns
  <2>2. PICK a \in Volleys, far \in BOOLEAN : w = AfterVolley(a, far)
    BY DEF PirateUpdates
  <2> DEFINE r == [pirate EXCEPT !.balls = a.left]
             c == RobbedOf(purse.coins, a.hits)
             p == Robs(r, a.hits, c)
  <2>3. a.left \in 0..PirateBalls
    BY <2>2 DEF Volleys
  <2>4. r \in PirateTypes /\ r.state = pirate.state /\ r.time = pirate.time
    BY <1>1, <2>3 DEF PirateTypes
  <2>5. OnTime(r) /\ FramesLeft(r) = FramesLeft(pirate) /\ r.state # "none"
    BY <1>1, <1>2, <2>4 DEF OnTime, FramesLeft
  <2>6. u.pirate = Tires([p EXCEPT !.time = @ + 1], far)
    BY <2>1, <2>2 DEF AfterVolley
  <2>7. p \in {r, Flee(r)}
    BY DEF Robs
  <2> HIDE DEF p, r, c
  <2>8. /\ p \in PirateTypes /\ p.state # "none" /\ OnTime(p)
        /\ FramesLeft(p) <= FramesLeft(pirate)
    BY <1>1, <2>4, <2>5, <2>7, FleeKeeps, FleeShortens, LeftIsNat
  <2>9. OnTime(u.pirate) /\ FramesLeft(u.pirate) < FramesLeft(p)
    BY <2>6, <2>8, TiresShortens
  <2>10. u.pirate \in PirateTypes
    BY PirateTurnsKeep
  <2>11. FramesLeft(u.pirate) \in Int /\ FramesLeft(p) \in Int /\ FramesLeft(pirate) \in Int
    BY <1>1, <2>8, <2>9, <2>10, LeftIsNat
  <2> QED BY <2>8, <2>9, <2>11
<1>3. CASE pirate = NoPirate
  <2>1. u.pirate \in {NoPirate, NewPirate}
    BY <1>3, NewPirateTypes DEF PirateTurns
  <2>2. NoPirate.state = "none" /\ NewPirate.state = "chase" /\ NewPirate.time = 0
    BY DEF NoPirate, NewPirate
  <2> QED BY <1>3, <2>1, <2>2, TimesAreNat DEF OnTime
<1> QED BY <1>2, <1>3

LEMMA CannonShortens ==
  ASSUME own \in [Shots -> 0..BallLife], NEW p \in PirateTypes, OnTime(p),
         NEW v \in CannonTurns(p)
  PROVE  OnTime(v.pirate) /\ FramesLeft(v.pirate) <= FramesLeft(p)
<1>1. PICK hit \in Strikes(p) :
        v.pirate = IF hit # {} THEN Struck(p, Cardinality(hit)) ELSE p
  <2>1. PICK hit \in Strikes(p) :
          v \in {CannonTurn(p, hit, Onward(own, hit), 0)} \cup
                {CannonTurn(p, hit, balls, 1) :
                   balls \in IF MayFire(p) THEN Fired(Onward(own, hit)) ELSE {}}
    BY DEF CannonTurns
  <2>2. \E balls, fired : v = CannonTurn(p, hit, balls, fired)
    BY <2>1
  <2> QED BY <2>2 DEF CannonTurn
<1>2. hit \in SUBSET Flying(own)
  BY DEF Strikes
<1>3. Cardinality(hit) \in Nat
  BY <1>2, BallsKeep
<1>4. FramesLeft(p) \in Int
  BY LeftIsNat
<1> QED BY <1>1, <1>3, <1>4, StruckShortens

(* A frame at sea with a pirate about brings the end of its visit nearer, whatever
   is fired and hits; and nothing else but the end of the visit touches the
   pirate: pausing the game, a menu, a shop and a shot give it no frame more. *)
VisitStep ==
  pirate # NoPirate =>
    IF SailOn THEN FramesLeft(pirate') < FramesLeft(pirate)
    ELSE pirate' \in {pirate, NoPirate}
VisitShortens == [][VisitStep]_vars

LEMMA VisitStepHolds ==
  ASSUME FightInv, OnTime(pirate), [FightNext]_vars
  PROVE  OnTime(pirate)' /\ VisitStep
<1>1. OnTime(NoPirate)
  BY DEF OnTime, NoPirate
<1>2. CASE SailOn
  <2>1. PICK u \in PirateTurns :
          \E v \in IF purse.owned THEN CannonTurns(u.pirate) ELSE {NoCannon(u.pirate)} :
            pirate' = v.pirate
    BY <1>2 DEF SailOn
  <2>2. PICK v \in IF purse.owned THEN CannonTurns(u.pirate) ELSE {NoCannon(u.pirate)} :
          pirate' = v.pirate
    BY <2>1
  <2>3. /\ at = "sea" /\ own \in [Shots -> 0..BallLife] /\ pirate \in PirateTypes
    BY <1>2 DEF SailOn, FightInv, FightTypeOK, PirateTypes
  <2>4. /\ u.pirate \in PirateTypes /\ OnTime(u.pirate)
        /\ pirate # NoPirate => FramesLeft(u.pirate) < FramesLeft(pirate)
    BY <2>3, PirateTurnsKeep, TurnsShorten
  <2>5. FramesLeft(u.pirate) \in Int /\ FramesLeft(pirate) \in Int
    BY <2>3, <2>4, LeftIsNat
  <2>6. OnTime(v.pirate) /\ FramesLeft(v.pirate) <= FramesLeft(u.pirate)
    <3>1. CASE purse.owned
      BY <2>2, <2>3, <2>4, <3>1, CannonShortens
    <3>2. CASE ~purse.owned
      <4>1. v.pirate = u.pirate
        BY <2>2, <3>2 DEF NoCannon
      <4> QED BY <2>4, <2>5, <4>1
    <3> QED BY <3>1, <3>2
  <2>7. v.pirate \in PirateTypes
    BY <1>2, <2>2, SailOnKeeps DEF FightInv, FightTypeOK, PirateTypes
  <2>8. FramesLeft(v.pirate) \in Int
    BY <2>6, <2>7, LeftIsNat
  <2>9. OnTime(pirate)' /\ (pirate # NoPirate => FramesLeft(pirate') < FramesLeft(pirate))
    BY <2>2, <2>4, <2>5, <2>6, <2>8 DEF OnTime
  <2> QED BY <1>2, <2>9 DEF VisitStep
<1>3. CASE ~SailOn
  <2>1. pirate' \in {pirate, NoPirate}
    BY <1>3 DEF FightNext, SwitchOn, SwitchOff, Blur, LoadWorld, ExitToMenu, OpenDock, Shop,
       CastOff, TapFire, fight, vars
  <2> QED BY <1>1, <1>3, <2>1 DEF VisitStep, OnTime
<1> QED BY <1>2, <1>3

LEMMA OnTimeHolds == FightSpec => [](FightInv /\ OnTime(pirate))
<1>1. FightInit => OnTime(pirate)
  BY DEF FightInit, NoPirate, OnTime
<1>2. FightInv /\ OnTime(pirate) /\ [FightNext]_vars => OnTime(pirate)'
  BY VisitStepHolds
<1> QED BY <1>1, <1>2, FightInvHolds, PTL DEF FightSpec

(* "robbery visits are bounded ... bounded either way" (Pirate:update): a visit takes
   no more frames at sea than HUNT_TIME, the longest retreat, and the frame in
   which each of them ends, and no fight, flight or pause stretches it. *)
VisitBounded == VisitShortens /\ [](FramesLeft(pirate) \in 0..(HuntTime + RetreatMax + 2))

THEOREM VisitsAreBounded == FightSpec => VisitBounded
<1>1. FightInv /\ OnTime(pirate) /\ [FightNext]_vars => VisitStep
  BY VisitStepHolds
<1>2. FightInv /\ OnTime(pirate) => FramesLeft(pirate) \in 0..(HuntTime + RetreatMax + 2)
  BY LeftIsNat DEF FightInv, FightTypeOK, PirateTypes
<1> QED BY <1>1, <1>2, OnTimeHolds, PTL DEF FightSpec, VisitShortens, VisitBounded
============================================================================
