SPECIFICATION FightSpec
CONSTANTS
  brod = brod
  Food = {brod}
  FoodPrice <- Prices
  CannonPrice = 2
  AmmoPrice = 1
  Crate = 1
  StartAmmo = 3
  HitGold = 2
  Reward = {2}
  Missing = Missing
  MaxCoins = 3
  MaxAmmo = 1
  MaxStock = 1
  ScareHits = 2
  DropGold = 2
  PirateBalls = 2
  BallLife = 2
  SpawnGrace = 2
  RespawnGrace = 3
  HuntTime = 2
  RetreatMax = 1
  MaxShots = 3
INVARIANTS FightTypeOK HuntsOnlyTheRich OnlyShotsUnsaved ArmsAgree
PROPERTIES PrizeOnce NoBallOutlivesItsPirate VisitEnds
