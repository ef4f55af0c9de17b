SPECIFICATION Spec
CONSTANTS
  brod = brod
  epler = epler
  Food = {brod, epler}
  FoodPrice <- Prices
  CannonPrice = 3
  AmmoPrice = 1
  Crate = 1
  StartAmmo = 2
  HitGold = 2
  Reward = {1, 3}
  Missing = Missing
  MaxCoins = 3
  MaxAmmo = 2
  MaxStock = 2
INVARIANT ComesLoaded
