SPECIFICATION CSpec
CONSTANTS
  Chest = {c1, c2, c3}
  NoChest = NoChest
  Cooldown = 3
  ExitFrames = 1
PROPERTY HuntsKeepTheirDistance
