SPECIFICATION Spec
CONSTANTS
  Chest = {c1, c2, c3, c4}
  NoChest = NoChest
  Cooldown = 3
  ExitFrames = 2
INVARIANTS TypeOK OneStory RaceFollowsHunt CardIsForTheHunt NeverDeadEnds HuntOrJob
PROPERTIES MapIsAnnounced KeepsHunt
