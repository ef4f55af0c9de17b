SPECIFICATION Spec
CONSTANTS
  Debounce = 5
  CardFrames = 2
  MaxQueue = 3
INVARIANTS TypeOK NeverStuck HeldIsHere
PROPERTIES OnlyAHitchLetsThrough CardsAreSeen
CHECK_DEADLOCK FALSE
