SPECIFICATION Spec
CONSTANTS
  norge = norge
  amerika = amerika
  Map = {norge, amerika}
  Home = norge
  NoMap = NoMap
  start = start
  west = west
  east = east
  inside = inside
  isle = isle
  Cell = {start, west, east, inside}
  Start <- AtStart
  Sights <- Coasts
  Island = {isle}
  Ring <- RingOf
  Heart <- HeartOf
  FlushFrames = 3
  CheckFrames = 2
INVARIANTS NoLeak NothingForgotten SoonSaved
PROPERTIES KeepsFog CircledIsFilled
