SPECIFICATION Spec
CONSTANTS
  norge = norge
  p1 = p1
  p2 = p2
  p3 = p3
  Map = {norge}
  Port = {p1, p2, p3}
  PortsOf <- OneMap
  NoPort = NoPort
  Capacity = 2
  LatchFrames = 2
  MaxJobs = 2
  Keyboard = TRUE
INVARIANTS TypeOK OneModal OneJob ScreenIsTrue
PROPERTIES KeepsJobs GlideEnds
