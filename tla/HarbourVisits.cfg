SPECIFICATION VSpec
CONSTANTS
  norge = norge
  amerika = amerika
  p1 = p1
  p2 = p2
  q1 = q1
  q2 = q2
  Map = {norge, amerika}
  Port = {p1, p2, q1, q2}
  PortsOf <- TwoMaps
  NoPort = NoPort
  Capacity = 2
  LatchFrames = 2
  MaxJobs = 1
  Keyboard = FALSE
INVARIANT OpensWhereItCameClose
