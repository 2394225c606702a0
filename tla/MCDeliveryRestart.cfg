SPECIFICATION RestartSpec
CONSTANTS
  w1 = w1
  w2 = w2
  p1 = p1
  p2 = p2
  Main = Main
  NoSnapshot = NoSnapshot
  Workers = {w1}
  Ports = {p1}
  Owned <- MCOwned
  ConfigCalls <- MCConfigCalls
  MaxVersion = 2
  MaxStarts = 1
  MaxDrops = 0
PROPERTY RestartTerminates
CHECK_DEADLOCK FALSE
