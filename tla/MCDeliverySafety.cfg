SPECIFICATION DSpec
CONSTANTS
  w1 = w1
  w2 = w2
  p1 = p1
  p2 = p2
  Main = Main
  NoSnapshot = NoSnapshot
  Workers = {w1, w2}
  Ports = {p1, p2}
  Owned <- MCOwned
  ConfigCalls <- MCConfigCalls
  MaxVersion = 3
  MaxStarts = 1
  MaxDrops = 1
INVARIANT DTypeOK
INVARIANT WatchersAreCurrent
