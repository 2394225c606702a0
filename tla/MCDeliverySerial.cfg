SPECIFICATION FairSpec
CONSTANTS
  w1 = w1
  w2 = w2
  p1 = p1
  p2 = p2
  Main = Main
  NoSnapshot = NoSnapshot
  Workers = {w1}
  Ports = {p1}
  Owned <- MCOwned
  ConfigCalls <- MCConfigCalls
  MaxVersion = 4
  MaxStarts = 2
  MaxDrops = 1
PROPERTY EnvoyConverges
PROPERTY StopTerminates
INVARIANT QuiescentServesState
PROPERTY ServedVersionGrows
