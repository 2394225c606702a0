SPECIFICATION FairSpec
CONSTANTS
  c1 = c1
  c2 = c2
  p1 = p1
  p2 = p2
  Callers = {c1, c2}
  Ports = {p1, p2}
  MaxStarts = 3
  MaxConns = 2
INVARIANT TypeOK
INVARIANT RegisteredOwnsPort
INVARIANT ForgottenIsQuiet
PROPERTY CallsReturn
PROPERTY PortsReleased
