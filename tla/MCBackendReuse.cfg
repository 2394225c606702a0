SPECIFICATION Spec
CONSTANTS
  c1 = c1
  c2 = c2
  p1 = p1
  p2 = p2
  Callers = {c1, c2}
  Ports = {p1, p2}
  MaxStarts = 2
  MaxConns = 1
INVARIANT PortFreeAfterStop
