SPECIFICATION Spec
CONSTANTS
  Ports = {p1, p2}
  Jobs = {j1, j2, j3}
  Mix = {"host re-add", "partial removal"}
  p1 = p1
  p2 = p2
  j1 = j1
  j2 = j2
  j3 = j3
SYMMETRY Symmetry
INVARIANT TypeOK
INVARIANT PortsConserved
INVARIANT ReturnedRunIsComplete
INVARIANT MaxConcCovers
INVARIANT AtMostOneLateStart
