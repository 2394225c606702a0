SPECIFICATION FairSpec
CONSTANTS
  Ports = {p1, p2}
  Jobs = {j1, j2}
  Mix = {"add/remove/timeout", "HC failure", "host re-add", "partial removal", "long-lived healthy"}
  p1 = p1
  p2 = p2
  j1 = j1
  j2 = j2
  j3 = j3
PROPERTY Terminates
INVARIANT NoLeakedBackend
INVARIANT LeftoversExplained
