SPECIFICATION RerunSpec
CONSTANTS
  Kinds = {"fixed"}
  NumHosts = 3
  MaxLag = 250
  MaxFaults = 0
  Profiles = {"medium"}
  MaxProcesses = 2
  MaxBodies = 1
INVARIANT FreshEnvoy
