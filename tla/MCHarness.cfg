SPECIFICATION FairSpec
CONSTANTS
  Kinds = {"fixed", "unpatched", "hasty", "forgetful", "blind", "contagious", "constant", "leaky", "amnesiac", "unconditional"}
  NumHosts = 3
  MaxLag = 250
  MaxFaults = 1
  Profiles = {"none", "medium", "huge"}
  MaxProcesses = 1
  MaxBodies = 2
INVARIANT TypeOK
INVARIANT PassesAreEarned
INVARIANT LostTimersShow
INVARIANT ExitOkMeansFixed
INVARIANT FailuresExplained
INVARIANT StartsClean
INVARIANT BodiesStartSettled
INVARIANT OrphanFromStressOnly
PROPERTY Terminates
