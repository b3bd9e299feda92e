CONSTANTS
  Procs = {p, q}
  Hosts <- MCHosts
  MaxPath = 2
  MaxStarts = 3
  MaxKills = 1
  MaxFails = 2
SPECIFICATION FairSpec
INVARIANTS TypeOK VenvsAreWhole StartsRun
PROPERTIES StaysSettled StartsEnd
CHECK_DEADLOCK FALSE
