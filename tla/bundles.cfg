SPECIFICATION FairSpecBundles
CONSTANTS
  Nodes = {n1, n2}
  Records <- MCRecords
  MaxRestarts = 1
  Voters = {v1, v2}
  threshold = 2
  Events = {"e1", "e2", "f1"}
  BundleID <- CustodyBundleID
  Calls = {c1, c2}
  MaxFaults = 2
INVARIANTS
  BudgetsKept
  FairShares
  CustodyDurable
  RepairsConsistent
PROPERTIES
  
  RestoredInFull
  EventuallyLoaded
  RepairsOverwriteNothing
  RepairsConverge
CHECK_DEADLOCK FALSE
