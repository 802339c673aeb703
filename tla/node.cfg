SPECIFICATION FairSpecNode
CONSTANTS
  m1 = m1
  m2 = m2
  m3 = m3
  m4 = m4
  blk1 = blk1
  blk2 = blk2
  c1 = c1
  h1 = h1
  h2 = h2
  s1 = s1
  s2 = s2
  x1 = x1
  p1 = p1
  p2 = p2
  MaxHeight = 3
  MaxFaults = 4
  Nodes <- ManifestNodes
  Versions <- ManifestVersions
  Active <- ManifestActive
  KeyID <- ManifestKeyID
  Threshold = 3
  Blocks <- ManifestBlocks
  MaxCommits = 1
  MaxRestarts = 2
INVARIANTS
  SavedStays
  PassRestores
  AgreementAcrossManifests
  HistoryReloads
  
PROPERTIES
  ProposeReturns
  StopsServing
  
CHECK_DEADLOCK FALSE
