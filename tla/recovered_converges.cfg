CONSTANTS
  v1 = v1
  v2 = v2
  v3 = v3
  Validators = {v1, v2, v3}
  validatorIDs <- ThreeIDs
  Threshold = 3
  MaxRounds = 2
  Hash = {h1}
  GenesisHash = genesis
  Payload = {tx1}
  MaxCalls = 2
  MaxRestarts = 1
SPECIFICATION FairSpec
PROPERTIES
  RecoveredConverges
CHECK_DEADLOCK FALSE
