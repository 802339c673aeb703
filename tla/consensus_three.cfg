CONSTANTS
  v1 = v1
  v2 = v2
  v3 = v3
  Validators = {v1, v2, v3}
  validatorIDs <- ThreeIDs
  Threshold = 2
  MaxRounds = 2
  Hash = {h1, h2}
  GenesisHash = genesis
  Payload = {tx1, tx2}
  MaxCalls = 2
  MaxRestarts = 0
SPECIFICATION Spec
SYMMETRY HashSymmetry
INVARIANTS
  TypeOK
  Agreement
  ChainCertified
  AppliedOnce
PROPERTIES
  LockHolds
  ImplementsLedger
CHECK_DEADLOCK FALSE
