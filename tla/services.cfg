SPECIFICATION SpecServices
CONSTANTS
  Nodes = {n1, n2}
  Requests = {r1, r2}
  Submissions = {"s1", "s2", "bad"}
  IdempotencyKey <- EvidenceKey
  MaxHeight = 3
  MaxFaults = 1
  Validators <- FaultValidators
  Threshold = 2
  SuspectAfterTicks = 1
  FailAfterTicks = 2
  LagHeightThreshold = 0
  MaxTick = 4
  MaxCommitted = 2
  MaxInjected = 2
  Accounts = {"admin", "issuer"}
  Admin = "admin"
  ValidatorIDs = {"v1", "v2"}
  CredentialHashes = {"c"}
  ProposalHashes = {"p"}
  QCHashes = {"q"}
  MaxAnchored = 3
  MaxGrants = 2
  c1 = c1
  c2 = c2
SYMMETRY Symmetry
INVARIANTS
  ReceiptsAgree
  CommittedIsReceipted
  RateBound
  PassedIsAudited
  
  MockMatchesContracts
CHECK_DEADLOCK FALSE
