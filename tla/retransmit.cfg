SPECIFICATION FairSpec
CONSTANTS
  Envelopes <- MCEnvelopes
  MaxTick = 2
  MaxFaults = 1
  MaxRestarts = 1
INVARIANTS
  AppliedOnce
  InSequence
  NothingReadyWaits
  HeldIsKept
PROPERTY
  EventuallyApplied
