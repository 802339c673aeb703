SPECIFICATION Spec
CONSTANTS
  MaxHeight = 2
  MaxFaults = 1
INVARIANT RecoveredReloads
CHECK_DEADLOCK FALSE
