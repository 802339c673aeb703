SPECIFICATION Spec
CONSTANTS
  Relays = {"r1", "r2", "r3"}
  Runtimes = {t1, t2}
  Path <- MCPath
  Sends = {s1, s2}
  Destinations = {"echo", "public"}
  Allowed = {"echo"}
  Policies = {{"echo"}, {}}
  MaxEvents = 1
SYMMETRY Symmetry
INVARIANTS
  NonceUnique
  
CHECK_DEADLOCK FALSE
