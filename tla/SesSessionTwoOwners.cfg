\* A reattach that outlives the 5 seconds of its lock.
SPECIFICATION Spec
CONSTANTS
  Panes = {a, k}
  Keyed = {k}
  Sessions = {s1, s2, s3}
  NoSession = NoSession
  MaxClients = 3
  MaxRestarts = 0
  Hazards = {"slow"}
SYMMETRY SessionSymmetry
INVARIANT
  OneClientPerSession
CHECK_DEADLOCK FALSE
