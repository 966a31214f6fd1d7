\* A shared float taken for a reattach that then fails, from an owner that has gone meanwhile.
SPECIFICATION Spec
CONSTANTS
  Panes = {k}
  Keyed = {k}
  Sessions = {s1, s2}
  NoSession = NoSession
  MaxClients = 3
  MaxRestarts = 0
  Hazards = {}
SYMMETRY SessionSymmetry
INVARIANT
  NoGhostOwner
CHECK_DEADLOCK FALSE
