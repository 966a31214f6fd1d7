\* Frontends that attach, steal, vanish and give up; nothing is ever saved.
SPECIFICATION Spec
CONSTANTS
  Panes = {a, k}
  Keyed = {k}
  Sessions = {s1, s2, s3}
  NoSession = NoSession
  MaxClients = 4
  MaxRestarts = 0
  Hazards = {"full", "partial", "abort", "stale", "clash"}
SYMMETRY SessionSymmetry
INVARIANTS
  ListsAgree
  StateMatchesOwner
  OneClientPerSession
  ReattachIsExclusive
  NotHeldTwice
  GhostsAreFloats
PROPERTY
  LeavingParks
CHECK_DEADLOCK FALSE
