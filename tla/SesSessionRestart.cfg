\* The daemon saves its state, crashes and starts again.
SPECIFICATION Spec
CONSTANTS
  Panes = {a, k}
  Keyed = {k}
  Sessions = {s1, s2}
  NoSession = NoSession
  MaxClients = 2
  MaxRestarts = 1
  Hazards = {"disk", "partial", "abort", "stale", "clash"}
SYMMETRY SessionSymmetry
INVARIANTS
  TypeOK
  CleanMeansSaved
PROPERTY
  RestartKeepsSessions
CHECK_DEADLOCK FALSE
