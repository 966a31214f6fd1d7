\* A shell that reads nothing while its pod takes input.
SPECIFICATION Spec
CONSTANTS
  Panes = {p1}
  PaneIds = {1}
  ReplayCap = 2
  QueueCap = 2
  PodQueueCap = 2
  WriteUnit = "all"
  Faults = {"pty"}
  MaxFaults = 1
  MaxSeq = 2
  QuietTyping = FALSE
INVARIANTS
  AcceptedIsApplied
CHECK_DEADLOCK FALSE
