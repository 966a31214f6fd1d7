\* SES restarts and numbers the panes anew.
SPECIFICATION Spec
CONSTANTS
  Panes = {p1, p2}
  PaneIds = {1, 2}
  ReplayCap = 2
  QueueCap = 2
  PodQueueCap = 2
  WriteUnit = "all"
  Faults = {"ses"}
  MaxFaults = 1
  MaxSeq = 2
  QuietTyping = FALSE
INVARIANT
  OwnKeysOnly
CHECK_DEADLOCK FALSE
