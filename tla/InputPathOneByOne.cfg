\* The same with two panes, whose pods SES dials one after the other.
SPECIFICATION FairSpec
CONSTANTS
  Panes = {p1, p2}
  PaneIds = {1, 2}
  ReplayCap = 2
  QueueCap = 2
  PodQueueCap = 2
  WriteUnit = "all"
  Faults = {"ctl"}
  MaxFaults = 1
  MaxSeq = 2
  QuietTyping = TRUE
PROPERTY
  EveryKeyArrives
CHECK_DEADLOCK FALSE
