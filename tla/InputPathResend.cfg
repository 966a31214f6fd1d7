\* Two panes whose connection is lost up to twice, a lost backlog_end, typing at
\* any time.
SPECIFICATION FairSpec
CONSTANTS
  Panes = {p1, p2}
  PaneIds = {1, 2}
  ReplayCap = 2
  QueueCap = 2
  PodQueueCap = 2
  WriteUnit = "all"
  Faults = {"ctl", "vt", "end"}
  MaxFaults = 2
  MaxSeq = 2
  QuietTyping = FALSE
PROPERTY
  EveryKeyArrives
CHECK_DEADLOCK FALSE
