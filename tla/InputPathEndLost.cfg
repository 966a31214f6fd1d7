\* One pane, and the backlog_end of its replay may be dropped.
SPECIFICATION FairSpec
CONSTANTS
  Panes = {p1}
  PaneIds = {1}
  ReplayCap = 2
  QueueCap = 2
  PodQueueCap = 2
  WriteUnit = "all"
  Faults = {"ctl", "end"}
  MaxFaults = 2
  MaxSeq = 2
  QuietTyping = TRUE
PROPERTY
  EveryKeyArrives
CHECK_DEADLOCK FALSE
