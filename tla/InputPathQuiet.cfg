\* One pane, SES stays, nobody types during a repair: every key arrives.
SPECIFICATION FairSpec
CONSTANTS
  Panes = {p1}
  PaneIds = {1}
  ReplayCap = 4
  QueueCap = 3
  PodQueueCap = 4
  WriteUnit = "all"
  Faults = {"ctl"}
  MaxFaults = 3
  MaxSeq = 4
  QuietTyping = TRUE
PROPERTY
  EveryKeyArrives
CHECK_DEADLOCK FALSE
