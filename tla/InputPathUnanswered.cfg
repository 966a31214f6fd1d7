\* Only the VT channel is lost, and only it is reopened.
SPECIFICATION FairSpec
CONSTANTS
  Panes = {p1}
  PaneIds = {1}
  ReplayCap = 2
  QueueCap = 2
  PodQueueCap = 2
  WriteUnit = "all"
  Faults = {"vt"}
  MaxFaults = 1
  MaxSeq = 2
  QuietTyping = TRUE
PROPERTY
  ReplayIsAnswered
CHECK_DEADLOCK FALSE
