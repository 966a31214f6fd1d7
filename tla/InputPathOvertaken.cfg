\* One pane, and the user types while the replay is still to come.
SPECIFICATION Spec
CONSTANTS
  Panes = {p1}
  PaneIds = {1}
  ReplayCap = 2
  QueueCap = 2
  PodQueueCap = 2
  WriteUnit = "all"
  Faults = {"ctl"}
  MaxFaults = 1
  MaxSeq = 2
  QuietTyping = FALSE
INVARIANTS
  NothingOvertaken
CHECK_DEADLOCK FALSE
