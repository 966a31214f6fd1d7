\* Two panes, writes that take part of a frame, and a pod that is dialled again.
SPECIFICATION Spec
CONSTANTS
  Panes = {p1, p2}
  PaneIds = {1, 2}
  ReplayCap = 2
  QueueCap = 2
  PodQueueCap = 2
  WriteUnit = "bytes"
  Faults = {"pod"}
  MaxFaults = 1
  MaxSeq = 2
  QuietTyping = FALSE
INVARIANTS
  StreamInFrame
CHECK_DEADLOCK FALSE
