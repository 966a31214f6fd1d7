\* One pane whose id may change, two frames in ring and queues, every fault, and
\* writes that take any part of a frame.
SPECIFICATION Spec
CONSTANTS
  Panes = {p1}
  PaneIds = {1, 2}
  ReplayCap = 2
  QueueCap = 2
  PodQueueCap = 2
  WriteUnit = "bytes"
  Faults = {"ses", "vt", "ctl", "frontend", "pod", "end", "pty"}
  MaxFaults = 2
  MaxSeq = 3
  QuietTyping = FALSE
INVARIANTS
  TypeOK
  InOrder
  LosslessUntilFault
  RingIsNewest
PROPERTY
  ImplementsInputLog
CHECK_DEADLOCK FALSE
