\* One pane, three connections on three numbers, replies that fail or stay.
SPECIFICATION Spec
CONSTANTS
  Panes = {p}
  MaxFd = 3
  MaxConns = 3
  Requests = {"at once", "listed", "parked"}
  Faults = {"gone", "slow", "limit", "quick", "reused"}
INVARIANTS
  TypeOK
  RecordsAgree
  NoForeignClose
  NoCrossedBytes
  NoSplicedFrame
  FrontendsHeard
PROPERTY
  HandlersLeakNothing
CHECK_DEADLOCK FALSE
