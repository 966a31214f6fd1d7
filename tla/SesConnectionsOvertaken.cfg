SPECIFICATION Spec
CONSTANTS
  Panes = {}
  MaxFd = 3
  MaxConns = 3
  Requests = {"parked"}
  Faults = {"slow"}
INVARIANT NothingOvertakes
CHECK_DEADLOCK FALSE
