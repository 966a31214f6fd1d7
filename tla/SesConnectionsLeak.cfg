\* A request waits for a frontend whose connection is closed from the list of closes.
SPECIFICATION Spec
CONSTANTS
  Panes = {}
  MaxFd = 3
  MaxConns = 3
  Requests = {"parked"}
  Faults = {}
INVARIANT NothingLeaks
CHECK_DEADLOCK FALSE
