\* A number listed for closing is closed at once and given to a new VT connection in the same turn.
SPECIFICATION Spec
CONSTANTS
  Panes = {p}
  MaxFd = 3
  MaxConns = 4
  Requests = {}
  Faults = {"slow", "reused"}
INVARIANT NoneDeafened
CHECK_DEADLOCK FALSE
