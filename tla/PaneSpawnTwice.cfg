SPECIFICATION Spec
CONSTANTS
  MaxFd = 2
  MaxConns = 2
  MaxPods = 2
  Keys = {k}
  NoKey = NoKey
  Faults = {"together"}
INVARIANT OneProcessPerKey
CHECK_DEADLOCK FALSE
