SPECIFICATION Spec
CONSTANTS
  MaxFd = 2
  MaxConns = 2
  MaxPods = 2
  Keys = {k}
  NoKey = NoKey
  Faults = {"deaf"}
INVARIANTS
  TypeOK
  NoOrphanPod
  AnswersGoHome
  NoPaneForTheGone
  ErrorsAreTrue
PROPERTIES
  AnsweredOnce
  EveryRequestEnds
CHECK_DEADLOCK FALSE
