\* Crashes at every point of a log that is compacted and outgrows its reader.
SPECIFICATION Spec
CONSTANTS
  Sessions = {s1, s2}
  NoSession = NoSession
  CompactAbove = 2
  ReplayCap = 3
  MaxLen = 5
  MaxCrashes = 3
  Faults = {"tear", "empty"}
INVARIANTS
  TypeOK
  WrittenIsRead
PROPERTIES
  NoFalseRollback
  InterruptedIsFound
  ImplementsOpenTransactions
CHECK_DEADLOCK FALSE
