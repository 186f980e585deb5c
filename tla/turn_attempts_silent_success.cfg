SPECIFICATION Spec
CONSTANTS
  MaxAttempts = 2
  QueueBound = 1
  Usage = {1}
  Unknown = Unknown
  Parent = Parent
  NoSession = NoSession
INVARIANTS RecordKeepsFailedSpend
CHECK_DEADLOCK FALSE
