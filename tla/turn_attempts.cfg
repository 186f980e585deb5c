SPECIFICATION Spec
CONSTANTS
  MaxAttempts = 3
  QueueBound = 1
  Usage = {1}
  Unknown = Unknown
  Parent = Parent
  NoSession = NoSession
INVARIANTS TypeOK SpendCarriedOnce ForksFound AnchorRecovered
CHECK_DEADLOCK FALSE
