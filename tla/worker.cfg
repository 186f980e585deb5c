SPECIFICATION MCSpec
CONSTANTS
  Workflow = {w1}
  Token = {t1, t2}
  Call = {c1}
  MaxRuns = 2
  MaxRestarts = 1
  Capacity = 1
  NoContext = NoContext
  Caller = {u1, u2}
  MaxQueued = 1
  Client = {k1}
  TurnAttempt = {a1, a2}
  MaxTries = 2
  NoSpan = NoSpan
INVARIANTS TypeOK ComponentTypes OneObserver RetriesAsDeclared NoWorkerLeft
PROPERTIES EvictsLateOnly WatchedTokensEvicted CallsAnswered EndAnswered SpansAdopted
CHECK_DEADLOCK FALSE
