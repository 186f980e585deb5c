SPECIFICATION Spec
CONSTANTS
  Turn = {0, 1}
  CallId = {c1, c2}
  ToolName = {deploy, unlisted}
  KnownTool = {deploy}
  Result = {r1, r2}
  Update = {u1, u2, u3}
  MaxAttempts = 2
  NoCall = NoCall
  NoIdentity = NoIdentity
SYMMETRY Symmetry
INVARIANTS TypeOK AtMostOnce RecordedBeforeReply LiveAttemptNotFenced
PROPERTIES FenceHolds ImplementsLog
CHECK_DEADLOCK FALSE
