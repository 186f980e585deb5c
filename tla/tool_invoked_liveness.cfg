SPECIFICATION FairSpec
CONSTANTS
  Turn = {0, 1}
  CallId = {c1}
  ToolName = {deploy, unlisted}
  KnownTool = {deploy}
  Result = {r1}
  Update = {u1, u2}
  MaxAttempts = 2
  NoCall = NoCall
  NoIdentity = NoIdentity
PROPERTIES JoinersAnswered
CHECK_DEADLOCK FALSE
