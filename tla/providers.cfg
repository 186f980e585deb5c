SPECIFICATION FairSpec
CONSTANTS
  Call = {c1}
  MaxLines = 5
  Fine = Fine
  Verdict = {Fine, {}, {"auth"}, {"no_conversation", "auth"}}
  StderrSigns = {{}, {"usage_error"}}
  RpcError = {"mcp", "no_thread"}
  Completion = {"fine", "sandbox", "bad_request"}
  AskId = {0, 2}
  MaxNotices = 2
  Turn = {t1, t2}
  Earlier = Earlier
  MaxIterations = 2
  MaxHttpAttempts = 2
  MaxBlocks = 2
  MaxApiRestarts = 1
INVARIANTS TypeOK ClaudeFinishedInTime PendingCallsNamed CodexResultStands SpendReported DeathRetried RequestsPaired NoCutReplyRuns
PROPERTIES SessionsGrow TurnReturns ApiTurnReturns
CHECK_DEADLOCK FALSE
