SPECIFICATION FairSpec
CONSTANTS
  root = root
  c1 = c1
  c2 = c2
  Run = {root, c1, c2}
  Root = root
  NoRun = NoRun
  NoCap = NoCap
  Unknown = Unknown
  RootBudgets <- OneRootBudget
  AgentBudgets <- AgentBudgetsValue
  TurnUsages <- OneUsage
  MaxMessages = 1
PROPERTIES ConversationEnds HandoffsSettle
CHECK_DEADLOCK FALSE
