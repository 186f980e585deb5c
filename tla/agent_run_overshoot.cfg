SPECIFICATION Spec
CONSTANTS
  root = root
  c1 = c1
  c2 = c2
  Run = {root, c1, c2}
  Root = root
  NoRun = NoRun
  NoCap = NoCap
  Unknown = Unknown
  RootBudgets <- RootBudgetsValue
  AgentBudgets <- AgentBudgetsValue
  TurnUsages <- TurnUsagesValue
  MaxMessages = 0
SYMMETRY Symmetry
INVARIANTS OvershootOneTurn
CHECK_DEADLOCK FALSE
