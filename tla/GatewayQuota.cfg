SPECIFICATION Spec
CONSTANTS
  c1 = c1
  c2 = c2
  cheap = cheap
  dear = dear
  question = question
  Calls = {c1, c2}
  Models = {cheap, dear}
  AnyModel = AnyModel
  NoPrompt = NoPrompt
  Requests <- LogRequests
  RuleLists <- LimitLists
  Prompts = {}
  Experiments = {FALSE}
  Faults = {"redis"}
  Rollover = TRUE
  MaxSpent = 7
  DailyCap = 3
  BudgetCap = 2
  MaxTokens = 2
  MaxCost = 2
SYMMETRY Workers
INVARIANTS TypeOK DailyOvershoot BudgetOvershoot
