SPECIFICATION Spec
CONSTANTS
  c1 = c1
  c2 = c2
  cheap = cheap
  dear = dear
  question = question
  Calls = {c1, c2}
  Models = {cheap, dear}
  AnyModel = AnyModel
  NoPrompt = NoPrompt
  Requests <- PlaygroundRequests
  RuleLists <- DailyLimitList
  Prompts = {}
  Experiments = {FALSE}
  Faults = {}
  Rollover = FALSE
  MaxSpent = 3
  DailyCap = 2
  BudgetCap = 2
  MaxTokens = 1
  MaxCost = 1
INVARIANTS EveryCallLogged
