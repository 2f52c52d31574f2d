SPECIFICATION Spec
CONSTANTS
  c1 = c1
  c2 = c2
  cheap = cheap
  dear = dear
  question = question
  Calls = {c1, c2}
  Models = {cheap, dear}
  AnyModel = AnyModel
  NoPrompt = NoPrompt
  Requests <- MixedRequests
  RuleLists <- OpenLists
  Prompts = {}
  Experiments = {TRUE, FALSE}
  Faults = {}
  Rollover = FALSE
  MaxSpent = 5
  DailyCap = 3
  BudgetCap = 2
  MaxTokens = 2
  MaxCost = 2
SYMMETRY Workers
INVARIANTS CountersMatchLog EveryCallLogged
