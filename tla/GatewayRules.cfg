SPECIFICATION FairSpec
CONSTANTS
  c1 = c1
  c2 = c2
  cheap = cheap
  dear = dear
  question = question
  Calls = {c1}
  Models = {cheap, dear}
  AnyModel = AnyModel
  NoPrompt = NoPrompt
  Requests <- CachedRequests
  RuleLists <- BlockLists
  Prompts = {question}
  Experiments = {TRUE, FALSE}
  Faults = {"redis", "db"}
  Rollover = FALSE
  MaxSpent = 2
  DailyCap = 0
  BudgetCap = 0
  MaxTokens = 1
  MaxCost = 1
PROPERTIES StaleRulesGo
