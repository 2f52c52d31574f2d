SPECIFICATION FairSpec
CONSTANTS
  c1 = c1
  c2 = c2
  c3 = c3
  a = a
  b = b
  s = s
  none = none
  Calls = {c1, c2, c3}
  Tenants = {a, b}
  Sessions = {s}
  NoSession = none
  TenantOf <- MCTenantOf
  SessionOf <- MCSessionOf
  MonthLength = 2
  MaxDay = 2
  MaxMessages = 2
  MaxLost = 1
  Pool = 2
CONSTRAINT InOrder
CHECK_DEADLOCK FALSE
INVARIANTS LedgerTypeOK SessionMatchesLog DailyMatchesLog MonthMatchesDays
PROPERTY TasksEnd
