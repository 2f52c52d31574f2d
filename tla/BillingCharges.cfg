SPECIFICATION Spec
CONSTANTS
  p1 = p1
  p2 = p2
  Procs = {p1}
  Contracts <- TwoKinds
  UnitCost = 1
  MaxUsage = 2
  Amounts = {1}
  NoteCeiling = 2
  MaxCredit = 2
INVARIANT EveryChargeOnALine
