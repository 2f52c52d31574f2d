SPECIFICATION Spec
CONSTANTS
  p1 = p1
  p2 = p2
  Procs = {p1, p2}
  Contracts <- TwoKinds
  UnitCost = 1
  MaxUsage = 1
  Amounts = {1}
  NoteCeiling = 2
  MaxCredit = 2
SYMMETRY Requests
CONSTRAINT CreditsOrNotes
INVARIANTS TypeOK TotalFormula LinesCoverHeader CreditNoteTrail NotesGapless
PROPERTIES FrozenToNewRequests NeverReopened ImplementsLifecycle
