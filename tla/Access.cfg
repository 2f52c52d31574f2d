SPECIFICATION AccessSpec
CONSTANTS
  r1 = r1
  r2 = r2
  r3 = r3
  w1 = w1
  w2 = w2
  ann = ann
  bob = bob
  carl = carl
  sa = sa
  sb = sb
  k = k
  openai = openai
  none = none
  Requests = {r1, r2, r3}
  Workers = {w1, w2}
  Operations <- MCOperations
  Logins = {sa, sb}
  Users = {ann, bob, carl}
  Keys = {k}
  Providers = {openai}
  Nothing = none
  MaxTime = 1
  Window = 1
  CleanupPeriod = 1
  DefaultRate = 2
  AuthRate = 1
  BurstRate = 2
  AccessLife = 0
  RefreshLife = 1
  Proposal = 1
  LoginOf <- MCLoginOf
SYMMETRY RequestSymmetry
CONSTRAINT OneTopic
INVARIANTS AccessTypeOK WindowBound RetryAfterEnough SingleUse RevocationReaches AdminRemains RotationReplaces OneCredential PriceHistory TermsAgreed OneActiveVersion
