SPECIFICATION Spec
CONSTANTS
  c1 = c1
  c2 = c2
  w1 = w1
  small = small
  large = large
  alpha = alpha
  beta = beta
  x = x
  y = y
  i1 = i1
  none = none
  Calls = {c1, c2}
  Models = {small, large}
  Nothing = none
  Workers = {w1}
  Providers = {alpha, beta}
  ProviderOf <- MCProviderOf
  Chain <- MCChain
  FailureThreshold = 2
  Prompts = {x, y}
  Ids = {i1}
  IdOf <- MCIdOf
  Similarity <- MCSimilarity
  Threshold = 2
SYMMETRY CallSymmetry
INVARIANTS OutboundTypeOK BreakerConsistent RetriesBounded HitsMatch CleansStale
PROPERTY ImplementsBreaker
