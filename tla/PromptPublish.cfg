SPECIFICATION Spec
CONSTANTS
  p1 = p1
  p2 = p2
  p3 = p3
  Procs = {p1, p2, p3}
  MaxVersions = 3
SYMMETRY Requests
INVARIANTS TypeOK NumbersGapless PublishedTogether
PROPERTIES KeepsPublished
