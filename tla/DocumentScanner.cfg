SPECIFICATION Spec
CONSTANTS
  pA = pA
  pB = pB
  r1 = r1
  r2 = r2
  c1 = c1
  c2 = c2
  d1 = d1
  d2 = d2
  None = None
  Path = {pA, pB}
  Root = {r1, r2}
  Scans <- MCScans
  RootOf <- MCOneRoot
  Content = {c1, c2}
  Doc = {d1, d2}
  MaxEvents = 2
SYMMETRY Symmetry
INVARIANTS
  TypeOK
  HashUnique
  ScanCovers
  ScanIsIdempotent
  LiveHasPoints
  SettledIsCurrent
PROPERTIES
  DeletesOnlyMissing
CHECK_DEADLOCK FALSE
