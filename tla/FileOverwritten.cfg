CONSTANTS
  Dir <- MCDir
  Path <- MCPath
  Source <- MCSource
  Roots <- MCRoots
  Doc = {d1, d2}
  Points <- MCPoints
  Others = 2
  MaxResults = 2
  Call = {c1, c2}
  None = None
  MaxFaults = 0
SPECIFICATION Spec
SYMMETRY Symmetry
PROPERTY NothingOverwritten
