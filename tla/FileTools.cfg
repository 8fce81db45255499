CONSTANTS
  Dir <- MCDir
  Path <- MCPath
  Source <- MCSource
  Roots <- MCRoots
  Doc = {d1}
  Points <- MCPoints
  Others = 2
  MaxResults = 2
  Call = {c1, c2}
  None = None
  MaxFaults = 1
SPECIFICATION Spec
SYMMETRY Symmetry
INVARIANTS TypeOK IndexFollowsRows
PROPERTIES RowsFollowFiles RootsFollowRows OverwritesAreLate
