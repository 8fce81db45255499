SPECIFICATION Spec
CONSTANTS
  a = a
  b = b
  c = c
  None = None
  Doc = {a, b, c}
  Point = {1, 2, 3, 4, 5, 6, 7}
  Owner <- MCOwner
  Summary = {1}
  Content = {1, 2, 3}
  Matching = {1, 2}
  Exact = {1}
  Score <- MCScore
  Stores <- MCStores
  Asked = {a, b}
  Limits = {1, 2}
  KeywordPage = 2
  SourcePage = 3
  Batch = 2
  MaxGenerations = 2
  MaxWrites = 1
INVARIANTS
  TypeOK
  KeywordMissesNothing
  SimilarIsBest
  ReportsAreTrue
CHECK_DEADLOCK FALSE
