\* Two documents and two workers, with everything users may do, a result cache
\* of one entry and one end of the process.
SPECIFICATION Spec
CONSTANTS
  d1 = d1
  d2 = d2
  w1 = w1
  w2 = w2
  c1 = c1
  None = None
  Doc = {d1, d2}
  Worker = {w1, w2}
  Caller = {c1}
  MaxQueue = 2
  MaxCompleted = 1
  Cancellable = {d1, d2}
  Deletable = {d1, d2}
  PutTimesOut = TRUE
  MaxSubmissions = 2
  MaxCrashes = 1
SYMMETRY Symmetry
INVARIANTS
  TypeOK
  ProcessingOwned
  InProgressBacked
PROPERTIES
  RowsFollowLifecycle
  EvictionSparesSleepers
CHECK_DEADLOCK FALSE
