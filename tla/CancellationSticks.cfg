\* A document is registered, which starts the processor, and then cancelled.
SPECIFICATION Spec
CONSTANTS
  d1 = d1
  w1 = w1
  w2 = w2
  c1 = c1
  None = None
  Doc = {d1}
  Worker = {w1,w2}
  Caller = {c1}
  MaxQueue = 2
  MaxCompleted = 1
  Cancellable = {d1}
  Deletable = {}
  PutTimesOut = FALSE
  MaxSubmissions = 2
  MaxCrashes = 0
PROPERTIES
  CancellationSticks
CHECK_DEADLOCK FALSE
