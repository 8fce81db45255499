\* One document that two workers may process at once, neither cancelled nor
\* deleted; puts wait for space as long as it takes.
SPECIFICATION FairSpec
CONSTANTS
  d1 = d1
  w1 = w1
  w2 = w2
  c1 = c1
  c2 = c2
  None = None
  Doc = {d1}
  Worker = {w1,w2}
  Caller = {c1,c2}
  MaxQueue = 1
  MaxCompleted = 1
  Cancellable = {}
  Deletable = {}
  PutTimesOut = FALSE
  MaxSubmissions = 2
  MaxCrashes = 1
INVARIANTS
  NoneStranded
  SettledIsAnswered
PROPERTIES
  EveryDocumentSettles
  CallersWake
  AnswersAreBroadcast
CHECK_DEADLOCK FALSE
