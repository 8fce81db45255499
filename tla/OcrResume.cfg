SPECIFICATION Spec
CONSTANTS
  fA = fA
  fB = fB
  t1 = t1
  t2 = t2
  None = None
  File = {fA, fB}
  Page = {1, 2}
  Pages <- MCPages
  Layered = {fA}
  Legacy = {fA}
  Thread = {t1, t2}
  Limits = {1, 2}
  MaxFailures = 2
  MaxAttempts = 4
  MaxFaults = 2
SYMMETRY Symmetry
INVARIANTS
  TypeOK
  GivenUpIsEarned
PROPERTIES
  NeverResent
  NothingForgotten
CHECK_DEADLOCK FALSE
