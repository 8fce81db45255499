\* Three operations on two documents, one of which is edited back and forth,
\* tagged and indexed on its own, with a failure wherever a request is awaited.
SPECIFICATION Spec
CONSTANTS
  d1 = d1
  d2 = d2
  None = None
  Doc = {d1, d2}
  Editable = {d1}
  Taggable = {d1}
  Askable = {d1}
  Term = {"a", "b"}
  MaxVersion = 2
  MaxSize = 2
  Size <- MCSize
  SlotTerms <- MCSlotTerms
  Meta = {1, 2}
  MetaTerms <- MCMetaTerms
  MaxOps = 3
INVARIANTS
  TypeOK
  Accounted
  KnownWhenVectorized
  MarkedIsWhole
  RepairsAreVerified
PROPERTIES
  PublishesWholeBodies
CHECK_DEADLOCK FALSE
