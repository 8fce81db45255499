\* One document that is published, edited, scanned and tagged.
SPECIFICATION Spec
CONSTANTS
  d1 = d1
  None = None
  Doc = {d1}
  Editable = {d1}
  Taggable = {d1}
  Askable = {d1}
  Term = {"a", "b"}
  MaxVersion = 2
  MaxSize = 2
  Size <- MCSize
  SlotTerms <- MCSlotTerms
  Meta = {1, 2}
  MetaTerms <- MCMetaTerms
  MaxOps = 3
PROPERTIES
  TagsCertifyNothing
CHECK_DEADLOCK FALSE
