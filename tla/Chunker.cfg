\* Texts of up to ten characters; limits with quarters 0, 1 and 2, and overlaps
\* below, at and above them.
SPECIFICATION Spec
CONSTANTS
  MaxLength = 10
  Limits = {1, 3, 4, 8}
  Overlaps = {0, 1, 9}
INVARIANTS
  TypeOK
  Lossless
  NewText
  Bounded
CHECK_DEADLOCK FALSE
