SPECIFICATION Spec
CONSTANTS
  t1 = t1
  t2 = t2
  t3 = t3
  v1 = v1
  v2 = v2
  Tokens = {t1, t2, t3}
  Values = {v1, v2}
  Removed = Removed
  Length <- MCLength
  PageSize = 2
  NoSector = NoSector
  SeqMax = 31
  Uses <- StaleUses
INVARIANT DropsAreLast
SYMMETRY MCSymmetry
CHECK_DEADLOCK FALSE
