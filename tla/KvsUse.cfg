SPECIFICATION Spec
CONSTANTS
  k1 = k1
  k2 = k2
  v1 = v1
  v2 = v2
  Keys = {k1, k2}
  NoKey = NoKey
  Zero = Zero
  Junk = Junk
  Versions = {v1, v2}
  NoVersion = NoVersion
  Uses <- GoodUses
SYMMETRY MCSymmetry
INVARIANTS TypeOK ElementsConsistent OneHeadPerKey NoAssertion
PROPERTIES Promise CheckClears RemovalsCompleted
