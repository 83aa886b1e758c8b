SPECIFICATION Spec
CONSTANTS
  QueueLength = 6
  Spare = 2
INVARIANTS AttributeAgrees
