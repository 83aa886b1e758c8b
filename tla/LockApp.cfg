SPECIFICATION FairSpec
CONSTANTS
  QueueLength = 6
  Spare = 2
INVARIANTS TypeOK SelectionEnds ButtonsKeepAttribute
PROPERTIES MovementTakesItsTime ResetOnlyHeld ActionsComplete
