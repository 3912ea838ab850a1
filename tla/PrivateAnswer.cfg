SPECIFICATION Spec
CONSTANTS
  MaxHits = 2
  Questions <- MCQuestions
  None = None
INVARIANTS CitationsArePositional ShownIsHeld
PROPERTIES RecoveryIsMonotonic StopEndsCorrections TurnEnds
