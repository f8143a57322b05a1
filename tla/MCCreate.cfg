CONSTANTS
  Faults <- EveryFault
  MaxSetters = 2
SPECIFICATION FairSpec
INVARIANTS RecordsItsOwn
PROPERTIES TellsTheTruth CreateReturns
CHECK_DEADLOCK FALSE
